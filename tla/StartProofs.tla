----------------------------- MODULE StartProofs -----------------------------
(***************************************************************************)
(* MatchControllers wires what the configuration says, whatever devices,   *)
(* inputs, controllers and order of the IOs there are.  Controller after   *)
(* controller, a device is in the list of an input just as often as the    *)
(* controllers main has passed name that input.                            *)
(*                                                                         *)
(* And main gets on: each of its steps makes Work less, in the order of    *)
(* the loops, of the rounds within a loop and of the steps within a round. *)
(***************************************************************************)
EXTENDS LifecycleProofs, FiniteSetTheorems

\* The controllers of a device that MatchControllers has passed.
Passed(o) ==
    {k \in DOMAIN config.controllers[o] :
        \/ phase \in {"thermostats", "running"}
        \/ phase = "controllers" /\ (Place(o) < at \/ (Place(o) = at /\ k < ctl))}

\* Main is among the controllers of a device, which is Item.
AtDevice == phase = "controllers" /\ at =< Len(IoOrder) /\ Item \in Devices

\* The variable driverName has the driver of the device, or that of a controller
\* of the device that named one before.
NameInv == AtDevice =>
    /\ ctl =< Len(config.controllers[Item]) + 1
    /\ \/ driverName \in {NoDriver, config.driverOf[Item]}
       \/ \E j \in DOMAIN config.controllers[Item] :
             j < ctl /\ config.controllers[Item][j].driver # NoDriver

\* The button whose map is being written is the one the controller names.
MappedInv == phase = "controllers" /\ mapped # Nobody =>
    mapped \in Found(Buttons, Controller.pin, ResolvedName)

\* Main has found every input so far, in a configuration that can be wired.
AllFound == "controllers" \notin unmatched /\ NamesComeLast /\ PinsDiffer

SliceInv == \A o \in Devices, s \in Switches :
    Times(o, switchSlice[s]) = Cardinality(Naming(o, s, PushEvents) \cap Passed(o))

ToggleInv == \A o \in Devices, b \in Buttons, e \in PushEvents :
    Times(o, toggleMap[b][e]) = Cardinality(Naming(o, b, {e}) \cap Passed(o))

WiringInv == NameInv /\ MappedInv /\
    (phase \in Starting \cup Wiring /\ AllFound => SliceInv /\ ToggleInv)

-----------------------------------------------------------------------------

\* Every IO has one place in the order.
LEMMA PlaceFacts ==
    /\ \A n \in DOMAIN IoOrder : Place(IoOrder[n]) = n
    /\ \A i \in Ios : Place(i) \in DOMAIN IoOrder /\ IoOrder[Place(i)] = i
<1>1. \A i, j \in DOMAIN IoOrder : IoOrder[i] = IoOrder[j] => i = j
    BY OrderAssumption
<1>2. ASSUME NEW i \in Ios PROVE Place(i) \in DOMAIN IoOrder /\ IoOrder[Place(i)] = i
    BY OrderFacts DEF Place
<1>3. ASSUME NEW n \in DOMAIN IoOrder PROVE Place(IoOrder[n]) = n
    BY <1>1, <1>2, OrderFacts
<1> QED
    BY <1>2, <1>3

\* A device that is appended to a list is in it once more.
LEMMA TimesAppend ==
    ASSUME NEW s \in Seq(Devices), NEW d \in Devices, NEW o \in Devices
    PROVE  /\ Times(o, s) \in Nat
           /\ Times(o, Append(s, d)) = IF o = d THEN Times(o, s) + 1 ELSE Times(o, s)
<1> DEFINE S == {n \in DOMAIN s : s[n] = o}
           T == {n \in DOMAIN Append(s, d) : Append(s, d)[n] = o}
<1>1. Len(s) \in Nat /\ DOMAIN s = 1..Len(s)
    BY LenProperties
<1>2. /\ Append(s, d) \in Seq(Devices) /\ Len(Append(s, d)) = Len(s) + 1
      /\ \A n \in 1..Len(s) : Append(s, d)[n] = s[n]
      /\ Append(s, d)[Len(s) + 1] = d
    BY AppendProperties
<1>3. DOMAIN Append(s, d) = 1..Len(s) + 1
    BY <1>2, LenProperties
<1>4. IsFiniteSet(S)
  <2>1. IsFiniteSet(1..Len(s)) /\ S \subseteq 1..Len(s)
    BY <1>1, FS_Interval
  <2> QED
    BY <2>1, FS_Subset
<1>5. Cardinality(S) \in Nat
    BY <1>4, FS_CardinalityType
<1>6. Len(s) + 1 \notin S
    BY <1>1
<1>7. CASE o = d
  <2>1. T = S \cup {Len(s) + 1}
    BY <1>1, <1>2, <1>3, <1>7
  <2>2. Cardinality(T) = Cardinality(S) + 1
    BY <1>4, <1>6, <2>1, FS_AddElement
  <2> QED
    BY <1>5, <1>7, <2>2 DEF Times
<1>8. CASE o # d
  <2>1. T = S
    BY <1>1, <1>2, <1>3, <1>8
  <2> QED
    BY <1>5, <1>8, <2>1 DEF Times
<1> QED
    BY <1>7, <1>8

\* One more controller is passed: it counts for the inputs it names.
LEMMA CountOneMore ==
    ASSUME NEW K, NEW W, NEW k, IsFiniteSet(K), k \notin W
    PROVE  /\ Cardinality(K \cap W) \in Nat
           /\ Cardinality(K \cap (W \cup {k}))
                = IF k \in K THEN Cardinality(K \cap W) + 1 ELSE Cardinality(K \cap W)
<1>1. IsFiniteSet(K \cap W)
    BY FS_Subset
<1>2. Cardinality(K \cap W) \in Nat
    BY <1>1, FS_CardinalityType
<1>3. CASE k \in K
  <2>1. K \cap (W \cup {k}) = (K \cap W) \cup {k} /\ k \notin K \cap W
    BY <1>3
  <2> QED
    BY <1>1, <1>2, <1>3, <2>1, FS_AddElement
<1>4. CASE k \notin K
  <2>1. K \cap (W \cup {k}) = K \cap W
    BY <1>4
  <2> QED
    BY <1>2, <1>4, <2>1
<1> QED
    BY <1>3, <1>4

\* The controllers of a device, and what each of them names.
LEMMA ControllerFacts ==
    ASSUME config \in Configs, NEW o \in Devices
    PROVE  /\ Len(config.controllers[o]) \in Nat
           /\ DOMAIN config.controllers[o] = 1..Len(config.controllers[o])
           /\ \A k \in DOMAIN config.controllers[o] :
                 config.controllers[o][k] \in ControllerTypes
           /\ \A i, E : IsFiniteSet(Naming(o, i, E))
<1>1. config.controllers[o] \in Seq(ControllerTypes)
    BY ConfigFacts
<1>2. /\ Len(config.controllers[o]) \in Nat
      /\ DOMAIN config.controllers[o] = 1..Len(config.controllers[o])
      /\ \A k \in DOMAIN config.controllers[o] :
            config.controllers[o][k] \in ControllerTypes
    BY <1>1, LenProperties, ElementOfSeq
<1>3. IsFiniteSet(DOMAIN config.controllers[o])
    BY <1>2, FS_Interval
<1>4. ASSUME NEW i, NEW E PROVE IsFiniteSet(Naming(o, i, E))
    BY <1>3, FS_Subset DEF Naming
<1> QED
    BY <1>2, <1>4

\* findSwitch and findButton, when no two inputs have the same pin and driver:
\* there is no first among several.
LEMMA FoundFacts ==
    ASSUME config \in Configs, PinsDiffer, NEW S \in SUBSET Inputs, NEW pin, NEW driver
    PROVE  /\ Found(S, pin, driver)
                 = {i \in S : config.inPin[i] = pin /\ config.driverOf[i] = driver}
           /\ \A i, j \in Inputs :
                 /\ config.inPin[i] = pin /\ config.driverOf[i] = driver
                 /\ config.inPin[j] = pin /\ config.driverOf[j] = driver
                 => i = j
<1>1. \A i, j \in Inputs :
         /\ config.inPin[i] = pin /\ config.driverOf[i] = driver
         /\ config.inPin[j] = pin /\ config.driverOf[j] = driver
         => i = j
    BY DEF PinsDiffer
<1>2. \A i \in S : Place(i) \in Nat
    BY PlaceFacts, OrderFacts DEF Ios
<1>3. \A i \in S : Place(i) =< Place(i)
    BY <1>2
<1> QED
    BY <1>1, <1>3 DEF Found

\* The loop over the controllers looks for the driver the configuration means.
LEMMA ResolvedMeans ==
    ASSUME Inv, NameInv, NamesComeLast, AtDevice, ctl =< Len(config.controllers[Item])
    PROVE  /\ ctl \in DOMAIN config.controllers[Item]
           /\ ResolvedName = IF Controller.driver = NoDriver THEN config.driverOf[Item]
                             ELSE Controller.driver
<1>1. config \in Configs /\ ctl \in Nat \ {0} /\ Item \in Devices
    BY DEF Inv, Places, Kinds, AtDevice
<1>2. ctl \in DOMAIN config.controllers[Item] /\ ctl \in Nat
    BY <1>1, ControllerFacts
<1>3. ASSUME Controller.driver = NoDriver
      PROVE  driverName \in {NoDriver, config.driverOf[Item]}
  <2> SUFFICES ASSUME NEW j \in DOMAIN config.controllers[Item],
                      j < ctl, config.controllers[Item][j].driver # NoDriver
               PROVE  FALSE
    BY DEF NameInv
  <2>1. config.controllers[Item][ctl].driver # NoDriver
    BY <1>1, <1>2 DEF NamesComeLast
  <2> QED
    BY <1>3, <2>1 DEF Controller
<1> QED
    BY <1>2, <1>3 DEF ResolvedName

\* Which steps are not MatchController, MapWritten or DeviceMatched, and where
\* they take main.
LEMMA OtherSteps ==
    ASSUME Inv, [Next]_vars, ~MatchController, ~MapWritten, ~DeviceMatched
    PROVE  /\ UNCHANGED <<config, wiring>> /\ unmatched \subseteq unmatched'
           /\ \/ UNCHANGED <<phase, at, ctl, driverName>>
              \/ phase' \notin Starting \cup Wiring
              \/ phase \in Starting /\ phase' \in Starting
              \/ /\ phase = "sensors" /\ phase' = "controllers"
                 /\ at' = 1 /\ ctl' = 1 /\ driverName' = NoDriver
              \/ phase = "controllers" /\ at > Len(IoOrder) /\ phase' = "thermostats"
              \/ phase \in {"thermostats", "running"} /\ phase' \in {"thermostats", "running"}
<1> USE DEF loop, wiring, pushes
<1>1. CASE \E d \in IoDriverNames \cup SensorDriverNames : SetUp(d) \/ CloseDriver(d)
    BY <1>1 DEF SetUp, CloseDriver, Panic, Starting, Wiring
<1>2. CASE AllSetUp \/ LoopEnds \/ InitSensors
    BY <1>2 DEF AllSetUp, LoopEnds, InitSensors, NextLoop, Order, Panic, Starting, Wiring
<1>3. CASE InitIo
    BY <1>3 DEF InitIo, NextRound, InitIoFailed, Panic, Starting, Wiring
<1>4. CASE MatchSensor
    BY <1>4 DEF MatchSensor, NextRound, NextLoop, Order
<1>5. CASE Exit \/ Stop
    BY <1>5 DEF Exit, Stop, Starting, Wiring
<1>6. CASE \E b \in Buttons : FireEvent(b)
    BY <1>6 DEF FireEvent, ShowEvent, LookUp, Toggle, Goto, Dies, Starting, Wiring
<1>7. CASE \E b \in Buttons, e \in PushEvents : Push(b, e)
    BY <1>7 DEF Push
<1>8. CASE UNCHANGED vars
    BY <1>8 DEF vars
<1> QED
    BY <1>1, <1>2, <1>3, <1>4, <1>5, <1>6, <1>7, <1>8 DEF Next, Main

\* The controller main is at names the inputs it is looked for among.
LEMMA ControllerNames ==
    ASSUME Inv, NameInv, NamesComeLast, AtDevice, ctl =< Len(config.controllers[Item])
    PROVE  /\ Controller.event \in PushEvents
           /\ \A i \in Inputs : \A E :
                 ctl \in Naming(Item, i, E) <=>
                     /\ Controller.event \in E /\ config.inPin[i] = Controller.pin
                     /\ config.driverOf[i] = ResolvedName
<1>1. ctl \in DOMAIN config.controllers[Item] /\ config \in Configs /\ Item \in Devices
    BY ResolvedMeans DEF Inv, Places, AtDevice
<1>2. Controller \in ControllerTypes
    BY <1>1, ControllerFacts DEF Controller
<1>3. ResolvedName = IF Controller.driver = NoDriver THEN config.driverOf[Item]
                     ELSE Controller.driver
    BY ResolvedMeans
<1> QED
    BY <1>1, <1>2, <1>3 DEF Naming, Controller, ControllerTypes

\* When main goes on to the next controller it has passed this one.
LEMMA PassedOneMore ==
    ASSUME Inv, AtDevice, ctl =< Len(config.controllers[Item]), NextController,
           UNCHANGED config
    PROVE  /\ ctl \notin Passed(Item)
           /\ \A o \in Devices :
                 Passed(o)' = IF o = Item THEN Passed(o) \cup {ctl} ELSE Passed(o)
<1>1. /\ config \in Configs /\ ctl \in Nat \ {0} /\ at \in DOMAIN IoOrder
      /\ phase = "controllers" /\ Item \in Devices
    BY OrderFacts DEF Inv, Places, Kinds, AtDevice
<1>2. Place(Item) = at /\ at \in Nat
    BY <1>1, PlaceFacts, OrderFacts DEF Item
<1>3. \A o \in Devices \ {Item} : Place(o) # at
    BY PlaceFacts DEF Item, Ios
<1>4. /\ DOMAIN config.controllers[Item] = 1..Len(config.controllers[Item])
      /\ Len(config.controllers[Item]) \in Nat
    BY <1>1, ControllerFacts
<1>5. phase' = phase /\ at' = at /\ ctl' = ctl + 1
    BY DEF NextController
<1>6. \A o : Passed(o)' =
         {k \in DOMAIN config.controllers[o] :
             Place(o) < at \/ (Place(o) = at /\ k < ctl + 1)}
    BY <1>1, <1>5 DEF Passed, Place
<1>7. \A o : Passed(o) =
         {k \in DOMAIN config.controllers[o] :
             Place(o) < at \/ (Place(o) = at /\ k < ctl)}
    BY <1>1 DEF Passed
<1>8. \A k \in 1..Len(config.controllers[Item]) : k < ctl + 1 <=> k < ctl \/ k = ctl
    BY <1>1, <1>4
<1>9. ctl \in 1..Len(config.controllers[Item]) /\ ~(ctl < ctl)
    BY <1>1, <1>4
<1>10. ~(at < at)
    BY <1>2
<1>11. ctl \notin Passed(Item)
    BY <1>2, <1>7, <1>9, <1>10
<1>12. ASSUME NEW o \in Devices, o = Item PROVE Passed(o)' = Passed(o) \cup {ctl}
    BY <1>2, <1>4, <1>6, <1>7, <1>8, <1>9, <1>10, <1>12
<1>13. ASSUME NEW o \in Devices, o # Item PROVE Passed(o)' = Passed(o)
    BY <1>3, <1>6, <1>7, <1>13
<1> QED
    BY <1>11, <1>12, <1>13

\* A step that wires nothing and passes no controller.
LEMMA QuietStep ==
    ASSUME WiringInv, UNCHANGED <<config, wiring>>, unmatched \subseteq unmatched',
           NameInv', MappedInv',
           phase' \in Starting \cup Wiring =>
               /\ phase \in Starting \cup Wiring
               /\ \A o \in Devices : Passed(o)' = Passed(o)
    PROVE  WiringInv'
<1> SUFFICES ASSUME phase' \in Starting \cup Wiring, AllFound'
             PROVE  SliceInv' /\ ToggleInv'
    BY DEF WiringInv
<1>1. AllFound
    BY DEF AllFound, NamesComeLast, PinsDiffer
<1>2. SliceInv /\ ToggleInv
    BY <1>1 DEF WiringInv
<1>3. \A o, i, E : Naming(o, i, E)' = Naming(o, i, E)
    BY DEF Naming
<1> QED
    BY <1>2, <1>3 DEF SliceInv, ToggleInv, Times, wiring

\* MatchControllers goes on to the next controller or device: which driver the
\* variable driverName has then.
LEMMA NameStep ==
    ASSUME Inv, NameInv, AtDevice, ctl =< Len(config.controllers[Item]), NextController,
           UNCHANGED config
    PROVE  NameInv'
<1>1. config \in Configs /\ ctl \in Nat \ {0} /\ Item \in Devices
    BY DEF Inv, Places, Kinds, AtDevice
<1>2. /\ DOMAIN config.controllers[Item] = 1..Len(config.controllers[Item])
      /\ Len(config.controllers[Item]) \in Nat
    BY <1>1, ControllerFacts
<1>3. Item' = Item /\ ctl' = ctl + 1 /\ driverName' = ResolvedName
    BY DEF NextController, Item
<1>4. \/ ResolvedName \in {NoDriver, config.driverOf[Item]}
      \/ \E j \in DOMAIN config.controllers[Item] :
            j < ctl + 1 /\ config.controllers[Item][j].driver # NoDriver
  <2>1. CASE Controller.driver # NoDriver
    <3>1. ctl \in DOMAIN config.controllers[Item] /\ ctl < ctl + 1
      BY <1>1, <1>2
    <3> QED
      BY <2>1, <3>1 DEF Controller
  <2>2. CASE Controller.driver = NoDriver /\ driverName \in {NoDriver, config.driverOf[Item]}
    BY <2>2 DEF ResolvedName
  <2>3. ASSUME NEW j \in DOMAIN config.controllers[Item],
               j < ctl, config.controllers[Item][j].driver # NoDriver
        PROVE  <1>4
    <3>1. j < ctl + 1
      BY <1>1, <1>2, <2>3
    <3> QED
      BY <2>3, <3>1
  <2> QED
    BY <2>1, <2>2, <2>3 DEF NameInv
<1>5. ctl + 1 =< Len(config.controllers[Item]) + 1
    BY <1>1, <1>2
<1> QED
    BY <1>3, <1>4, <1>5 DEF NameInv

LEMMA MatchStep == Inv /\ WiringInv /\ MatchController => WiringInv'
<1> SUFFICES ASSUME Inv, WiringInv, MatchController PROVE WiringInv'
    OBVIOUS
<1> DEFINE swb == Found(Switches, Controller.pin, ResolvedName)
           but == Found(Buttons, Controller.pin, ResolvedName)
<1>1. /\ AtDevice /\ ctl =< Len(config.controllers[Item]) /\ mapped = Nobody
      /\ phase = "controllers" /\ UNCHANGED <<config, toggleMap>>
      /\ config \in Configs /\ NameInv
      /\ toggleMap \in [Buttons -> [PushEvents -> Seq(Devices)]]
      /\ switchSlice \in [Switches -> Seq(Devices)]
    BY DEF MatchController, AtDevice, Inv, Wires, Places, Kinds, WiringInv, wiring
<1>2. Nobody \notin Buttons
    BY KindsAssumption DEF Ios, Inputs
<1>3. CASE ResolvedName \notin UsedDrivers \/ swb \cup but = {}
  <2>1. "controllers" \in unmatched' /\ phase' = "thermostats"
    BY <1>1, <1>3 DEF MatchController, NextLoop, Order
  <2> QED
    BY <2>1 DEF WiringInv, NameInv, MappedInv, AtDevice, AllFound
<1>4. CASE ResolvedName \in UsedDrivers /\ but # {}
  <2>1. /\ UNCHANGED <<phase, at, ctl, driverName, unmatched>> /\ mapped' \in but
        /\ switchSlice' = [s \in Switches |->
               IF s \in swb THEN Append(switchSlice[s], Item) ELSE switchSlice[s]]
    BY <1>4 DEF MatchController, loop
  <2>2. NameInv'
    BY <1>1, <2>1 DEF NameInv, AtDevice, Item
  <2>3. MappedInv'
    BY <1>1, <2>1 DEF MappedInv, Found, Controller, ResolvedName, Item, Place
  <2>4. ASSUME AllFound' PROVE SliceInv' /\ ToggleInv'
    <3>1. AllFound /\ PinsDiffer
      BY <1>1, <2>1, <2>4 DEF AllFound, NamesComeLast, PinsDiffer
    <3>2. SliceInv /\ ToggleInv
      BY <1>1, <3>1 DEF WiringInv, Wiring
    <3>3. swb = {}
      BY <1>1, <1>4, <3>1, FoundFacts, KindsAssumption DEF Inputs
    <3>4. switchSlice' = switchSlice
      BY <1>1, <2>1, <3>3
    <3>5. \A o, i, E : Naming(o, i, E)' = Naming(o, i, E)
      BY <1>1 DEF Naming
    <3>6. \A o : Passed(o)' = Passed(o)
      BY <1>1, <2>1 DEF Passed, Place
    <3> QED
      BY <1>1, <3>2, <3>4, <3>5, <3>6 DEF SliceInv, ToggleInv
  <2> QED
    BY <2>2, <2>3, <2>4 DEF WiringInv
<1>5. CASE ResolvedName \in UsedDrivers /\ but = {} /\ swb # {}
  <2>1. /\ NextController /\ UNCHANGED <<mapped, unmatched>>
        /\ switchSlice' = [s \in Switches |->
               IF s \in swb THEN Append(switchSlice[s], Item) ELSE switchSlice[s]]
    BY <1>5 DEF MatchController
  <2>2. NameInv'
    BY <1>1, <2>1, NameStep
  <2>3. MappedInv'
    BY <1>1, <2>1 DEF MappedInv
  <2>4. ASSUME AllFound' PROVE SliceInv' /\ ToggleInv'
    <3>1. AllFound /\ PinsDiffer /\ NamesComeLast
      BY <1>1, <2>1, <2>4 DEF AllFound, NamesComeLast, PinsDiffer
    <3>2. SliceInv /\ ToggleInv
      BY <1>1, <3>1 DEF WiringInv, Wiring
    <3>3. \A o, i, E : Naming(o, i, E)' = Naming(o, i, E)
      BY <1>1 DEF Naming
    <3>4. /\ Item \in Devices /\ ctl \notin Passed(Item)
          /\ \A o \in Devices :
                Passed(o)' = IF o = Item THEN Passed(o) \cup {ctl} ELSE Passed(o)
      BY <1>1, <2>1, PassedOneMore DEF AtDevice
    <3>5. /\ Controller.event \in PushEvents
          /\ \A i \in Inputs : \A E :
                ctl \in Naming(Item, i, E) <=>
                    /\ Controller.event \in E /\ config.inPin[i] = Controller.pin
                    /\ config.driverOf[i] = ResolvedName
      BY <1>1, <3>1, ControllerNames
    <3>6. SliceInv'
      <4> SUFFICES ASSUME NEW o \in Devices, NEW s \in Switches
                   PROVE  Times(o, switchSlice'[s])
                            = Cardinality(Naming(o, s, PushEvents) \cap Passed(o)')
        BY <3>3 DEF SliceInv
      <4>1. Times(o, switchSlice[s]) = Cardinality(Naming(o, s, PushEvents) \cap Passed(o))
        BY <3>2 DEF SliceInv
      <4>2. s \in swb <=> ctl \in Naming(Item, s, PushEvents)
        BY <1>1, <3>1, <3>5, FoundFacts DEF Inputs
      <4>3. switchSlice[s] \in Seq(Devices)
        BY <1>1
      <4>4. IsFiniteSet(Naming(o, s, PushEvents))
        BY <1>1, ControllerFacts
      <4>5. CASE o # Item
        BY <2>1, <3>4, <4>1, <4>3, <4>5, TimesAppend
      <4>6. CASE o = Item
        <5>1. Cardinality(Naming(o, s, PushEvents) \cap (Passed(o) \cup {ctl}))
                = IF ctl \in Naming(o, s, PushEvents)
                  THEN Cardinality(Naming(o, s, PushEvents) \cap Passed(o)) + 1
                  ELSE Cardinality(Naming(o, s, PushEvents) \cap Passed(o))
          BY <3>4, <4>4, <4>6, CountOneMore
        <5>2. Times(o, Append(switchSlice[s], Item)) = Times(o, switchSlice[s]) + 1
          BY <3>4, <4>3, <4>6, TimesAppend
        <5>3. switchSlice'[s] = IF s \in swb THEN Append(switchSlice[s], Item)
                                ELSE switchSlice[s]
          BY <2>1
        <5>4. Times(o, switchSlice'[s]) = IF s \in swb THEN Times(o, switchSlice[s]) + 1
                                          ELSE Times(o, switchSlice[s])
          BY <5>2, <5>3
        <5> QED
          BY <3>4, <4>1, <4>2, <4>6, <5>1, <5>4
      <4> QED
        BY <4>5, <4>6
    <3>7. ToggleInv'
      <4> SUFFICES ASSUME NEW o \in Devices, NEW b \in Buttons, NEW e \in PushEvents
                   PROVE  Cardinality(Naming(o, b, {e}) \cap Passed(o)')
                            = Cardinality(Naming(o, b, {e}) \cap Passed(o))
        BY <1>1, <3>2, <3>3 DEF ToggleInv
      <4>1. but = {i \in Buttons : /\ config.inPin[i] = Controller.pin
                                  /\ config.driverOf[i] = ResolvedName}
        BY <1>1, <3>1, FoundFacts DEF Inputs
      <4>2. ctl \notin Naming(Item, b, {e})
        BY <1>5, <3>5, <4>1 DEF Inputs
      <4>3. Naming(o, b, {e}) \cap Passed(o)' = Naming(o, b, {e}) \cap Passed(o)
        BY <3>4, <4>2
      <4> QED
        BY <4>3
    <3> QED
      BY <3>6, <3>7
  <2> QED
    BY <2>2, <2>3, <2>4 DEF WiringInv
<1> QED
    BY <1>3, <1>4, <1>5

LEMMA MapStep == Inv /\ WiringInv /\ MapWritten => WiringInv'
<1> SUFFICES ASSUME Inv, WiringInv, MapWritten PROVE WiringInv'
    OBVIOUS
<1>1. /\ AtDevice /\ ctl =< Len(config.controllers[Item])
      /\ phase = "controllers" /\ phase' = "controllers" /\ NextController /\ mapped' = Nobody
      /\ UNCHANGED <<config, switchSlice, unmatched>>
      /\ config \in Configs /\ NameInv /\ mapped \in Buttons
      /\ toggleMap \in [Buttons -> [PushEvents -> Seq(Devices)]]
    BY DEF MapWritten, NextController, AtDevice, Inv, MapInv, Wires, Places, WiringInv
<1>2. NameInv'
    BY <1>1, NameStep
<1>3. MappedInv'
    BY <1>1 DEF MappedInv
<1>4. ASSUME AllFound' PROVE SliceInv' /\ ToggleInv'
  <2>1. AllFound /\ PinsDiffer /\ NamesComeLast
    BY <1>1, <1>4 DEF AllFound, NamesComeLast, PinsDiffer
  <2>2. SliceInv /\ ToggleInv
    BY <1>1, <2>1 DEF WiringInv, Wiring
  <2>3. \A o, i, E : Naming(o, i, E)' = Naming(o, i, E)
    BY <1>1 DEF Naming
  <2>4. /\ Item \in Devices /\ ctl \notin Passed(Item)
        /\ \A o \in Devices :
              Passed(o)' = IF o = Item THEN Passed(o) \cup {ctl} ELSE Passed(o)
    BY <1>1, PassedOneMore DEF AtDevice
  <2>5. /\ Controller.event \in PushEvents
        /\ \A i \in Inputs : \A E :
              ctl \in Naming(Item, i, E) <=>
                  /\ Controller.event \in E /\ config.inPin[i] = Controller.pin
                  /\ config.driverOf[i] = ResolvedName
    BY <1>1, <2>1, ControllerNames
  <2>6. /\ config.inPin[mapped] = Controller.pin /\ config.driverOf[mapped] = ResolvedName
        /\ \A i \in Inputs : /\ config.inPin[i] = Controller.pin
                            /\ config.driverOf[i] = ResolvedName
                            => i = mapped
    <3>1. /\ mapped \in Found(Buttons, Controller.pin, ResolvedName)
          /\ Buttons \subseteq Inputs
      BY <1>1, KindsAssumption DEF WiringInv, MappedInv, Ios, Inputs
    <3> QED
      BY <1>1, <2>1, <3>1, FoundFacts
  <2>7. SliceInv'
    <3> SUFFICES ASSUME NEW o \in Devices, NEW s \in Switches
                 PROVE  Naming(o, s, PushEvents) \cap Passed(o)'
                          = Naming(o, s, PushEvents) \cap Passed(o)
      BY <1>1, <2>2, <2>3 DEF SliceInv
    <3>1. ctl \notin Naming(Item, s, PushEvents)
      BY <1>1, <2>5, <2>6, KindsAssumption DEF Inputs
    <3> QED
      BY <2>4, <3>1
  <2>8. ToggleInv'
    <3> SUFFICES ASSUME NEW o \in Devices, NEW b \in Buttons, NEW e \in PushEvents
                 PROVE  Times(o, toggleMap'[b][e])
                          = Cardinality(Naming(o, b, {e}) \cap Passed(o)')
      BY <2>3 DEF ToggleInv
    <3>1. Times(o, toggleMap[b][e]) = Cardinality(Naming(o, b, {e}) \cap Passed(o))
      BY <2>2 DEF ToggleInv
    <3>2. ctl \in Naming(Item, b, {e}) <=> b = mapped /\ e = Controller.event
      BY <2>5, <2>6 DEF Inputs
    <3>3. toggleMap'[b][e] = IF b = mapped /\ e = Controller.event
                             THEN Append(toggleMap[b][e], Item) ELSE toggleMap[b][e]
      BY <1>1, <2>5 DEF MapWritten
    <3>4. toggleMap[b][e] \in Seq(Devices)
      BY <1>1
    <3>5. IsFiniteSet(Naming(o, b, {e}))
      BY <1>1, ControllerFacts
    <3>6. CASE o # Item
      <4>1. Times(o, Append(toggleMap[b][e], Item)) = Times(o, toggleMap[b][e])
        BY <2>4, <3>4, <3>6, TimesAppend
      <4> QED
        BY <2>4, <3>1, <3>3, <3>6, <4>1
    <3>7. CASE o = Item
      <4> DEFINE K == Naming(o, b, {e})
      <4>a. IsFiniteSet(K) /\ ctl \notin Passed(o)
        BY <2>4, <3>5, <3>7
      <4> HIDE DEF K
      <4>1. Cardinality(K \cap (Passed(o) \cup {ctl}))
              = IF ctl \in K THEN Cardinality(K \cap Passed(o)) + 1
                ELSE Cardinality(K \cap Passed(o))
        BY <4>a, CountOneMore
      <4> USE DEF K
      <4>2. Times(o, Append(toggleMap[b][e], Item)) = Times(o, toggleMap[b][e]) + 1
        BY <2>4, <3>4, <3>7, TimesAppend
      <4> QED
        BY <2>4, <3>1, <3>2, <3>3, <3>7, <4>1, <4>2
    <3> QED
      BY <3>6, <3>7
  <2> QED
    BY <2>7, <2>8
<1> QED
    BY <1>2, <1>3, <1>4 DEF WiringInv

\* A device that is matched has no controller that main has not passed.
LEMMA DeviceStep == Inv /\ WiringInv /\ DeviceMatched => WiringInv'
<1> SUFFICES ASSUME Inv, WiringInv, DeviceMatched PROVE WiringInv'
    OBVIOUS
<1>1. /\ phase = "controllers" /\ phase' = "controllers" /\ mapped = Nobody
      /\ at \in 1..Len(IoOrder)
      /\ Item \in Devices => ctl > Len(config.controllers[Item])
      /\ at' = at + 1 /\ ctl' = 1 /\ driverName' = NoDriver
      /\ UNCHANGED <<config, wiring, unmatched>> /\ config \in Configs
      /\ ctl \in Nat \ {0}
    BY OrderFacts DEF DeviceMatched, NextRound, Inv, Places, Kinds
<1>2. NameInv'
  <2> SUFFICES ASSUME AtDevice' PROVE Len(config.controllers[Item])' \in Nat
    BY <1>1 DEF NameInv
  <2>1. Item' \in Devices
    BY DEF AtDevice
  <2> QED
    BY <1>1, <2>1, ControllerFacts
<1>3. MappedInv'
    BY <1>1 DEF MappedInv, wiring
<1>4. ASSUME NEW o \in Devices PROVE Passed(o)' = Passed(o)
  <2>1. Place(o) \in Nat /\ IoOrder[Place(o)] = o /\ at \in Nat
    BY <1>1, PlaceFacts, OrderFacts DEF Ios
  <2>2. /\ DOMAIN config.controllers[o] = 1..Len(config.controllers[o])
        /\ Len(config.controllers[o]) \in Nat
    BY <1>1, ControllerFacts
  <2>3. Passed(o) = {k \in 1..Len(config.controllers[o]) :
                        Place(o) < at \/ (Place(o) = at /\ k < ctl)}
    BY <1>1, <2>2 DEF Passed
  <2>4. Passed(o)' = {k \in 1..Len(config.controllers[o]) :
                         Place(o) < at + 1 \/ (Place(o) = at + 1 /\ k < 1)}
    BY <1>1, <2>2 DEF Passed, Place
  <2>5. Place(o) = at => ctl > Len(config.controllers[o])
    BY <1>1, <2>1 DEF Item
  <2>6. \A k \in 1..Len(config.controllers[o]) :
           Place(o) < at \/ (Place(o) = at /\ k < ctl)
             <=> Place(o) < at + 1 \/ (Place(o) = at + 1 /\ k < 1)
    BY <1>1, <2>1, <2>2, <2>5
  <2> QED
    BY <2>3, <2>4, <2>6
<1> QED
    BY <1>1, <1>2, <1>3, <1>4, QuietStep DEF Wiring

LEMMA WiringStep == Inv /\ WiringInv /\ [Next]_vars => WiringInv'
<1> SUFFICES ASSUME Inv, WiringInv, [Next]_vars,
                    ~MatchController, ~MapWritten, ~DeviceMatched
             PROVE  WiringInv'
    BY MatchStep, MapStep, DeviceStep
<1>1. /\ UNCHANGED <<config, wiring>> /\ unmatched \subseteq unmatched'
      /\ config \in Configs /\ NameInv /\ MappedInv
      /\ at \in Nat \ {0} /\ ctl \in Nat \ {0}
    BY OtherSteps DEF Inv, Places, Kinds, WiringInv
<1> HIDE DEF wiring
<1>2. CASE UNCHANGED <<phase, at, ctl, driverName>>
  <2>1. NameInv'
    BY <1>1, <1>2 DEF NameInv, AtDevice, Item
  <2>2. MappedInv'
    BY <1>1, <1>2 DEF MappedInv, Found, Controller, ResolvedName, Item, Place, wiring
  <2>3. \A o \in Devices : Passed(o)' = Passed(o)
    BY <1>1, <1>2 DEF Passed, Place
  <2> QED
    BY <1>1, <1>2, <2>1, <2>2, <2>3, QuietStep
<1>3. CASE phase' \notin Starting \cup Wiring
  <2>1. NameInv' /\ MappedInv'
    BY <1>3 DEF NameInv, AtDevice, MappedInv, Wiring
  <2> QED
    BY <1>1, <1>3, <2>1, QuietStep
<1>4. CASE phase \in Starting /\ phase' \in Starting
  <2>1. NameInv' /\ MappedInv'
    BY <1>4 DEF NameInv, AtDevice, MappedInv, Starting
  <2>2. \A o \in Devices : Passed(o)' = Passed(o)
    BY <1>1, <1>4 DEF Passed, Starting
  <2> QED
    BY <1>1, <1>4, <2>1, <2>2, QuietStep
<1>5. CASE /\ phase = "sensors" /\ phase' = "controllers"
           /\ at' = 1 /\ ctl' = 1 /\ driverName' = NoDriver
  <2>1. mapped' = Nobody
    BY <1>1, <1>5 DEF Inv, MapInv, wiring
  <2>2. NameInv'
    <3> SUFFICES ASSUME AtDevice' PROVE Len(config.controllers[Item])' \in Nat
      BY <1>5 DEF NameInv
    <3>1. Item' \in Devices
      BY DEF AtDevice
    <3> QED
      BY <1>1, <3>1, ControllerFacts
  <2>3. MappedInv'
    BY <2>1 DEF MappedInv
  <2>4. ASSUME NEW o \in Devices PROVE Passed(o)' = Passed(o)
    <3>1. Place(o) \in Nat \ {0}
      BY PlaceFacts, OrderFacts DEF Ios
    <3>2. \A k \in DOMAIN config.controllers[o] : k \in Nat \ {0}
      BY <1>1, ControllerFacts
    <3>3. Passed(o)' = {k \in DOMAIN config.controllers[o] :
                           Place(o) < 1 \/ (Place(o) = 1 /\ k < 1)}
      BY <1>1, <1>5 DEF Passed, Place
    <3>4. Passed(o)' = {}
      BY <3>1, <3>2, <3>3
    <3>5. Passed(o) = {}
      BY <1>5 DEF Passed
    <3> QED
      BY <3>4, <3>5
  <2> QED
    BY <1>1, <1>5, <2>2, <2>3, <2>4, QuietStep DEF Starting
<1>6. CASE phase = "controllers" /\ at > Len(IoOrder) /\ phase' = "thermostats"
  <2>1. NameInv' /\ MappedInv'
    BY <1>6 DEF NameInv, AtDevice, MappedInv
  <2>2. \A o \in Devices : Place(o) < at
    BY <1>1, <1>6, PlaceFacts, OrderFacts DEF Ios
  <2>3. \A o \in Devices : Passed(o)' = Passed(o)
    BY <1>1, <1>6, <2>2 DEF Passed
  <2> QED
    BY <1>1, <1>6, <2>1, <2>3, QuietStep DEF Wiring
<1>7. CASE phase \in {"thermostats", "running"} /\ phase' \in {"thermostats", "running"}
  <2>1. NameInv' /\ MappedInv'
    BY <1>7 DEF NameInv, AtDevice, MappedInv
  <2>2. \A o \in Devices : Passed(o)' = Passed(o)
    BY <1>1, <1>7 DEF Passed
  <2> QED
    BY <1>1, <1>7, <2>1, <2>2, QuietStep DEF Wiring
<1> QED
    BY <1>2, <1>3, <1>4, <1>5, <1>6, <1>7, OtherSteps

LEMMA WiringInit == Init => WiringInv
<1> SUFFICES ASSUME Init PROVE WiringInv
    OBVIOUS
<1>1. /\ phase = "ioDrivers"
      /\ switchSlice = [s \in Switches |-> <<>>]
      /\ toggleMap = [b \in Buttons |-> [e \in PushEvents |-> <<>>]]
    BY DEF Init
<1>2. \A o : Passed(o) = {}
    BY <1>1 DEF Passed
<1>3. Cardinality({}) = 0
    BY FS_EmptySet
<1>4. \A o : Times(o, <<>>) = 0
  <2>1. \A o : {n \in DOMAIN <<>> : <<>>[n] = o} = {}
    OBVIOUS
  <2> QED
    BY <1>3, <2>1 DEF Times
<1>5. SliceInv
    BY <1>1, <1>2, <1>3, <1>4 DEF SliceInv
<1>6. ToggleInv
    BY <1>1, <1>2, <1>3, <1>4 DEF ToggleInv
<1> QED
    BY <1>1, <1>5, <1>6 DEF WiringInv, NameInv, AtDevice, MappedInv

\* Whatever the configuration, a start that reports nothing has wired every
\* switch and button as it says, if drivers are named last and pins differ.
THEOREM WiredAsConfiguredHolds == Spec => []WiredAsConfigured
<1>1. WiringInv => WiredAsConfigured
  <2> SUFFICES ASSUME WiringInv, phase \in {"thermostats", "running"}, AllFound,
                      NEW o \in Devices, NEW i, NEW E
               PROVE  Naming(o, i, E) \cap Passed(o) = Naming(o, i, E)
    BY DEF WiredAsConfigured, WiringInv, SliceInv, ToggleInv, AllFound, Wiring
  <2> QED
    BY DEF Passed, Naming
<1>2. Spec => []WiringInv
    BY WiringInit, WiringStep, InvAlways, PTL DEF Spec
<1> QED
    BY <1>1, <1>2, PTL

-----------------------------------------------------------------------------

LEMMA LessFacts ==
    ASSUME NEW a, NEW b, NEW c, NEW d, NEW e, NEW f,
           a < d \/ (a = d /\ b < e) \/ (a = d /\ b = e /\ c < f)
    PROVE  Less(<<a, b, c>>, <<d, e, f>>)
<1> DEFINE x == <<a, b, c>>
           y == <<d, e, f>>
<1> SUFFICES Less(x, y)
    OBVIOUS
<1>1. x[1] = a /\ x[2] = b /\ x[3] = c /\ y[1] = d /\ y[2] = e /\ y[3] = f
    OBVIOUS
<1> HIDE DEF x, y
<1>2. 1..0 = {} /\ 1..1 = {1} /\ 1..2 = {1, 2} /\ 1..3 = {1, 2, 3}
    OBVIOUS
<1>3. CASE a < d
    BY <1>1, <1>2, <1>3 DEF Less
<1>4. CASE a = d /\ b < e
    BY <1>1, <1>2, <1>4 DEF Less
<1>5. CASE a = d /\ b = e /\ c < f
    BY <1>1, <1>2, <1>5 DEF Less
<1> QED
    BY <1>3, <1>4, <1>5

\* There are finitely many drivers, and one that is done counts no more.
LEMMA DriversCount ==
    ASSUME Inv
    PROVE  /\ Cardinality(waiting) \in Nat /\ Cardinality(ready \ closed) \in Nat
           /\ \A d \in waiting : Cardinality(waiting \ {d}) < Cardinality(waiting)
           /\ \A d \in ready \ closed :
                 Cardinality(ready \ (closed \cup {d})) < Cardinality(ready \ closed)
<1>1. IsFiniteSet(IoDriverNames \cup SensorDriverNames)
  <2>1. IoDriverNames \cup SensorDriverNames =
           {"gpio", "mcpio", "grenton", "mock_driver", "remoteio_slave", "shelly",
            "wire", "influx_sensors"}
    BY DEF IoDriverNames, SensorDriverNames
  <2>2. IsFiniteSet({})
    BY FS_EmptySet
  <2>3. IsFiniteSet({} \cup {"gpio"} \cup {"mcpio"} \cup {"grenton"} \cup {"mock_driver"})
    BY <2>2, FS_AddElement
  <2>4. IsFiniteSet({} \cup {"gpio"} \cup {"mcpio"} \cup {"grenton"} \cup {"mock_driver"}
                    \cup {"remoteio_slave"} \cup {"shelly"} \cup {"wire"}
                    \cup {"influx_sensors"})
    BY <2>3, FS_AddElement
  <2> QED
    BY <2>1, <2>4
<1>2. IsFiniteSet(waiting) /\ IsFiniteSet(ready \ closed)
    BY <1>1, FS_Subset DEF Inv, Kinds
<1>3. Cardinality(waiting) \in Nat /\ Cardinality(ready \ closed) \in Nat
    BY <1>2, FS_CardinalityType
<1>4. ASSUME NEW d \in waiting PROVE Cardinality(waiting \ {d}) < Cardinality(waiting)
  <2>1. Cardinality(waiting \ {d}) = Cardinality(waiting) - 1
    BY <1>2, FS_RemoveElement
  <2> QED
    BY <1>3, <2>1
<1>5. ASSUME NEW d \in ready \ closed
      PROVE  Cardinality(ready \ (closed \cup {d})) < Cardinality(ready \ closed)
  <2>1. ready \ (closed \cup {d}) = (ready \ closed) \ {d}
    OBVIOUS
  <2>2. Cardinality((ready \ closed) \ {d}) = Cardinality(ready \ closed) - 1
    BY <1>2, FS_RemoveElement
  <2> QED
    BY <1>3, <2>1, <2>2
<1> QED
    BY <1>3, <1>4, <1>5

\* The measure is one of natural numbers, which cannot decrease for ever.
LEMMA WorkIsNatural == Inv /\ WiringInv => Work \in Nat \X Nat \X Nat
<1> SUFFICES ASSUME Inv, WiringInv PROVE Work \in Nat \X Nat \X Nat
    OBVIOUS
<1>1. LoopsLeft[phase] \in Nat
    BY DEF LoopsLeft, Inv, Places, Phases
<1>2. RoundsLeft \in Nat
    BY DriversCount, OrderFacts DEF RoundsLeft, Inv, Places, Kinds
<1>3. StepsLeft \in Nat
  <2>1. CASE AtDevice
    <3>1. /\ Len(config.controllers[Item]) \in Nat /\ ctl \in Nat
          /\ ctl =< Len(config.controllers[Item]) + 1
      BY <2>1, ControllerFacts DEF Inv, Places, Kinds, WiringInv, NameInv, AtDevice
    <3> QED
      BY <2>1, <3>1 DEF StepsLeft, AtDevice
  <2>2. CASE ~AtDevice
    BY <2>2 DEF StepsLeft, AtDevice
  <2> QED
    BY <2>1, <2>2
<1> QED
    BY <1>1, <1>2, <1>3 DEF Work

LEMMA LessWork ==
    ASSUME \/ LoopsLeft[phase'] < LoopsLeft[phase]
           \/ phase' = phase /\ RoundsLeft' < RoundsLeft
           \/ phase' = phase /\ RoundsLeft' = RoundsLeft /\ StepsLeft' < StepsLeft
    PROVE  Less(Work', Work)
<1>1. Work' = <<LoopsLeft[phase'], RoundsLeft', StepsLeft'>>
    BY DEF Work, LoopsLeft
<1> QED
    BY <1>1, LessFacts DEF Work

\* Main goes on to the next loop, or gives up.
LEMMA LoopWork ==
    ASSUME NEW p, p \in {"ioDrivers", "sensorDrivers", "ios", "sensors", "controllers",
                         "thermostats"}, p = phase,
           NextLoop(p) \/ Panic
    PROVE  Less(Work', Work)
<1>1. LoopsLeft[phase'] < LoopsLeft[phase]
    BY DEF NextLoop, Panic, Order, LoopsLeft
<1> QED
    BY <1>1, LessWork

\* Main goes on to the next round of its loop.
LEMMA RoundWork ==
    ASSUME Inv, phase \in {"ios", "controllers", "thermostats"}, NextRound
    PROVE  Less(Work', Work)
<1>1. at \in Nat /\ Len(IoOrder) \in Nat /\ phase' = phase /\ at' = at + 1
    BY OrderFacts DEF Inv, Places, NextRound
<1>2. RoundsLeft' = Len(IoOrder) + 1 - (at + 1) /\ RoundsLeft = Len(IoOrder) + 1 - at
    BY <1>1 DEF RoundsLeft
<1>3. RoundsLeft' < RoundsLeft
    BY <1>1, <1>2
<1> QED
    BY <1>1, <1>3, LessWork

LEMMA MainStep ==
    ASSUME Inv, WiringInv, Main
    PROVE  Less(Work', Work)
<1> USE DEF loop, wiring
<1>1. CASE \E d \in IoDriverNames \cup SensorDriverNames : SetUp(d)
  <2> SUFFICES ASSUME NEW d, SetUp(d) PROVE Less(Work', Work)
    BY <1>1
  <2>1. CASE Panic
    BY <2>1, LoopWork DEF SetUp
  <2>2. CASE waiting' = waiting \ {d} /\ UNCHANGED phase
    <3>1. RoundsLeft' = Cardinality(waiting \ {d}) /\ RoundsLeft = Cardinality(waiting)
      BY <2>2 DEF SetUp, RoundsLeft
    <3>2. RoundsLeft' < RoundsLeft
      BY <3>1, DriversCount DEF SetUp
    <3> QED
      BY <2>2, <3>2, LessWork
  <2> QED
    BY <2>1, <2>2 DEF SetUp
<1>2. CASE \E d \in IoDriverNames \cup SensorDriverNames : CloseDriver(d)
  <2> SUFFICES ASSUME NEW d, CloseDriver(d) PROVE Less(Work', Work)
    BY <1>2
  <2>1. phase = "closing" /\ d \in ready \ closed /\ closed' = closed \cup {d} /\ ready' = ready
    BY DEF CloseDriver
  <2>2. CASE phase' = "hung"
    <3>1. LoopsLeft[phase'] < LoopsLeft[phase]
      BY <2>1, <2>2 DEF LoopsLeft
    <3> QED
      BY <3>1, LessWork
  <2>3. CASE phase' = phase
    <3>1. /\ RoundsLeft' = Cardinality(ready \ (closed \cup {d}))
          /\ RoundsLeft = Cardinality(ready \ closed)
      BY <2>1, <2>3 DEF RoundsLeft
    <3>2. RoundsLeft' < RoundsLeft
      BY <2>1, <3>1, DriversCount
    <3> QED
      BY <2>3, <3>2, LessWork
  <2> QED
    BY <2>1, <2>2, <2>3 DEF CloseDriver
<1>3. CASE AllSetUp \/ LoopEnds \/ InitSensors
    BY <1>3, LoopWork DEF AllSetUp, LoopEnds, InitSensors
<1>4. CASE InitIo
  <2>1. phase = "ios" /\ at =< Len(IoOrder)
    BY <1>4 DEF InitIo
  <2>2. CASE NextRound
    BY <2>1, <2>2, RoundWork
  <2>3. CASE Panic
    BY <2>1, <2>3, LoopWork
  <2>4. CASE /\ Item \notin listening /\ listening' = listening \cup {Item}
             /\ UNCHANGED <<phase, loop>>
    <3>1. RoundsLeft' = RoundsLeft
      BY <2>1, <2>4 DEF RoundsLeft
    <3>2. StepsLeft' = 0 /\ StepsLeft = 1
      BY <2>1, <2>4 DEF StepsLeft, Item
    <3> QED
      BY <2>4, <3>1, <3>2, LessWork
  <2> QED
    BY <1>4, <2>2, <2>3, <2>4 DEF InitIo, InitIoFailed
<1>5. CASE MatchController \/ MapWritten
  <2>1. /\ AtDevice /\ ctl =< Len(config.controllers[Item]) /\ UNCHANGED config
    BY <1>5 DEF MatchController, MapWritten, AtDevice, Inv, MapInv
  <2>2. Len(config.controllers[Item]) \in Nat /\ ctl \in Nat
    BY <2>1, ControllerFacts DEF Inv, Places, Kinds, AtDevice
  <2>3. StepsLeft = 2 * (Len(config.controllers[Item]) + 1 - ctl)
                    + IF mapped = Nobody THEN 1 ELSE 0
    BY <2>1 DEF StepsLeft, AtDevice
  <2>4. CASE NextLoop("controllers")
    BY <2>1, <2>4, LoopWork DEF AtDevice
  <2>5. CASE NextController
    <3>1. phase' = phase /\ RoundsLeft' = RoundsLeft /\ ctl' = ctl + 1
      BY <2>1, <2>5 DEF NextController, RoundsLeft, AtDevice
    <3>2. StepsLeft' = 2 * (Len(config.controllers[Item]) + 1 - (ctl + 1))
                       + IF mapped' = Nobody THEN 1 ELSE 0
      BY <2>1, <2>5 DEF StepsLeft, AtDevice, NextController, Item
    <3>3. mapped' = Nobody
      BY <1>5, <2>5, <2>2 DEF MapWritten, MatchController, NextController
    <3>4. StepsLeft' = 2 * (Len(config.controllers[Item]) - ctl) + 1
      <4>1. Len(config.controllers[Item]) + 1 - (ctl + 1) = Len(config.controllers[Item]) - ctl
        <5>1. \A l, c \in Nat : l + 1 - (c + 1) = l - c
          OBVIOUS
        <5> QED
          BY <2>2, <5>1
      <4> QED
        BY <3>2, <3>3, <4>1
    <3>5. StepsLeft' < StepsLeft
      <4>1. CASE mapped = Nobody
        BY <2>2, <2>3, <3>4, <4>1
      <4>2. CASE mapped # Nobody
        BY <2>2, <2>3, <3>4, <4>2
      <4> QED
        BY <4>1, <4>2
    <3> QED
      BY <3>1, <3>5, LessWork
  <2>6. CASE mapped = Nobody /\ mapped' \in Buttons /\ UNCHANGED <<phase, loop>>
    <3>1. RoundsLeft' = RoundsLeft
      BY <2>1, <2>6 DEF RoundsLeft, AtDevice
    <3>2. mapped' # Nobody
      BY <2>6, KindsAssumption DEF Ios, Inputs
    <3>3. StepsLeft' = 2 * (Len(config.controllers[Item]) + 1 - ctl) + 0
      BY <2>1, <2>6, <3>2 DEF StepsLeft, AtDevice, Item
    <3>4. StepsLeft' < StepsLeft
      BY <2>2, <2>3, <2>6, <3>3
    <3> QED
      BY <2>6, <3>1, <3>4, LessWork
  <2> QED
    BY <1>5, <2>4, <2>5, <2>6 DEF MatchController, MapWritten, Found
<1>6. CASE DeviceMatched
    BY <1>6, RoundWork DEF DeviceMatched
<1>7. CASE MatchSensor
  <2>1. phase = "thermostats" /\ (NextRound \/ NextLoop("thermostats"))
    BY <1>7 DEF MatchSensor
  <2> QED
    BY <2>1, RoundWork, LoopWork
<1>8. CASE Exit
  <2>1. LoopsLeft[phase'] < LoopsLeft[phase]
    BY <1>8 DEF Exit, LoopsLeft
  <2> QED
    BY <2>1, LessWork
<1> QED
    BY <1>1, <1>2, <1>3, <1>4, <1>5, <1>6, <1>7, <1>8 DEF Main

\* What the start still has to do decreases with every step of main, for any
\* configuration.
THEOREM StartProgressesHolds == Spec => StartProgresses
<1>1. ASSUME Inv, WiringInv, [Next]_vars
      PROVE  [IF Main THEN Less(Work', Work)
              ELSE Work' = Work \/ phase' \in {"exited", "crashed"}]_vars
  <2> SUFFICES ASSUME Next, ~Main
               PROVE  Work' = Work \/ phase' \in {"exited", "crashed"}
    BY <1>1, MainStep
  <2>1. \/ phase' \in {"exited", "crashed"}
        \/ UNCHANGED <<config, phase, loop, ready, listening, mapped, closed>>
    BY DEF Next, FireEvent, Stop, Push, ShowEvent, LookUp, Toggle, Dies, Goto, wiring
  <2>2. UNCHANGED <<config, phase, loop, ready, listening, mapped, closed>> => Work' = Work
    BY DEF Work, RoundsLeft, StepsLeft, Item, loop
  <2> QED
    BY <2>1, <2>2
<1>2. Spec => []WiringInv
    BY WiringInit, WiringStep, InvAlways, PTL DEF Spec
<1> QED
    BY <1>1, <1>2, InvAlways, PTL DEF Spec, StartProgresses

=============================================================================

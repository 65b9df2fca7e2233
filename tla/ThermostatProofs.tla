-------------------------- MODULE ThermostatProofs --------------------------
(***************************************************************************)
(* Proofs about Thermostat for any number of HomeKit connections, any      *)
(* temperatures and thresholds, with and without cooling and HomeKit.      *)
(***************************************************************************)
EXTENDS Thermostat, TLAPS

-----------------------------------------------------------------------------
(* Type correctness and the lock.                                          *)

\* The argument of a callback is one of the kind it takes.
ArgsTyped ==
    \A g \in HkClients : /\ pc[g] = "storeState" => arg[g] \in Modes
                         /\ pc[g] = "storeTemperature" => arg[g] \in Targets

\* The ticker has no callback to run.
TickerSyncs == pc[Ticker] \notin {"storeState", "storeTemperature"}

\* Whoever is between Lock and Unlock is the holder, and conversely.
LockHeld == \A g \in Threads : pc[g] \in Locked <=> holder = g

\* Without a cooling output nothing is cooled.
NoCoolingOutput == ~CoolingEnabled => ~cool

\* A thermostat about to set its outputs has an order for each it has.
PlanWellFormed ==
    \A g \in Threads : pc[g] \in {"setHeat", "setCool"} =>
        /\ plan.heat # "keep"
        /\ CoolingEnabled <=> plan.cool # "keep"
        /\ pc[g] = "setCool" => CoolingEnabled

TypeInv == TypeOK /\ ArgsTyped /\ TickerSyncs /\ LockHeld /\ NoCoolingOutput
           /\ PlanWellFormed

\* What OrdersFor orders, whatever the conditions say.
LEMMA OrdersFacts ==
    ASSUME NEW m \in AllowedModes, NEW h \in BOOLEAN, NEW c \in BOOLEAN
    PROVE  LET o == OrdersFor(m, h, c)
           IN /\ o \in [heat : Orders, cool : Orders]
              /\ o = Keep => m = 3 /\ ~h /\ ~c
              /\ o # Keep => /\ o.heat # "keep"
                             /\ CoolingEnabled <=> o.cool # "keep"
                             /\ ~(o.heat = "on" /\ o.cool = "on")
                             /\ o.cool = "on" => c
                             /\ m = 0 => o.heat = "off" /\ o.cool # "on"
                             /\ m = 1 => o.cool # "on"
                             /\ m = 2 => o.heat = "off"
<1>1. m \in 0..3 /\ (m \in {2, 3} => CoolingEnabled)
  BY DEF AllowedModes, Modes
<1>2. CASE m = 0
  BY <1>2 DEF OrdersFor, OnOff, CoolOff, Keep, Orders
<1>3. CASE m = 1
  BY <1>3 DEF OrdersFor, OnOff, CoolOff, Keep, Orders
<1>4. CASE m = 2
  BY <1>1, <1>4 DEF OrdersFor, OnOff, CoolOff, Keep, Orders
<1>5. CASE m = 3
  BY <1>1, <1>5 DEF OrdersFor, OnOff, CoolOff, Keep, Orders
<1> QED BY <1>1, <1>2, <1>3, <1>4, <1>5

\* With a positive threshold, a cooling condition that holds was evaluated with
\* the output on.
LEMMA CoolingConditionFact ==
    ASSUME CurrentTemperature \in Int, NEW c \in BOOLEAN, CoolingThreshold > 0
    PROVE  CoolingCondition(c) <=> c
BY ThresholdsAssumption DEF CoolingCondition

LEMMA ThreadFacts ==
    /\ Ticker \in Threads /\ HkClients \subseteq Threads
    /\ Ticker \notin HkClients /\ NoOne \notin Threads
BY ThreadsAssumption DEF Threads

\* The end of Sync gives the lock back.
LEMMA ReleaseType ==
    ASSUME TypeInv, NEW g \in Threads, pc[g] \in Locked,
           NEW outcome \in {"ok", "failed"}, Release(g, outcome), UNCHANGED arg
    PROVE  /\ pc' \in [Threads -> Labels] /\ holder' \in Threads \cup {NoOne}
           /\ mode' \in AllowedModes /\ plan' \in [heat : Orders, cool : Orders]
           /\ shown' \in [target : Targets \cup {0}, state : Modes]
           /\ lastSync' \in {"none", "ok", "failed"}
           /\ ArgsTyped' /\ TickerSyncs' /\ LockHeld' /\ PlanWellFormed'
<1> USE ThreadFacts DEF TypeInv, TypeOK, Release, Goto, Locked, Publishing
<1>1. /\ pc' \in [Threads -> Labels] /\ pc'[g] = "idle"
      /\ \A h \in Threads : h # g => pc'[h] = pc[h] /\ pc[h] \notin Locked
  BY DEF Labels, LockHeld
<1>2. holder' = NoOne /\ mode' \in AllowedModes
  BY DEF AllowedModes, Modes
<1>3. /\ plan' \in [heat : Orders, cool : Orders]
      /\ shown' \in [target : Targets \cup {0}, state : Modes]
  BY DEF Keep, Orders, NotShown, Modes
<1>4. ArgsTyped' /\ TickerSyncs'
  BY <1>1 DEF ArgsTyped, TickerSyncs
<1>5. LockHeld' /\ PlanWellFormed'
  BY <1>1, <1>2 DEF LockHeld, PlanWellFormed
<1> QED BY <1>1, <1>2, <1>3, <1>4, <1>5

\* So does a Sync that has set its outputs, or else it goes on to publish.
LEMMA OutputsSetType ==
    ASSUME TypeInv, NEW g \in Threads, pc[g] \in Locked, OutputsSet(g),
           UNCHANGED arg
    PROVE  /\ pc' \in [Threads -> Labels] /\ holder' \in Threads \cup {NoOne}
           /\ mode' \in AllowedModes /\ plan' \in [heat : Orders, cool : Orders]
           /\ shown' \in [target : Targets \cup {0}, state : Modes]
           /\ lastSync' \in {"none", "ok", "failed"} /\ synced' \in BOOLEAN
           /\ ArgsTyped' /\ TickerSyncs' /\ LockHeld' /\ PlanWellFormed'
<1>1. CASE DisableHomekit
  BY <1>1, ReleaseType DEF OutputsSet
<1>2. CASE ~DisableHomekit
  <2> USE ThreadFacts DEF TypeInv, TypeOK, Goto
  <2>1. /\ pc' \in [Threads -> Labels] /\ pc'[g] = "publish"
        /\ \A h \in Threads : h # g => pc'[h] = pc[h]
        /\ UNCHANGED <<holder, mode, plan, shown, lastSync>> /\ synced'
    BY <1>2 DEF OutputsSet, locals, Labels, Locked, Publishing
  <2>2. ArgsTyped' /\ TickerSyncs'
    BY <2>1 DEF ArgsTyped, TickerSyncs
  <2>3. LockHeld'
    BY <2>1 DEF LockHeld, Locked, Publishing
  <2>4. PlanWellFormed'
    BY <2>1 DEF PlanWellFormed
  <2>5. synced' \in BOOLEAN
    BY <1>2 DEF OutputsSet
  <2> QED BY <2>1, <2>2, <2>3, <2>4, <2>5
<1> QED BY <1>1, <1>2, SwitchesAssumption

\* The step of a goroutine from one label inside Sync to the next.
LEMMA GotoType ==
    ASSUME TypeInv, NEW g \in Threads, pc[g] \in Locked, NEW l \in Locked,
           Goto(g, l), UNCHANGED <<arg, holder>>
    PROVE  /\ pc' \in [Threads -> Labels] /\ pc'[g] = l
           /\ \A h \in Threads : h # g => pc'[h] = pc[h] /\ pc[h] \notin Locked
           /\ ArgsTyped' /\ TickerSyncs' /\ LockHeld'
<1> USE ThreadFacts DEF TypeInv, TypeOK, Goto
<1>1. /\ pc' \in [Threads -> Labels] /\ pc'[g] = l
      /\ \A h \in Threads : h # g => pc'[h] = pc[h] /\ pc[h] \notin Locked
  BY DEF Labels, LockHeld
<1>2. l \notin {"storeState", "storeTemperature"}
  BY DEF Locked, Publishing
<1>3. ArgsTyped' /\ TickerSyncs'
  BY <1>1, <1>2 DEF ArgsTyped, TickerSyncs
<1>4. LockHeld'
  BY <1>1 DEF LockHeld
<1> QED BY <1>1, <1>3, <1>4

LEMMA ModesFact == AllowedModes \subseteq Modes
BY DEF AllowedModes, Modes

\* A goroutine inside Sync keeps the types and the lock.
LEMMA LockedStepType ==
    ASSUME TypeInv, NEW g \in Threads, LockedStep(g)  PROVE TypeInv'
<1> USE ThreadFacts DEF TypeInv, TypeOK, targets, outputs, sensor, locals, history, budgets
<1>1. CASE ReadSensor(g)
  <2>1. pc[g] \in Locked
    BY <1>1 DEF ReadSensor, Locked, Publishing
  <2>2. CurrentTemperature' \in Readings
    BY <1>1, TemperaturesAssumption DEF ReadSensor
  <2>3. CASE matched /\ stamp = "fresh"
    <3>1. Goto(g, "switch") /\ "switch" \in Locked
      BY <1>1, <2>3 DEF ReadSensor, Locked, Publishing
    <3>2. PlanWellFormed'
      BY <1>1, <2>1, <2>3, <3>1, GotoType DEF ReadSensor, PlanWellFormed
    <3> QED BY <1>1, <2>1, <2>2, <2>3, <3>1, <3>2, GotoType
            DEF ReadSensor, NoCoolingOutput
  <2>4. CASE ~(matched /\ stamp = "fresh")
    <3>1. hk' \in [current : Readings, target : Targets \cup {0}, running : 0..2,
                   state : Modes, fault : BOOLEAN]
      BY <1>1, <2>4 DEF ReadSensor, Fail, ShowFault
    <3> QED BY <1>1, <2>1, <2>2, <2>4, <3>1, ReleaseType
            DEF ReadSensor, Fail, NoCoolingOutput
  <2> QED BY <2>3, <2>4
<1>2. CASE SwitchMode(g)
  <2>1. pc[g] \in Locked /\ Goto(g, "decide") /\ "decide" \in Locked
    BY <1>2 DEF SwitchMode, Locked, Publishing
  <2>2. PlanWellFormed'
    BY <1>2, <2>1, GotoType DEF SwitchMode, PlanWellFormed, Locked, Publishing
  <2> QED BY <1>2, <2>1, <2>2, GotoType DEF SwitchMode, NoCoolingOutput
<1>3. CASE Decide(g)
  <2> PICK h \in {heat, FALSE}, c \in {cool, FALSE} :
        LET orders == OrdersFor(mode, HeatingCondition(h), CoolingCondition(c))
        IN /\ faults' = IF <<h, c>> = <<heat, cool>> THEN faults ELSE faults + 1
           /\ faults' =< MaxFaults
           /\ IF orders = Keep
              THEN OutputsSet(g)
              ELSE /\ plan' = orders
                   /\ Goto(g, "setHeat")
                   /\ UNCHANGED <<holder, mode, shown, history>>
    BY <1>3 DEF Decide, ReadBack
  <2> DEFINE o == OrdersFor(mode, HeatingCondition(h), CoolingCondition(c))
  <2>1. pc[g] \in Locked /\ "setHeat" \in Locked
    BY <1>3 DEF Decide, Locked, Publishing
  <2>2. faults' \in 0..MaxFaults
    BY BoundsAssumption
  <2>3. HeatingCondition(h) \in BOOLEAN /\ CoolingCondition(c) \in BOOLEAN
    BY DEF HeatingCondition, CoolingCondition
  <2>4. /\ o \in [heat : Orders, cool : Orders]
        /\ o # Keep => o.heat # "keep" /\ (CoolingEnabled <=> o.cool # "keep")
    BY <2>3, OrdersFacts
  <2>5. CASE o = Keep
    BY <1>3, <2>1, <2>2, <2>5, OutputsSetType DEF Decide, NoCoolingOutput
  <2>6. CASE o # Keep
    <3>1. plan' = o /\ Goto(g, "setHeat") /\ UNCHANGED <<holder, mode, shown, history>>
      BY <2>6
    <3>2. /\ pc'[g] = "setHeat"
          /\ \A t \in Threads : t # g => pc'[t] \notin Locked
      BY <1>3, <2>1, <3>1, GotoType DEF Decide
    <3>3. PlanWellFormed'
      BY <2>4, <2>6, <3>1, <3>2 DEF PlanWellFormed, Locked, Publishing
    <3> QED BY <1>3, <2>1, <2>2, <2>4, <3>1, <3>3, GotoType DEF Decide, NoCoolingOutput
  <2> QED BY <2>5, <2>6
<1>4. CASE SetHeat(g)
  <2>1. pc[g] \in Locked /\ "setCool" \in Locked /\ plan.heat # "keep"
    BY <1>4 DEF SetHeat, Locked, PlanWellFormed, Publishing
  <2>2. faults' \in 0..MaxFaults
    BY <1>4, BoundsAssumption DEF SetHeat
  <2>7. heat' \in BOOLEAN
    BY <1>4 DEF SetHeat
  <2>3. CASE plan.cool = "keep" /\ OutputsSet(g) /\ UNCHANGED hk
    BY <1>4, <2>1, <2>2, <2>3, <2>7, OutputsSetType DEF SetHeat, NoCoolingOutput
  <2>4. CASE /\ plan.cool # "keep"
             /\ Goto(g, "setCool") /\ UNCHANGED <<holder, locals, history, hk>>
    <3>1. PlanWellFormed'
      BY <1>4, <2>1, <2>4, GotoType DEF SetHeat, PlanWellFormed
    <3> QED BY <1>4, <2>1, <2>2, <2>4, <2>7, <3>1, GotoType DEF SetHeat, NoCoolingOutput
  <2>5. CASE Fail(g)
    <3>1. hk' \in [current : Readings, target : Targets \cup {0}, running : 0..2,
                   state : Modes, fault : BOOLEAN]
      BY <2>5 DEF Fail, ShowFault
    <3> QED BY <1>4, <2>1, <2>2, <2>5, <2>7, <3>1, ReleaseType
            DEF SetHeat, Fail, NoCoolingOutput
  <2> QED BY <1>4, <2>3, <2>4, <2>5 DEF SetHeat
<1>5. CASE SetCool(g)
  <2>1. pc[g] \in Locked /\ CoolingEnabled
    BY <1>5 DEF SetCool, Locked, PlanWellFormed, Publishing
  <2>2. faults' \in 0..MaxFaults
    BY <1>5, BoundsAssumption DEF SetCool
  <2>7. cool' \in BOOLEAN
    BY <1>5 DEF SetCool
  <2>3. CASE OutputsSet(g) /\ UNCHANGED hk
    BY <1>5, <2>1, <2>2, <2>3, <2>7, OutputsSetType DEF SetCool, NoCoolingOutput
  <2>4. CASE Fail(g)
    <3>1. hk' \in [current : Readings, target : Targets \cup {0}, running : 0..2,
                   state : Modes, fault : BOOLEAN]
      BY <2>4 DEF Fail, ShowFault
    <3> QED BY <1>5, <2>1, <2>2, <2>4, <2>7, <3>1, ReleaseType
            DEF SetCool, Fail, NoCoolingOutput
  <2> QED BY <1>5, <2>3, <2>4 DEF SetCool
<1>6. CASE Publish(g) \/ ShowTarget(g) \/ ShowRunning(g) \/ ShowState(g)
  <2>1. pc[g] \in Locked
    BY <1>6 DEF Publish, ShowTarget, ShowRunning, ShowState, Locked, Publishing
  <2>2. CASE ShowState(g)
    <3>1. hk' \in [current : Readings, target : Targets \cup {0}, running : 0..2,
                   state : Modes, fault : BOOLEAN]
      BY <2>2 DEF ShowState
    <3> QED BY <2>1, <2>2, <3>1, ReleaseType DEF ShowState, NoCoolingOutput
  <2>3. ASSUME NEW l \in Publishing, Goto(g, l), faults' \in 0..MaxFaults,
               hk' \in [current : Readings, target : Targets \cup {0},
                        running : 0..2, state : Modes, fault : BOOLEAN],
               shown' \in [target : Targets \cup {0}, state : Modes],
               UNCHANGED <<targets, CurrentTemperature, outputs, holder, arg, mode,
                           plan, sensor, history, requests, readings>>
        PROVE  TypeInv'
    <3>1. l \in Locked /\ l \notin {"setHeat", "setCool"}
      BY <2>3 DEF Locked, Publishing
    <3>2. PlanWellFormed'
      BY <2>1, <2>3, <3>1, GotoType DEF PlanWellFormed, Locked, Publishing
    <3> QED BY <2>1, <2>3, <3>1, <3>2, GotoType DEF NoCoolingOutput
  <2>4. CASE Publish(g)
    <3>1. /\ hk' \in [current : Readings, target : Targets \cup {0},
                      running : 0..2, state : Modes, fault : BOOLEAN]
          /\ shown' \in [target : Targets \cup {0}, state : Modes]
      BY <2>4 DEF Publish
    <3> QED BY <2>3, <2>4, <3>1 DEF Publish, Publishing
  <2>5. CASE ShowTarget(g)
    <3>1. hk' \in [current : Readings, target : Targets \cup {0},
                   running : 0..2, state : Modes, fault : BOOLEAN]
      BY <2>5 DEF ShowTarget, NewTarget
    <3> QED BY <2>3, <2>5, <3>1 DEF ShowTarget, Publishing
  <2>6. CASE ShowRunning(g)
    <3>0. \A h, c \in BOOLEAN : CurrentState(h, c) \in 0..2
      BY DEF CurrentState
    <3>1. hk' \in [current : Readings, target : Targets \cup {0},
                   running : 0..2, state : Modes, fault : BOOLEAN]
      <4>1. PICK h \in BOOLEAN, c \in BOOLEAN :
                hk' = [hk EXCEPT !.running = CurrentState(h, c), !.fault = FALSE]
        BY <2>6 DEF ShowRunning, ReadBack
      <4> QED BY <3>0, <4>1
    <3>3. shown' \in [target : Targets \cup {0}, state : Modes]
      BY <2>6, ModesFact DEF ShowRunning
    <3>2. faults' \in 0..MaxFaults
      BY <2>6, BoundsAssumption DEF ShowRunning, ReadBack
    <3> QED BY <2>3, <2>6, <3>1, <3>2, <3>3 DEF ShowRunning, Publishing
  <2> QED BY <1>6, <2>2, <2>4, <2>5, <2>6
<1> QED BY <1>1, <1>2, <1>3, <1>4, <1>5, <1>6 DEF LockedStep

\* A goroutine that waits for the lock, or takes it.
LEMMA WaitingStepType ==
    ASSUME TypeInv, NEW g \in Threads, StartSync(g) \/ Acquire(g)
    PROVE  TypeInv'
<1> USE ThreadFacts
        DEF TypeInv, TypeOK, Goto, targets, outputs, sensor, locals, history, budgets
<1>1. CASE StartSync(g)
  <2>1. /\ pc' \in [Threads -> Labels] /\ pc[g] = "idle" /\ pc'[g] = "acquire"
        /\ \A h \in Threads : h # g => pc'[h] = pc[h]
    BY <1>1 DEF StartSync, Labels
  <2>2. ArgsTyped' /\ TickerSyncs' /\ LockHeld' /\ PlanWellFormed'
    BY <1>1, <2>1 DEF StartSync, ArgsTyped, TickerSyncs, LockHeld, PlanWellFormed, Locked, Publishing
  <2> QED BY <1>1, <2>1, <2>2 DEF StartSync, NoCoolingOutput
<1>2. CASE Acquire(g)
  <2>1. /\ pc' \in [Threads -> Labels] /\ pc[g] = "acquire" /\ pc'[g] = "read"
        /\ \A h \in Threads : h # g => pc'[h] = pc[h]
        /\ holder = NoOne /\ holder' = g
    BY <1>2 DEF Acquire, Labels, Locked, Publishing
  <2>2. ArgsTyped' /\ TickerSyncs' /\ LockHeld' /\ PlanWellFormed'
    BY <1>2, <2>1 DEF Acquire, ArgsTyped, TickerSyncs, LockHeld, PlanWellFormed, Locked, Publishing
  <2> QED BY <1>2, <2>1, <2>2 DEF Acquire, NoCoolingOutput
<1> QED BY <1>1, <1>2

\* A HomeKit callback, up to its Sync.
LEMMA HkStepType ==
    ASSUME TypeInv, NEW g \in HkClients, HkStep(g)  PROVE TypeInv'
<1> USE ThreadFacts
        DEF TypeInv, TypeOK, Goto, targets, outputs, sensor, locals, history, budgets
<1>1. CASE StoreTargetState(g)
  <2>1. /\ pc' \in [Threads -> Labels] /\ pc[g] = "storeState" /\ pc'[g] = "acquire"
        /\ \A h \in Threads : h # g => pc'[h] = pc[h]
        /\ \A h \in HkClients : h # g => arg'[h] = arg[h]
        /\ arg' \in [HkClients -> Modes \cup Targets]
    BY <1>1 DEF StoreTargetState, Labels, Modes
  <2>2. TargetState' \in AllowedModes
    BY <1>1, <2>1 DEF StoreTargetState, Accepted, AllowedModes, ArgsTyped, Modes
  <2>3. ArgsTyped' /\ TickerSyncs' /\ LockHeld' /\ PlanWellFormed'
    BY <1>1, <2>1 DEF StoreTargetState, ArgsTyped, TickerSyncs, LockHeld,
                      PlanWellFormed, Locked, Publishing
  <2> QED BY <1>1, <2>1, <2>2, <2>3 DEF StoreTargetState, NoCoolingOutput
<1>2. CASE StoreTargetTemperature(g)
  <2>1. /\ pc' \in [Threads -> Labels] /\ pc[g] = "storeTemperature"
        /\ pc'[g] \in {"idle", "acquire"}
        /\ \A h \in Threads : h # g => pc'[h] = pc[h]
        /\ \A h \in HkClients : h # g => arg'[h] = arg[h]
        /\ arg' \in [HkClients -> Modes \cup Targets]
    BY <1>2 DEF StoreTargetTemperature, Labels, Modes
  <2>2. TargetTemperature' \in Targets
    BY <1>2, <2>1 DEF StoreTargetTemperature, ArgsTyped
  <2>3. ArgsTyped' /\ TickerSyncs' /\ LockHeld' /\ PlanWellFormed'
    BY <1>2, <2>1 DEF StoreTargetTemperature, ArgsTyped, TickerSyncs, LockHeld,
                      PlanWellFormed, Locked, Publishing
  <2> QED BY <1>2, <2>1, <2>2, <2>3 DEF StoreTargetTemperature, NoCoolingOutput
<1> QED BY <1>1, <1>2 DEF HkStep

\* HomeKit, the sensor and time.
LEMMA EnvironmentType ==
    ASSUME TypeInv, Environment  PROVE TypeInv'
<1> USE ThreadFacts
        DEF TypeInv, TypeOK, Goto, targets, outputs, sensor, locals, history, budgets
<1>1. CASE \E g \in HkClients, m \in Modes : HkTargetState(g, m)
  <2> SUFFICES ASSUME NEW g \in HkClients, NEW m \in Modes, HkTargetState(g, m)
               PROVE  TypeInv'
    BY <1>1
  <2>1. /\ pc' \in [Threads -> Labels] /\ pc[g] = "idle" /\ pc'[g] = "storeState"
        /\ \A h \in Threads : h # g => pc'[h] = pc[h]
        /\ \A h \in HkClients : h # g => arg'[h] = arg[h]
        /\ arg' \in [HkClients -> Modes \cup Targets] /\ arg'[g] = m
    BY DEF HkTargetState, Labels
  <2>2. requests' \in 0..MaxRequests
    BY BoundsAssumption DEF HkTargetState, Request
  <2>3. hk' \in [current : Readings, target : Targets \cup {0}, running : 0..2,
                 state : Modes, fault : BOOLEAN]
    BY DEF HkTargetState
  <2>4. ArgsTyped' /\ TickerSyncs' /\ LockHeld' /\ PlanWellFormed'
    BY <2>1 DEF HkTargetState, ArgsTyped, TickerSyncs, LockHeld, PlanWellFormed, Locked, Publishing
  <2> QED BY <2>1, <2>2, <2>3, <2>4 DEF HkTargetState, NoCoolingOutput
<1>2. CASE \E g \in HkClients, t \in Targets : HkTargetTemperature(g, t)
  <2> SUFFICES ASSUME NEW g \in HkClients, NEW t \in Targets, HkTargetTemperature(g, t)
               PROVE  TypeInv'
    BY <1>2
  <2>1. /\ pc' \in [Threads -> Labels] /\ pc[g] = "idle"
        /\ pc'[g] = "storeTemperature"
        /\ \A h \in Threads : h # g => pc'[h] = pc[h]
        /\ \A h \in HkClients : h # g => arg'[h] = arg[h]
        /\ arg' \in [HkClients -> Modes \cup Targets] /\ arg'[g] = t
    BY DEF HkTargetTemperature, Labels
  <2>2. requests' \in 0..MaxRequests
    BY BoundsAssumption DEF HkTargetTemperature, Request
  <2>3. hk' \in [current : Readings, target : Targets \cup {0}, running : 0..2,
                 state : Modes, fault : BOOLEAN]
    BY DEF HkTargetTemperature
  <2>4. ArgsTyped' /\ TickerSyncs' /\ LockHeld' /\ PlanWellFormed'
    BY <2>1 DEF HkTargetTemperature, ArgsTyped, TickerSyncs, LockHeld,
                PlanWellFormed, Locked, Publishing
  <2> QED BY <2>1, <2>2, <2>3, <2>4 DEF HkTargetTemperature, NoCoolingOutput
<1>3. CASE \E t \in Readings : Reading(t)
  <2>1. readings' \in 0..MaxReadings
    BY <1>3, BoundsAssumption DEF Reading
  <2> QED BY <1>3, <2>1 DEF Reading, ArgsTyped, TickerSyncs, LockHeld,
                            PlanWellFormed, NoCoolingOutput
<1>4. CASE Expire
  BY <1>4 DEF Expire, ArgsTyped, TickerSyncs, LockHeld, PlanWellFormed, NoCoolingOutput
<1> QED BY <1>1, <1>2, <1>3, <1>4 DEF Environment

\* The types, the lock and the orders are as described in every state.
LEMMA TypeInvCorrect == Spec => []TypeInv
<1>1. Init => TypeInv
  <2> SUFFICES ASSUME Init PROVE TypeInv
    OBVIOUS
  <2>1. /\ pc \in [Threads -> Labels] /\ \A g \in Threads : pc[g] = "idle"
        /\ arg \in [HkClients -> Modes \cup Targets]
    BY DEF Init, Labels, Modes
  <2>2. ArgsTyped /\ TickerSyncs /\ LockHeld /\ PlanWellFormed
    BY <2>1, ThreadFacts
       DEF Init, ArgsTyped, TickerSyncs, LockHeld, PlanWellFormed, Locked, Publishing
  <2>3. /\ hk \in [current : Readings, target : Targets \cup {0}, running : 0..2,
                   state : Modes, fault : BOOLEAN]
        /\ CurrentTemperature \in Readings /\ value \in Readings
    BY TemperaturesAssumption DEF Init, Modes
  <2>4. /\ mode \in AllowedModes /\ plan \in [heat : Orders, cool : Orders]
        /\ shown \in [target : Targets \cup {0}, state : Modes]
    BY DEF Init, AllowedModes, Modes, Keep, Orders, NotShown
  <2>5. /\ requests \in 0..MaxRequests /\ readings \in 0..MaxReadings
        /\ faults \in 0..MaxFaults
    BY BoundsAssumption DEF Init
  <2>6. heat \in BOOLEAN /\ cool \in BOOLEAN /\ NoCoolingOutput
    BY DEF Init, NoCoolingOutput
  <2> QED BY <2>1, <2>2, <2>3, <2>4, <2>5, <2>6 DEF Init, TypeInv, TypeOK
<1>2. TypeInv /\ [Next]_vars => TypeInv'
  <2> SUFFICES ASSUME TypeInv, [Next]_vars PROVE TypeInv'
    OBVIOUS
  <2>1. CASE \E g \in Threads : ThreadStep(g)
    BY <2>1, WaitingStepType, LockedStepType DEF ThreadStep
  <2>2. CASE \E g \in HkClients : HkStep(g)
    BY <2>2, HkStepType
  <2>3. CASE Environment
    BY <2>3, EnvironmentType
  <2>4. CASE UNCHANGED vars
    BY <2>4 DEF vars, targets, outputs, sensor, locals, history, budgets, TypeInv,
                TypeOK, ArgsTyped, TickerSyncs, LockHeld, NoCoolingOutput, PlanWellFormed
  <2> QED BY <2>1, <2>2, <2>3, <2>4 DEF Next
<1> QED BY <1>1, <1>2, PTL DEF Spec

\* The variables of the thermostat keep their types; in particular it is never
\* in a mode that needs the cooling output it does not have.
THEOREM TypeCorrect == Spec => []TypeOK
<1>1. TypeInv => TypeOK
  BY DEF TypeInv
<1> QED BY <1>1, TypeInvCorrect, PTL

-----------------------------------------------------------------------------
(* The outputs obey the mode, and heating and cooling exclude each other.  *)

\* Outputs h and c are those of mode m.
Obeys(m, h, c) == /\ m = 0 => ~h /\ ~c
                  /\ m = 1 => ~c
                  /\ m = 2 => ~h

\* No HomeKit callback has written a target and waits for its Sync.
NobodyWaits == \A h \in HkClients : pc[h] # "acquire"

\* What is about to be set obeys the mode that was read, does not turn both
\* outputs on, and, with a positive threshold, does not turn cooling on.
PlanObeys ==
    \A g \in Threads : pc[g] \in {"setHeat", "setCool"} =>
        /\ mode = 0 => plan.heat = "off" /\ plan.cool # "on"
        /\ mode = 1 => plan.cool # "on"
        /\ mode = 2 => plan.heat = "off"
        /\ ~(plan.heat = "on" /\ plan.cool = "on")
        /\ CoolingThreshold > 0 /\ plan.cool = "on" => cool
        /\ pc[g] = "setCool" => (heat <=> plan.heat = "on")

\* Once set, the outputs obey the mode that was read.
OutputsObey == \A g \in Threads : pc[g] \in Publishing => Obeys(mode, heat, cool)

\* The mode that was read is still TargetState, unless a callback that has
\* written it since waits for the lock: its own Sync will read it again.
ModeCurrent ==
    \A g \in Threads :
        pc[g] \in {"decide", "setHeat", "setCool"} \cup Publishing /\ NobodyWaits
            => mode = TargetState

\* After a successful Sync, likewise, for whoever takes the lock next.
LastObeyed == Quiet /\ lastSync = "ok" => Obeys(TargetState, heat, cool)

\* Without output errors both outputs are on only between the two Sets.
NeverBothOn ==
    CoolingThreshold > 0 /\ synced /\ faults = 0
        /\ (\A g \in Threads : pc[g] # "setCool") => ~(heat /\ cool)

SafetyInv == PlanObeys /\ OutputsObey /\ ModeCurrent /\ LastObeyed /\ NeverBothOn

\* Sync returns: nobody is inside any more.
LEMMA ReleaseSafety ==
    ASSUME TypeInv, NEW g \in Threads, pc[g] \in Locked,
           NEW outcome \in {"ok", "failed"}, Release(g, outcome),
           outcome = "ok" /\ NobodyWaits => Obeys(TargetState', heat', cool'),
           CoolingThreshold > 0 /\ synced' /\ faults' = 0 => ~(heat' /\ cool')
    PROVE  SafetyInv'
<1>1. /\ pc'[g] = "idle" /\ \A h \in Threads : pc'[h] \notin Locked
      /\ \A h \in Threads : h # g => pc'[h] = pc[h]
  BY DEF TypeInv, TypeOK, LockHeld, Release, Goto, Locked, Publishing
<1>2. NobodyWaits' => NobodyWaits
  BY <1>1, ThreadFacts DEF NobodyWaits, Locked, Publishing
<1>3. LastObeyed'
  BY <1>2 DEF LastObeyed, Quiet, NobodyWaits, Release
<1>4. PlanObeys' /\ OutputsObey' /\ ModeCurrent'
  BY <1>1 DEF PlanObeys, OutputsObey, ModeCurrent, Locked, Publishing
<1>5. NeverBothOn'
  BY DEF NeverBothOn
<1> QED BY <1>3, <1>4, <1>5 DEF SafetyInv

\* A Sync whose outputs obey the mode it has read returns or publishes.
LEMMA OutputsSetSafety ==
    ASSUME TypeInv, SafetyInv, NEW g \in Threads,
           pc[g] \in {"decide", "setHeat", "setCool"}, OutputsSet(g),
           UNCHANGED TargetState, Obeys(mode, heat', cool'),
           CoolingThreshold > 0 /\ faults' = 0 => ~(heat' /\ cool')
    PROVE  SafetyInv'
<1>1. pc[g] \in Locked /\ (NobodyWaits => mode = TargetState)
  BY DEF SafetyInv, ModeCurrent, Locked, Publishing
<1>2. CASE DisableHomekit
  BY <1>1, <1>2, ReleaseSafety DEF OutputsSet
<1>3. CASE ~DisableHomekit
  <2>1. /\ pc'[g] = "publish" /\ \A h \in Threads : h # g => pc'[h] = pc[h]
        /\ \A h \in Threads : h # g => pc[h] \notin Locked
        /\ holder' = g /\ mode' = mode
    BY <1>1, <1>3 DEF OutputsSet, locals, Goto, TypeInv, TypeOK, LockHeld
  <2>2. PlanObeys'
    BY <2>1 DEF PlanObeys, Locked, Publishing
  <2>3. OutputsObey'
    BY <2>1 DEF OutputsObey, Locked, Publishing
  <2>4. ModeCurrent'
    BY <1>1, <2>1, ThreadFacts DEF ModeCurrent, NobodyWaits, Locked, Publishing
  <2>5. LastObeyed' /\ NeverBothOn'
    BY <2>1, ThreadFacts DEF LastObeyed, Quiet, NeverBothOn
  <2> QED BY <2>2, <2>3, <2>4, <2>5 DEF SafetyInv
<1> QED BY <1>2, <1>3

\* A goroutine inside Sync obeys the mode it read.
LEMMA LockedStepSafety ==
    ASSUME TypeInv, SafetyInv, NEW g \in Threads, LockedStep(g)  PROVE SafetyInv'
<1> USE ThreadFacts DEF targets, outputs, sensor, locals, history, budgets
<1>1. CASE ReadSensor(g)
  <2>1. pc[g] \in Locked
    BY <1>1 DEF ReadSensor, Locked, Publishing
  <2>2. CASE matched /\ stamp = "fresh"
    <3>1. Goto(g, "switch") /\ UNCHANGED <<holder, locals, hk, history>>
      BY <1>1, <2>2 DEF ReadSensor
    <3>2. /\ pc'[g] = "switch" /\ \A h \in Threads : h # g => pc'[h] = pc[h]
          /\ \A h \in Threads : h # g => pc[h] \notin Locked
          /\ holder = g
      BY <2>1, <3>1 DEF Goto, TypeInv, TypeOK, LockHeld
    <3>3. PlanObeys' /\ OutputsObey' /\ ModeCurrent'
      BY <3>2 DEF PlanObeys, OutputsObey, ModeCurrent, Locked, Publishing
    <3>4. LastObeyed'
      BY <3>1, <3>2 DEF LastObeyed, Quiet
    <3>5. NeverBothOn'
      BY <1>1, <3>1, <3>2
         DEF ReadSensor, SafetyInv, NeverBothOn, Locked, Publishing
    <3> QED BY <3>3, <3>4, <3>5 DEF SafetyInv
  <2>3. CASE ~(matched /\ stamp = "fresh")
    <3>1. Release(g, "failed") /\ UNCHANGED <<synced, heat, cool, faults>>
      BY <1>1, <2>3 DEF ReadSensor, Fail
    <3>2. \A h \in Threads : pc[h] # "setCool"
      BY <1>1, <2>1 DEF ReadSensor, TypeInv, TypeOK, LockHeld, Locked, Publishing
    <3>3. CoolingThreshold > 0 /\ synced' /\ faults' = 0 => ~(heat' /\ cool')
      BY <3>1, <3>2 DEF SafetyInv, NeverBothOn
    <3> QED BY <2>1, <3>1, <3>3, ReleaseSafety
  <2> QED BY <2>2, <2>3
<1>2. CASE SwitchMode(g)
  <2>1. /\ pc'[g] = "decide" /\ \A h \in Threads : h # g => pc'[h] = pc[h]
        /\ \A h \in Threads : h # g => pc[h] \notin Locked
        /\ holder = g /\ holder' = g
    BY <1>2 DEF SwitchMode, Goto, TypeInv, TypeOK, LockHeld, Locked, Publishing
  <2>2. PlanObeys' /\ OutputsObey'
    BY <2>1 DEF PlanObeys, OutputsObey, Locked, Publishing
  <2>3. ModeCurrent'
    BY <1>2, <2>1 DEF SwitchMode, ModeCurrent, Locked, Publishing
  <2>4. LastObeyed'
    BY <2>1 DEF LastObeyed, Quiet
  <2>5. NeverBothOn'
    BY <1>2, <2>1 DEF SwitchMode, SafetyInv, NeverBothOn, Locked, Publishing
  <2> QED BY <2>2, <2>3, <2>4, <2>5 DEF SafetyInv
<1>3. CASE Decide(g)
  <2> PICK h \in {heat, FALSE}, c \in {cool, FALSE} :
        LET orders == OrdersFor(mode, HeatingCondition(h), CoolingCondition(c))
        IN /\ faults' = IF <<h, c>> = <<heat, cool>> THEN faults ELSE faults + 1
           /\ faults' =< MaxFaults
           /\ IF orders = Keep
              THEN OutputsSet(g)
              ELSE /\ plan' = orders
                   /\ Goto(g, "setHeat")
                   /\ UNCHANGED <<holder, mode, shown, history>>
    BY <1>3 DEF Decide, ReadBack
  <2> DEFINE o == OrdersFor(mode, HeatingCondition(h), CoolingCondition(c))
  <2>1. /\ pc[g] = "decide" /\ UNCHANGED <<TargetState, heat, cool>>
        /\ \A t \in Threads : t # g => pc[t] \notin Locked
    BY <1>3 DEF Decide, TypeInv, TypeOK, LockHeld, Locked, Publishing
  <2>2. HeatingCondition(h) \in BOOLEAN /\ CoolingCondition(c) \in BOOLEAN
    BY DEF HeatingCondition, CoolingCondition
  <2>3. CoolingThreshold > 0 => (CoolingCondition(c) <=> c)
    BY CoolingConditionFact, TemperaturesAssumption DEF TypeInv, TypeOK
  <2>4. /\ o = Keep => /\ mode = 3 /\ ~HeatingCondition(h)
                       /\ CoolingThreshold > 0 => ~c
        /\ o # Keep => /\ ~(o.heat = "on" /\ o.cool = "on")
                       /\ CoolingThreshold > 0 /\ o.cool = "on" => c
                       /\ mode = 0 => o.heat = "off" /\ o.cool # "on"
                       /\ mode = 1 => o.cool # "on"
                       /\ mode = 2 => o.heat = "off"
    BY <2>2, <2>3, OrdersFacts DEF TypeInv, TypeOK
  <2>5. faults' = 0 => faults = 0 /\ c = cool
    BY DEF TypeInv, TypeOK
  <2>6. CASE o = Keep
    <3>1. OutputsSet(g) /\ Obeys(mode, heat', cool')
      BY <2>4, <2>6 DEF Obeys
    <3>2. CoolingThreshold > 0 /\ faults' = 0 => ~(heat' /\ cool')
      BY <2>1, <2>4, <2>5, <2>6
    <3> QED BY <2>1, <3>1, <3>2, OutputsSetSafety
  <2>7. CASE o # Keep
    <3>1. plan' = o /\ Goto(g, "setHeat") /\ UNCHANGED <<holder, mode, lastSync, synced>>
      BY <2>7
    <3>2. /\ pc'[g] = "setHeat" /\ \A t \in Threads : t # g => pc'[t] = pc[t]
          /\ holder' = g
      BY <2>1, <3>1 DEF Goto, TypeInv, TypeOK, LockHeld, Locked, Publishing
    <3>3. CoolingThreshold > 0 /\ o.cool = "on" => cool'
      BY <2>1, <2>4, <2>7
    <3>4. PlanObeys'
      BY <2>1, <2>4, <2>7, <3>1, <3>2, <3>3 DEF PlanObeys, Locked, Publishing
    <3>5. OutputsObey' /\ LastObeyed'
      BY <2>1, <3>2 DEF OutputsObey, LastObeyed, Quiet, Locked, Publishing
    <3>6. ModeCurrent'
      BY <2>1, <3>1, <3>2 DEF SafetyInv, ModeCurrent, NobodyWaits, Locked, Publishing
    <3>7. NeverBothOn'
      BY <2>1, <2>5, <3>1 DEF SafetyInv, NeverBothOn, Locked, Publishing
    <3> QED BY <3>4, <3>5, <3>6, <3>7 DEF SafetyInv
  <2> QED BY <2>6, <2>7
<1>4. CASE SetHeat(g)
  <2>1. /\ pc[g] = "setHeat" /\ UNCHANGED <<TargetState, cool>>
        /\ \A t \in Threads : t # g => pc[t] \notin Locked
    BY <1>4 DEF SetHeat, TypeInv, TypeOK, LockHeld, Locked, Publishing
  <2>2. /\ mode = 0 => plan.heat = "off" /\ plan.cool # "on"
        /\ mode = 1 => plan.cool # "on"
        /\ mode = 2 => plan.heat = "off"
        /\ ~(plan.heat = "on" /\ plan.cool = "on")
        /\ CoolingThreshold > 0 /\ plan.cool = "on" => cool
        /\ CoolingEnabled <=> plan.cool # "keep"
        /\ ~CoolingEnabled => ~cool
    BY <2>1 DEF TypeInv, PlanWellFormed, NoCoolingOutput, SafetyInv, PlanObeys
  <2>3. CASE heat' = (plan.heat = "on") /\ plan.cool = "keep" /\ OutputsSet(g)
    <3>1. ~cool'
      BY <2>1, <2>2, <2>3
    <3>2. Obeys(mode, heat', cool')
      BY <2>2, <2>3, <3>1 DEF Obeys
    <3> QED BY <2>1, <2>3, <3>1, <3>2, OutputsSetSafety
  <2>4. CASE /\ heat' = (plan.heat = "on") /\ plan.cool # "keep"
             /\ Goto(g, "setCool") /\ UNCHANGED <<holder, locals, history>>
    <3>1. /\ pc'[g] = "setCool" /\ \A t \in Threads : t # g => pc'[t] = pc[t]
          /\ holder' = g
      BY <2>1, <2>4 DEF Goto, TypeInv, TypeOK, LockHeld, Locked, Publishing
    <3>2. mode' = mode /\ plan' = plan /\ (cool => cool')
      BY <2>1, <2>4
    <3>3. PlanObeys'
      BY <2>1, <2>2, <2>4, <3>1, <3>2 DEF PlanObeys, Locked, Publishing
    <3>4. OutputsObey' /\ LastObeyed' /\ NeverBothOn'
      BY <2>1, <3>1 DEF OutputsObey, LastObeyed, Quiet, NeverBothOn, Locked, Publishing
    <3>5. ModeCurrent'
      BY <2>1, <3>1, <3>2 DEF SafetyInv, ModeCurrent, NobodyWaits, Locked, Publishing
    <3> QED BY <3>3, <3>4, <3>5 DEF SafetyInv
  <2>5. CASE Fail(g) /\ faults' = faults + 1
    <3>1. faults' # 0
      BY <2>5 DEF TypeInv, TypeOK
    <3> QED BY <2>1, <2>5, <3>1, ReleaseSafety DEF Fail, Locked, Publishing
  <2> QED BY <1>4, <2>3, <2>4, <2>5 DEF SetHeat
<1>5. CASE SetCool(g)
  <2>1. /\ pc[g] = "setCool" /\ UNCHANGED <<TargetState, heat>>
        /\ \A t \in Threads : t # g => pc[t] \notin Locked
    BY <1>5 DEF SetCool, TypeInv, TypeOK, LockHeld, Locked, Publishing
  <2>2. /\ mode = 0 => plan.heat = "off" /\ plan.cool # "on"
        /\ mode = 1 => plan.cool # "on"
        /\ mode = 2 => plan.heat = "off"
        /\ ~(plan.heat = "on" /\ plan.cool = "on")
        /\ heat <=> plan.heat = "on"
    BY <2>1 DEF SafetyInv, PlanObeys
  <2>3. CASE cool' = (plan.cool = "on") /\ OutputsSet(g)
    <3>1. ~(heat' /\ cool')
      BY <2>1, <2>2, <2>3
    <3>2. Obeys(mode, heat', cool')
      BY <2>1, <2>2, <2>3 DEF Obeys
    <3> QED BY <2>1, <2>3, <3>1, <3>2, OutputsSetSafety
  <2>4. CASE Fail(g) /\ faults' = faults + 1
    <3>1. faults' # 0
      BY <2>4 DEF TypeInv, TypeOK
    <3> QED BY <2>1, <2>4, <3>1, ReleaseSafety DEF Fail, Locked, Publishing
  <2> QED BY <1>5, <2>3, <2>4 DEF SetCool
<1>6. CASE Publish(g) \/ ShowTarget(g) \/ ShowRunning(g)
  <2>1. /\ pc[g] \in Publishing /\ pc'[g] \in Publishing
        /\ \A t \in Threads : t # g => pc'[t] = pc[t] /\ pc[t] \notin Locked
        /\ UNCHANGED <<TargetState, heat, cool, synced, mode, plan, lastSync, holder>>
    BY <1>6 DEF Publish, ShowTarget, ShowRunning, Publishing, Locked, Goto, TypeInv,
                TypeOK, LockHeld
  <2>0. faults' = 0 => faults = 0
    <3>1. CASE Publish(g) \/ ShowTarget(g)
      BY <3>1 DEF Publish, ShowTarget
    <3>2. CASE ShowRunning(g)
      <4>1. faults \in Nat
        BY DEF TypeInv, TypeOK
      <4>2. faults' = faults \/ faults' = faults + 1
        BY <3>2 DEF ShowRunning
      <4> QED BY <4>1, <4>2
    <3> QED BY <1>6, <3>1, <3>2
  <2>2. NobodyWaits' => NobodyWaits
    BY <2>1 DEF NobodyWaits, Publishing
  <2>3. PlanObeys' /\ OutputsObey'
    BY <2>1 DEF SafetyInv, PlanObeys, OutputsObey, Obeys, Publishing, Locked
  <2>4. ModeCurrent'
    BY <2>1, <2>2 DEF SafetyInv, ModeCurrent, Publishing, Locked
  <2>5. LastObeyed'
    BY <2>1, <2>2 DEF SafetyInv, LastObeyed, Quiet, NobodyWaits, Obeys
  <2>6. NeverBothOn'
    BY <2>0, <2>1 DEF SafetyInv, NeverBothOn, Publishing, Locked
  <2> QED BY <2>3, <2>4, <2>5, <2>6 DEF SafetyInv
<1>7. CASE ShowState(g)
  <2>1. /\ pc[g] = "showState" /\ UNCHANGED <<TargetState, heat, cool, synced>>
        /\ Release(g, "ok") /\ (faults' = 0 => faults = 0)
        /\ \A t \in Threads : pc[t] # "setCool"
    BY <1>7 DEF ShowState, TypeInv, TypeOK, LockHeld, Locked, Publishing
  <2>2. NobodyWaits => Obeys(TargetState', heat', cool')
    BY <2>1 DEF SafetyInv, OutputsObey, ModeCurrent, Obeys, Publishing
  <2>3. CoolingThreshold > 0 /\ synced' /\ faults' = 0 => ~(heat' /\ cool')
    BY <2>1 DEF SafetyInv, NeverBothOn
  <2> QED BY <2>1, <2>2, <2>3, ReleaseSafety DEF Locked, Publishing
<1> QED BY <1>1, <1>2, <1>3, <1>4, <1>5, <1>6, <1>7 DEF LockedStep

\* A goroutine that comes to the lock or takes it.
LEMMA WaitingStepSafety ==
    ASSUME TypeInv, SafetyInv, NEW g \in Threads, StartSync(g) \/ Acquire(g)
    PROVE  SafetyInv'
<1> USE ThreadFacts DEF targets, outputs, sensor, locals, history, budgets
<1>1. CASE StartSync(g)
  <2>1. /\ g = Ticker /\ pc[g] = "idle" /\ pc'[g] = "acquire"
        /\ \A h \in Threads : h # g => pc'[h] = pc[h]
        /\ \A h \in HkClients : pc'[h] = pc[h]
    BY <1>1 DEF StartSync, Goto, TypeInv, TypeOK
  <2>2. PlanObeys' /\ OutputsObey' /\ ModeCurrent'
    BY <1>1, <2>1 DEF StartSync, SafetyInv, PlanObeys, OutputsObey, ModeCurrent,
                      NobodyWaits, Obeys, Publishing
  <2>3. LastObeyed' /\ NeverBothOn'
    BY <1>1, <2>1 DEF StartSync, SafetyInv, LastObeyed, NeverBothOn, Quiet, Obeys
  <2> QED BY <2>2, <2>3 DEF SafetyInv
<1>2. CASE Acquire(g)
  <2>1. /\ pc'[g] = "read" /\ \A h \in Threads : h # g => pc'[h] = pc[h]
        /\ \A h \in Threads : pc[h] \notin Locked
        /\ holder' = g
    BY <1>2 DEF Acquire, Goto, TypeInv, TypeOK, LockHeld
  <2>2. PlanObeys' /\ OutputsObey' /\ ModeCurrent'
    BY <2>1 DEF PlanObeys, OutputsObey, ModeCurrent, Locked, Publishing
  <2>3. LastObeyed' /\ NeverBothOn'
    BY <1>2, <2>1 DEF Acquire, SafetyInv, LastObeyed, NeverBothOn, Quiet, Locked, Publishing
  <2> QED BY <2>2, <2>3 DEF SafetyInv
<1> QED BY <1>1, <1>2

\* A callback that has written a target waits for the lock, so that the mode
\* read before need not be TargetState any more.
LEMMA HkStepSafety ==
    ASSUME TypeInv, SafetyInv, NEW g \in HkClients, HkStep(g)  PROVE SafetyInv'
<1> USE ThreadFacts DEF targets, outputs, sensor, locals, history, budgets
<1>1. /\ pc[g] \in {"storeState", "storeTemperature"}
      /\ pc'[g] \in {"idle", "acquire"}
      /\ pc'[g] = "idle" => UNCHANGED TargetState
      /\ \A h \in Threads : h # g => pc'[h] = pc[h]
      /\ UNCHANGED <<heat, cool, holder, mode, plan, lastSync, synced, faults>>
  BY DEF HkStep, StoreTargetState, StoreTargetTemperature, Goto, TypeInv, TypeOK
<1>2. pc'[g] = "idle" \/ ~NobodyWaits'
  BY <1>1 DEF NobodyWaits
<1>3. UNCHANGED TargetState \/ ~NobodyWaits'
  BY <1>1, <1>2
<1>4. NobodyWaits' => NobodyWaits
  BY <1>1 DEF NobodyWaits
<1>5. PlanObeys' /\ OutputsObey'
  BY <1>1 DEF SafetyInv, PlanObeys, OutputsObey, Obeys, Publishing
<1>6. ModeCurrent'
  BY <1>1, <1>3, <1>4 DEF SafetyInv, ModeCurrent, Publishing
<1>7. LastObeyed'
  BY <1>1, <1>3, <1>4 DEF SafetyInv, LastObeyed, Quiet, NobodyWaits, Obeys
<1>8. NeverBothOn'
  BY <1>1 DEF SafetyInv, NeverBothOn
<1> QED BY <1>5, <1>6, <1>7, <1>8 DEF SafetyInv

\* HomeKit, the sensor and time do not touch the outputs or the mode.
LEMMA EnvironmentSafety ==
    ASSUME TypeInv, SafetyInv, Environment  PROVE SafetyInv'
<1> USE ThreadFacts DEF targets, outputs, sensor, locals, history, budgets
<1>1. UNCHANGED <<TargetState, heat, cool, holder, mode, plan, lastSync, synced, faults>>
  BY DEF Environment, HkTargetState, HkTargetTemperature, Reading, Expire
<1>2. \A h \in Threads :
        \/ pc'[h] = pc[h]
        \/ pc[h] = "idle" /\ pc'[h] \in {"storeState", "storeTemperature"}
  BY DEF Environment, HkTargetState, HkTargetTemperature, Reading, Expire, Goto,
         TypeInv, TypeOK
<1>3. NobodyWaits' <=> NobodyWaits
  BY <1>2 DEF NobodyWaits
<1>4. PlanObeys' /\ OutputsObey'
  BY <1>1, <1>2 DEF SafetyInv, PlanObeys, OutputsObey, Obeys, Publishing
<1>5. ModeCurrent'
  BY <1>1, <1>2, <1>3 DEF SafetyInv, ModeCurrent, Publishing
<1>6. LastObeyed'
  BY <1>1, <1>3 DEF SafetyInv, LastObeyed, Quiet, NobodyWaits, Obeys
<1>7. NeverBothOn'
  BY <1>1, <1>2 DEF SafetyInv, NeverBothOn
<1> QED BY <1>4, <1>5, <1>6, <1>7 DEF SafetyInv

\* The outputs obey the mode that was read, in every state.
LEMMA SafetyInvCorrect == Spec => [](TypeInv /\ SafetyInv)
<1>1. Init => SafetyInv
  BY DEF Init, SafetyInv, PlanObeys, OutputsObey, ModeCurrent, LastObeyed,
         NeverBothOn, Publishing
<1>2. TypeInv /\ SafetyInv /\ [Next]_vars => SafetyInv'
  <2> SUFFICES ASSUME TypeInv, SafetyInv, [Next]_vars PROVE SafetyInv'
    OBVIOUS
  <2>1. CASE \E g \in Threads : ThreadStep(g)
    BY <2>1, WaitingStepSafety, LockedStepSafety DEF ThreadStep
  <2>2. CASE \E g \in HkClients : HkStep(g)
    BY <2>2, HkStepSafety
  <2>3. CASE Environment
    BY <2>3, EnvironmentSafety
  <2>4. CASE UNCHANGED vars
    BY <2>4 DEF vars, targets, outputs, sensor, locals, history, budgets, SafetyInv,
                PlanObeys, OutputsObey, ModeCurrent, NobodyWaits, LastObeyed, Quiet,
                NeverBothOn, Obeys, Publishing
  <2> QED BY <2>1, <2>2, <2>3, <2>4 DEF Next
<1> QED BY <1>1, <1>2, TypeInvCorrect, PTL DEF Spec

\* When Sync is idle and the last one succeeded, the outputs obey TargetState:
\* the Sync that follows every unlocked write makes up for the race.
THEOREM ModeObeyedHolds == Spec => []ModeObeyed
<1>1. SafetyInv => ModeObeyed
  BY DEF SafetyInv, LastObeyed, Obeys, ModeObeyed
<1> QED BY <1>1, SafetyInvCorrect, PTL

\* With a positive threshold, heating and cooling are never both left on by
\* calculateAndSetOutputs.
THEOREM InterlockHolds == Spec => []Interlock
<1>1. TypeInv /\ SafetyInv => Interlock
  <2> SUFFICES ASSUME TypeInv, SafetyInv, CoolingThreshold > 0,
                      synced /\ faults = 0 /\ holder = NoOne
               PROVE  ~(heat /\ cool)
    BY DEF Interlock
  <2>1. \A g \in Threads : pc[g] # "setCool"
    BY ThreadFacts DEF TypeInv, LockHeld, Locked, Publishing
  <2> QED BY <2>1 DEF SafetyInv, NeverBothOn
<1> QED BY <1>1, SafetyInvCorrect, PTL

\* The comparison in checkCoolingCondition never turns cooling on, whatever the
\* temperatures, the mode and the threshold, if that is positive.
THEOREM CoolingNeverStartsHolds == Spec => CoolingNeverStarts
<1>1. TypeInv /\ SafetyInv /\ [Next]_vars =>
          [CoolingThreshold > 0 /\ cool' => cool]_vars
  <2> SUFFICES ASSUME TypeInv, SafetyInv, Next, CoolingThreshold > 0, cool'
               PROVE  cool
    OBVIOUS
  <2> USE DEF targets, outputs, sensor, locals, history, budgets
  <2>1. CASE \E g \in Threads : ThreadStep(g)
    <3> PICK g \in Threads : ThreadStep(g)
      BY <2>1
    <3>1. CASE SetCool(g)
      BY <3>1 DEF SetCool, SafetyInv, PlanObeys
    <3>2. CASE ~SetCool(g)
      BY <3>2 DEF ThreadStep, StartSync, Acquire, LockedStep, ReadSensor, SwitchMode,
                  Decide, SetHeat, Publish, ShowTarget, ShowRunning, ShowState
    <3> QED BY <3>1, <3>2
  <2>2. CASE \E g \in HkClients : HkStep(g)
    BY <2>2 DEF HkStep, StoreTargetState, StoreTargetTemperature
  <2>3. CASE Environment
    BY <2>3 DEF Environment, HkTargetState, HkTargetTemperature, Reading, Expire
  <2> QED BY <2>1, <2>2, <2>3 DEF Next
<1> QED BY <1>1, SafetyInvCorrect, PTL DEF Spec, CoolingNeverStarts

-----------------------------------------------------------------------------
(* The heating does not chatter: what a Sync decides at a temperature that  *)
(* asks for no change is what is there.                                     *)

LEMMA TemperatureTypes ==
    ASSUME TypeInv
    PROVE  /\ CurrentTemperature \in Int /\ value \in Int /\ TargetTemperature \in Int
           /\ HeatingThreshold \in Int
BY TemperaturesAssumption, ThresholdsAssumption DEF TypeInv, TypeOK

\* The two bounds of the condition are those of the band.
LEMMA DemandIsMet ==
    ASSUME TypeInv, HeatingSettled, CurrentTemperature = value
    PROVE  HeatingCondition(heat) <=> heat
<1> USE TemperatureTypes
<1>1. CASE heat
  <2>1. value < TargetTemperature + HeatingThreshold
    BY <1>1 DEF HeatingSettled
  <2> QED BY <1>1, <2>1 DEF HeatingCondition
<1>2. CASE ~heat
  <2>1. ~(value < TargetTemperature - HeatingThreshold)
    BY <1>2 DEF HeatingSettled
  <2>2. ~(value < TargetTemperature + (-HeatingThreshold))
    BY <2>1
  <2> QED BY <1>2, <2>2 DEF HeatingCondition
<1> QED BY <1>1, <1>2

\* A step that leaves targets, temperature and heating as they are.
LEMMA SettledKept ==
    ASSUME HeatingSettled,
           UNCHANGED <<TargetState, TargetTemperature, value, stamp, matched, heat>>,
           \A h \in HkClients : pc'[h] \notin {"storeState", "storeTemperature"},
           \A h \in Threads :
              /\ pc'[h] \in {"switch", "decide"} => CurrentTemperature' = value
              /\ pc'[h] = "decide" => mode' = TargetState
              /\ pc'[h] = "setHeat" => plan'.heat = OnOff(heat)
    PROVE  HeatingSettled' /\ heat' = heat
BY DEF HeatingSettled

\* A goroutine that leaves Sync, or is past the heating, while it has the lock.
LEMMA PastHeating ==
    ASSUME TypeInv, HeatingSettled, NEW g \in Threads, pc[g] \in Locked,
           UNCHANGED <<TargetState, TargetTemperature, value, stamp, matched, heat>>,
           \/ \E outcome \in {"ok", "failed"} : Release(g, outcome)
           \/ OutputsSet(g)
           \/ \E label \in {"setCool"} \cup Publishing : Goto(g, label)
    PROVE  HeatingSettled' /\ heat' = heat
<1> USE ThreadFacts
<1>1. /\ pc'[g] \in {"idle", "setCool"} \cup Publishing
      /\ \A h \in Threads : h # g => pc'[h] = pc[h]
  BY DEF OutputsSet, Release, Goto, TypeInv, TypeOK, Publishing
<1>2. \A h \in Threads : h # g => pc[h] \notin Locked
  BY DEF TypeInv, LockHeld
<1>3. \A h \in Threads : pc'[h] \notin {"switch", "decide", "setHeat"}
  BY <1>1, <1>2 DEF Locked, Publishing
<1>4. \A h \in HkClients : pc'[h] \notin {"storeState", "storeTemperature"}
  BY <1>1 DEF HeatingSettled, Publishing
<1> QED BY <1>3, <1>4, SettledKept

\* A step of a Sync by the goroutine that has the lock.
LEMMA LockedStepSettled ==
    ASSUME TypeInv, HeatingSettled, NEW g \in Threads, LockedStep(g),
           UNCHANGED <<requests, readings, stamp, faults>>
    PROVE  HeatingSettled' /\ heat' = heat
<1> USE ThreadFacts DEF targets, outputs, sensor, locals, history, budgets
<1>0. pc[g] \in Locked
  BY DEF LockedStep, ReadSensor, SwitchMode, Decide, SetHeat, SetCool, Publish,
         ShowTarget, ShowRunning, ShowState, Locked, Publishing
<1>1. \A h \in Threads : h # g => pc[h] \notin Locked
  BY <1>0 DEF TypeInv, LockHeld
<1>2. pc \in [Threads -> Labels] /\ faults \in Nat /\ heat \in BOOLEAN /\ cool \in BOOLEAN
  BY DEF TypeInv, TypeOK
<1>3. ASSUME NEW label \in {"switch", "decide", "setHeat"}, Goto(g, label),
             UNCHANGED <<TargetState, TargetTemperature, value, stamp, matched, heat>>,
             label \in {"switch", "decide"} => CurrentTemperature' = value,
             label = "decide" => mode' = TargetState,
             label = "setHeat" => plan'.heat = OnOff(heat)
      PROVE  HeatingSettled' /\ heat' = heat
  <2>1. pc'[g] = label /\ \A h \in Threads : h # g => pc'[h] = pc[h]
    BY <1>2, <1>3 DEF Goto
  <2>2. \A h \in Threads : h # g => pc'[h] \notin {"switch", "decide", "setHeat"}
    BY <1>1, <2>1 DEF Locked, Publishing
  <2>3. \A h \in HkClients : pc'[h] \notin {"storeState", "storeTemperature"}
    BY <1>3, <2>1 DEF HeatingSettled
  <2> QED BY <1>3, <2>1, <2>2, <2>3, SettledKept
<1>4. CASE ReadSensor(g)
  <2>1. matched /\ stamp = "fresh"
    BY DEF HeatingSettled
  <2>2. Goto(g, "switch") /\ CurrentTemperature' = value
    BY <1>4, <2>1 DEF ReadSensor
  <2> QED BY <1>3, <1>4, <2>2 DEF ReadSensor
<1>5. CASE SwitchMode(g)
  <2>1. CurrentTemperature = value
    BY <1>5 DEF SwitchMode, HeatingSettled
  <2> QED BY <1>3, <1>5, <2>1 DEF SwitchMode
<1>6. CASE Decide(g)
  <2>1. CurrentTemperature = value /\ mode = TargetState /\ mode \in {1, 3}
    BY <1>6 DEF Decide, HeatingSettled
  <2>2. PICK h \in BOOLEAN, c \in BOOLEAN :
            LET orders == OrdersFor(mode, HeatingCondition(h), CoolingCondition(c))
            IN /\ faults' = IF <<h, c>> = <<heat, cool>> THEN faults ELSE faults + 1
               /\ IF orders = Keep
                  THEN OutputsSet(g)
                  ELSE /\ plan' = orders
                       /\ Goto(g, "setHeat")
                       /\ UNCHANGED <<holder, mode, shown, history>>
    BY <1>2, <1>6 DEF Decide, ReadBack
  <2>3. <<h, c>> = <<heat, cool>>
    BY <1>2, <2>2
  <2>4. h = heat
    BY <2>3
  <2> DEFINE orders == OrdersFor(mode, HeatingCondition(h), CoolingCondition(c))
  <2>5. HeatingCondition(h) <=> heat
    BY <2>1, <2>4, DemandIsMet
  <2>6. CASE orders = Keep
    BY <1>0, <1>6, <2>2, <2>6, PastHeating DEF Decide
  <2>7. CASE orders # Keep
    <3>1. orders.heat = OnOff(heat)
      BY <2>1, <2>5, <2>7 DEF OrdersFor, OnOff
    <3> QED BY <1>3, <1>6, <2>2, <2>7, <3>1 DEF Decide
  <2> QED BY <2>6, <2>7
<1>7. CASE SetHeat(g)
  <2>1. plan.heat = OnOff(heat)
    BY <1>7 DEF SetHeat, HeatingSettled
  <2>2. /\ heat' = (plan.heat = "on")
        /\ OutputsSet(g) \/ Goto(g, "setCool")
    BY <1>2, <1>7 DEF SetHeat
  <2>3. heat' = heat
    BY <1>2, <2>1, <2>2 DEF OnOff
  <2> QED BY <1>0, <1>7, <2>2, <2>3, PastHeating DEF SetHeat
<1>8. CASE SetCool(g)
  <2>1. OutputsSet(g)
    BY <1>2, <1>8 DEF SetCool
  <2> QED BY <1>0, <1>8, <2>1, PastHeating DEF SetCool
<1>9. CASE Publish(g) \/ ShowTarget(g) \/ ShowRunning(g) \/ ShowState(g)
  BY <1>0, <1>9, PastHeating
     DEF Publish, ShowTarget, ShowRunning, ShowState, Publishing
<1> QED BY <1>4, <1>5, <1>6, <1>7, <1>8, <1>9 DEF LockedStep

\* With any targets, temperatures and threshold, and any number of goroutines
\* that call Sync, a heating that the temperature asks no change of is not
\* switched: the two bounds of checkHeatingCondition make a band, and no Sync
\* sets the outputs by what another has read.
THEOREM NoChatterHolds == Spec => NoChatter
<1>1. TypeInv /\ [Next]_vars =>
        [HeatingSettled /\ UNCHANGED <<requests, readings, stamp, faults>>
            => HeatingSettled' /\ heat' = heat]_vars
  <2> SUFFICES ASSUME TypeInv, Next, HeatingSettled,
                      UNCHANGED <<requests, readings, stamp, faults>>
               PROVE  HeatingSettled' /\ heat' = heat
    OBVIOUS
  <2> USE ThreadFacts DEF targets, outputs, sensor, locals, history, budgets
  <2>0. pc \in [Threads -> Labels] /\ requests \in Nat /\ readings \in Nat
    BY DEF TypeInv, TypeOK
  <2>1. ASSUME NEW g \in Threads, StartSync(g) \/ Acquire(g)
        PROVE  HeatingSettled' /\ heat' = heat
    <3>1. pc'[g] \in {"acquire", "read"} /\ \A h \in Threads : h # g => pc'[h] = pc[h]
      BY <2>0, <2>1 DEF StartSync, Acquire, Goto
    <3>2. UNCHANGED <<TargetState, TargetTemperature, value, stamp, matched, heat,
                      CurrentTemperature, mode, plan>>
      BY <2>1 DEF StartSync, Acquire
    <3> QED BY <3>1, <3>2, SettledKept DEF HeatingSettled
  <2>2. CASE \E g \in Threads : ThreadStep(g)
    BY <2>1, <2>2, LockedStepSettled DEF ThreadStep
  <2>3. CASE \E g \in HkClients : HkStep(g)
    BY <2>3 DEF HkStep, StoreTargetState, StoreTargetTemperature, HeatingSettled
  <2>4. CASE Environment
    <3>1. requests' # requests + 1 /\ readings' # readings + 1
      BY <2>0
    <3>2. ~Expire
      BY DEF Expire
    <3> QED BY <2>4, <3>1, <3>2
            DEF Environment, HkTargetState, HkTargetTemperature, Reading, Request
  <2> QED BY <2>2, <2>3, <2>4 DEF Next
<1> QED BY <1>1, TypeInvCorrect, PTL DEF Spec, NoChatter

=============================================================================

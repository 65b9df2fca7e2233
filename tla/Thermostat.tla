----------------------------- MODULE Thermostat -----------------------------
(***************************************************************************)
(* A thermostat of swkit: a heating output, an optional cooling output and *)
(* a temperature sensor another goroutine feeds.                           *)
(*                                                                         *)
(* Sync runs under the lock of the thermostat, called by the ticker        *)
(* goroutine and, after an unlocked write of TargetState or                *)
(* TargetTemperature, by the HomeKit connections.  A step is one access to *)
(* what another goroutine may change between: the targets, the sensor, the *)
(* lock, an output, HomeKit.  Temperatures are integers, in any unit.      *)
(***************************************************************************)
EXTENDS Integers

CONSTANTS
    Ticker,             \* the goroutine of SwKit.StartTicker
    HkClients,          \* goroutines that serve HomeKit connections
    NoOne,              \* the holder of the lock when it is free
    Readings,           \* what the sensor may measure
    Targets,            \* what a controller may ask for
    HeatingThreshold, CoolingThreshold, CoolingEnabled, DisableHomekit,
    MinTemperature, MaxTemperature,  \* thermostatMinimumTemperature, ...Maximum...
    MaxRequests,        \* bound: HomeKit writes of a run
    MaxReadings,        \* bound: sensor readings, and expiries, of a run
    MaxFaults           \* bound: output calls that return an error in a run

Threads == {Ticker} \cup HkClients

\* HomeKit's TargetHeatingCoolingState: off, heat, cool, auto.
Modes == 0..3

\* The modes a thermostat without a cooling output is never in.
AllowedModes == IF CoolingEnabled THEN Modes ELSE {0, 1}

ASSUME ThreadsAssumption == Ticker \notin HkClients /\ NoOne \notin Threads

ASSUME TemperaturesAssumption ==
    /\ 0 \in Readings /\ Readings \subseteq Int /\ Targets \subseteq Int
    /\ MinTemperature \in Int /\ MaxTemperature \in Int
    /\ MinTemperature < MaxTemperature

\* Init replaces a threshold of 0 by a positive default; nothing refuses a
\* negative one in the configuration.
ASSUME ThresholdsAssumption ==
    /\ HeatingThreshold \in Int \ {0}
    /\ CoolingThreshold \in Int \ {0}

ASSUME SwitchesAssumption == CoolingEnabled \in BOOLEAN /\ DisableHomekit \in BOOLEAN

ASSUME BoundsAssumption ==
    MaxRequests \in Nat /\ MaxReadings \in Nat /\ MaxFaults \in Nat

VARIABLES
    TargetState, TargetTemperature, CurrentTemperature,
    heat, cool,     \* the two outputs, as the driver reads them back
    holder,         \* who holds th.lock
    pc,             \* what every goroutine does next
    arg,            \* the argument of the HomeKit callback it is in
    mode,           \* the TargetState that calculateAndSetOutputs switches on
    plan,           \* the outputs it then sets: "on", "off" or "keep"
    value, stamp,   \* the sensor: its value, and how old its lastSync is
    matched,        \* MatchSensors found the sensor
    hk,             \* the characteristics HomeKit shows
    shown,          \* the arguments of the SetValue calls that publish the targets
    lastSync,       \* history: how the last Sync ended
    synced,         \* history: some Sync has set the outputs
    requests, readings, faults

targets == <<TargetState, TargetTemperature>>
outputs == <<heat, cool>>
sensor == <<value, stamp, matched>>
locals == <<mode, plan, shown>>
history == <<lastSync, synced>>
budgets == <<requests, readings, faults>>
vars == <<targets, CurrentTemperature, outputs, holder, pc, arg, locals, sensor,
          hk, history, budgets>>

\* The labels of a goroutine inside Sync, after the lock is taken.
Publishing == {"publish", "showTarget", "showRunning", "showState"}
Locked == {"read", "switch", "decide", "setHeat", "setCool"} \cup Publishing
Labels == {"idle", "storeState", "storeTemperature", "acquire"} \cup Locked

Orders == {"on", "off", "keep"}
Keep == [heat |-> "keep", cool |-> "keep"]
NotShown == [target |-> 0, state |-> 0]

TypeOK ==
    /\ TargetState \in AllowedModes
    /\ TargetTemperature \in Targets
    /\ CurrentTemperature \in Readings
    /\ heat \in BOOLEAN /\ cool \in BOOLEAN
    /\ holder \in Threads \cup {NoOne}
    /\ pc \in [Threads -> Labels]
    /\ arg \in [HkClients -> Modes \cup Targets]
    /\ mode \in AllowedModes
    /\ plan \in [heat : Orders, cool : Orders]
    /\ value \in Readings
    /\ stamp \in {"never", "fresh", "stale"}
    /\ matched \in BOOLEAN
    /\ hk \in [current : Readings, target : Targets \cup {0}, running : 0..2,
               state : Modes, fault : BOOLEAN]
    /\ shown \in [target : Targets \cup {0}, state : Modes]
    /\ lastSync \in {"none", "ok", "failed"}
    /\ synced \in BOOLEAN
    /\ requests \in 0..MaxRequests
    /\ readings \in 0..MaxReadings
    /\ faults \in 0..MaxFaults

-----------------------------------------------------------------------------

\* After Init and MatchSensors: the targets are those of the configuration,
\* the outputs are as the last run of the program left their pins.
Init ==
    /\ TargetState \in AllowedModes /\ TargetTemperature \in Targets
    /\ CurrentTemperature = 0
    /\ heat \in BOOLEAN /\ cool \in (IF CoolingEnabled THEN BOOLEAN ELSE {FALSE})
    /\ holder = NoOne
    /\ pc = [g \in Threads |-> "idle"]
    /\ arg = [g \in HkClients |-> 0]
    /\ mode = 0 /\ plan = Keep /\ shown = NotShown
    /\ value = 0 /\ stamp = "never" /\ matched \in BOOLEAN
    /\ hk = [current |-> 0, target |-> 0, running |-> 0, state |-> 0, fault |-> FALSE]
    /\ lastSync = "none" /\ synced = FALSE
    /\ requests = 0 /\ readings = 0 /\ faults = 0

Goto(g, label) == pc' = [pc EXCEPT ![g] = label]

\* The deferred Unlock, when Sync returns.
Release(g, outcome) ==
    /\ Goto(g, "idle")
    /\ holder' = NoOne
    /\ mode' = 0 /\ plan' = Keep /\ shown' = NotShown
    /\ lastSync' = outcome

ShowFault(err) == hk' = [hk EXCEPT !.fault = IF DisableHomekit THEN @ ELSE err]

\* An early return of Sync with an error, which the status fault reports.
Fail(g) == Release(g, "failed") /\ ShowFault(TRUE) /\ UNCHANGED synced

-----------------------------------------------------------------------------
(* Sync.                                                                   *)

StartSync(g) ==
    /\ g = Ticker /\ pc[g] = "idle"
    /\ Goto(g, "acquire")
    /\ UNCHANGED <<targets, CurrentTemperature, outputs, holder, arg, locals,
                   sensor, hk, history, budgets>>

\* A faulty Sync that does not take the lock.
AcquireUnlocked(g) ==
    /\ pc[g] = "acquire"
    /\ holder' = g
    /\ Goto(g, "read")
    /\ UNCHANGED <<targets, CurrentTemperature, outputs, arg, locals, sensor, hk,
                   history, budgets>>

\* th.lock.Lock()
Acquire(g) ==
    /\ pc[g] = "acquire" /\ holder = NoOne
    /\ holder' = g
    /\ Goto(g, "read")
    /\ UNCHANGED <<targets, CurrentTemperature, outputs, arg, locals, sensor, hk,
                   history, budgets>>

\* The sensor is missing, or its value was never set or is over ten minutes
\* old: Sync returns and leaves the outputs alone.  GetValue returns 0 then.
ReadSensor(g) ==
    /\ pc[g] = "read"
    /\ CurrentTemperature' = IF ~matched THEN CurrentTemperature
                             ELSE IF stamp = "fresh" THEN value ELSE 0
    /\ IF matched /\ stamp = "fresh"
       THEN Goto(g, "switch") /\ UNCHANGED <<holder, locals, hk, history>>
       ELSE Fail(g)
    /\ UNCHANGED <<targets, outputs, arg, sensor, budgets>>

\* switch th.TargetState
SwitchMode(g) ==
    /\ pc[g] = "switch"
    /\ mode' = TargetState
    /\ Goto(g, "decide")
    /\ UNCHANGED <<targets, CurrentTemperature, outputs, holder, arg, plan, shown,
                   sensor, hk, history, budgets>>

\* A faulty checkHeatingCondition that compares the wrong way round.
HeatingConditionSwapped(on) ==
    CurrentTemperature >= TargetTemperature + (IF on THEN HeatingThreshold
                                               ELSE -HeatingThreshold)

\* A faulty checkHeatingCondition without a hysteresis.
HeatingConditionOneBound(on) == CurrentTemperature < TargetTemperature - HeatingThreshold

\* checkHeatingCondition, given what the heating output reads back.
HeatingCondition(on) ==
    CurrentTemperature < TargetTemperature + (IF on THEN HeatingThreshold
                                              ELSE -HeatingThreshold)

\* checkCoolingCondition with the comparison its name calls for.
CoolingConditionOnTarget(on) ==
    CurrentTemperature > TargetTemperature + (IF on THEN -CoolingThreshold
                                              ELSE CoolingThreshold)

\* checkCoolingCondition, given what the cooling output reads back.  It
\* compares the current temperature with itself.
CoolingCondition(on) ==
    CurrentTemperature > CurrentTemperature + (IF on THEN -CoolingThreshold
                                               ELSE CoolingThreshold)

OnOff(b) == IF b THEN "on" ELSE "off"
CoolOff == IF CoolingEnabled THEN "off" ELSE "keep"

\* A faulty automatic mode that leaves the cooling output to itself.
OrdersUninterlocked(m, heating, cooling) ==
    CASE m = 0 -> [heat |-> "off", cool |-> CoolOff]
      [] m = 1 -> [heat |-> OnOff(heating), cool |-> CoolOff]
      [] m = 2 -> [heat |-> "off", cool |-> OnOff(cooling)]
      [] m = 3 -> IF heating THEN [heat |-> "on", cool |-> "keep"]
                  ELSE IF cooling THEN [heat |-> "off", cool |-> "on"] ELSE Keep

\* What calculateAndSetOutputs sets in mode m, the heating output first.
OrdersFor(m, heating, cooling) ==
    CASE m = 0 -> [heat |-> "off", cool |-> CoolOff]
      [] m = 1 -> [heat |-> OnOff(heating), cool |-> CoolOff]
      [] m = 2 -> [heat |-> "off", cool |-> OnOff(cooling)]
      [] m = 3 -> IF heating THEN [heat |-> "on", cool |-> "off"]
                  ELSE IF cooling THEN [heat |-> "off", cool |-> "on"] ELSE Keep

\* The outputs are set: without HomeKit Sync returns here.
OutputsSet(g) ==
    /\ synced' = TRUE
    /\ IF DisableHomekit
       THEN Release(g, "ok")
       ELSE Goto(g, "publish") /\ UNCHANGED <<holder, locals, lastSync>>

\* What an output that is on or off may read back as: one that fails to counts
\* as off.
ReadBack(on) == {on, FALSE}

\* The conditions that the mode consults are evaluated; an error in reading an
\* output back is dropped.
Decide(g) ==
    /\ pc[g] = "decide"
    /\ \E h \in IF mode \in {1, 3} THEN ReadBack(heat) ELSE {heat},
          c \in IF mode \in {2, 3} THEN ReadBack(cool) ELSE {cool} :
          LET orders == OrdersFor(mode, HeatingCondition(h), CoolingCondition(c))
          IN /\ faults' = IF <<h, c>> = <<heat, cool>> THEN faults ELSE faults + 1
             /\ faults' =< MaxFaults
             /\ IF orders = Keep
                THEN OutputsSet(g)
                ELSE /\ plan' = orders
                     /\ Goto(g, "setHeat")
                     /\ UNCHANGED <<holder, mode, shown, history>>
    /\ UNCHANGED <<targets, CurrentTemperature, outputs, arg, sensor, hk,
                   requests, readings>>

\* heatOut.Set, whose error ends the Sync before the cooling output.
SetHeat(g) ==
    /\ pc[g] = "setHeat"
    /\ \/ /\ heat' = (plan.heat = "on")
          /\ IF plan.cool = "keep"
             THEN OutputsSet(g)
             ELSE Goto(g, "setCool") /\ UNCHANGED <<holder, locals, history>>
          /\ UNCHANGED <<hk, faults>>
       \/ /\ faults < MaxFaults
          /\ faults' = faults + 1
          /\ Fail(g)
          /\ UNCHANGED heat
    /\ UNCHANGED <<targets, CurrentTemperature, cool, arg, sensor, requests,
                   readings>>

\* coolOut.Set
SetCool(g) ==
    /\ pc[g] = "setCool"
    /\ \/ /\ cool' = (plan.cool = "on")
          /\ OutputsSet(g)
          /\ UNCHANGED <<hk, faults>>
       \/ /\ faults < MaxFaults
          /\ faults' = faults + 1
          /\ Fail(g)
          /\ UNCHANGED cool
    /\ UNCHANGED <<targets, CurrentTemperature, heat, arg, sensor, requests,
                   readings>>

\* getCurrentHeatingCoolingState: cooling wins.
CurrentState(h, c) == IF CoolingEnabled /\ c THEN 2 ELSE IF h THEN 1 ELSE 0

\* CurrentTemperature is set, which only a Sync writes; then TargetTemperature
\* is read for the next call.
Publish(g) ==
    /\ pc[g] = "publish"
    /\ hk' = [hk EXCEPT !.current = CurrentTemperature]
    /\ shown' = [shown EXCEPT !.target = TargetTemperature]
    /\ Goto(g, "showTarget")
    /\ UNCHANGED <<targets, CurrentTemperature, outputs, holder, arg, mode, plan,
                   sensor, history, budgets>>

\* A faulty publication that sets the target temperature to what is shown.
SameTarget == hk.target

\* What the target temperature is set to.
NewTarget == shown.target

\* TargetTemperature is set: a controller may have written both since the read.
ShowTarget(g) ==
    /\ pc[g] = "showTarget"
    /\ hk' = [hk EXCEPT !.target = NewTarget]
    /\ Goto(g, "showRunning")
    /\ UNCHANGED <<targets, CurrentTemperature, outputs, holder, arg, locals,
                   sensor, history, budgets>>

\* The outputs, which only a Sync sets, are read back for what is shown as
\* running; then TargetState is read.
ShowRunning(g) ==
    /\ pc[g] = "showRunning"
    /\ \E h \in ReadBack(heat), c \in ReadBack(cool) :
          /\ faults' = IF <<h, c>> = <<heat, cool>> THEN faults ELSE faults + 1
          /\ faults' =< MaxFaults
          /\ hk' = [hk EXCEPT !.running = CurrentState(h, c), !.fault = FALSE]
    /\ shown' = [shown EXCEPT !.state = TargetState]
    /\ Goto(g, "showState")
    /\ UNCHANGED <<targets, CurrentTemperature, outputs, holder, arg, mode, plan,
                   sensor, history, requests, readings>>

\* TargetHeatingCoolingState is set, and the final status fault, which hides an
\* error in reading an output back; Sync returns.
ShowState(g) ==
    /\ pc[g] = "showState"
    /\ hk' = [hk EXCEPT !.state = shown.state, !.fault = FALSE]
    /\ Release(g, "ok")
    /\ UNCHANGED <<targets, CurrentTemperature, outputs, arg, sensor, synced,
                   budgets>>

-----------------------------------------------------------------------------
(* HomeKit: the library changes the characteristic, then calls the function *)
(* given to OnValueRemoteUpdate.                                            *)

Request == ~DisableHomekit /\ requests < MaxRequests /\ requests' = requests + 1

HkTargetState(g, m) ==
    /\ Request
    /\ pc[g] = "idle"
    /\ hk' = [hk EXCEPT !.state = m]
    /\ arg' = [arg EXCEPT ![g] = m]
    /\ Goto(g, "storeState")
    /\ UNCHANGED <<targets, CurrentTemperature, outputs, holder, locals, sensor,
                   history, readings, faults>>

HkTargetTemperature(g, t) ==
    /\ Request
    /\ pc[g] = "idle"
    /\ hk' = [hk EXCEPT !.target = t]
    /\ arg' = [arg EXCEPT ![g] = t]
    /\ Goto(g, "storeTemperature")
    /\ UNCHANGED <<targets, CurrentTemperature, outputs, holder, locals, sensor,
                   history, readings, faults>>

\* A faulty updateTargetState that accepts every mode.
AcceptedUnchecked(m) == m

\* Without a cooling output, cool is ignored and auto means heat.
Accepted(m) ==
    IF CoolingEnabled \/ m \in {0, 1} THEN m
    ELSE IF m = 2 THEN TargetState ELSE 1

\* updateTargetState writes without the lock, then calls Sync.
StoreTargetState(g) ==
    /\ pc[g] = "storeState"
    /\ TargetState' = Accepted(arg[g])
    /\ arg' = [arg EXCEPT ![g] = 0]
    /\ Goto(g, "acquire")
    /\ UNCHANGED <<TargetTemperature, CurrentTemperature, outputs, holder, locals,
                   sensor, hk, history, budgets>>

\* The range check of updateTargetTemperature, which nothing satisfies.
OutOfRange(t) == t < MinTemperature /\ t > MaxTemperature

\* updateTargetTemperature, likewise.
StoreTargetTemperature(g) ==
    /\ pc[g] = "storeTemperature"
    /\ arg' = [arg EXCEPT ![g] = 0]
    /\ IF OutOfRange(arg[g])
       THEN Goto(g, "idle") /\ UNCHANGED TargetTemperature
       ELSE Goto(g, "acquire") /\ TargetTemperature' = arg[g]
    /\ UNCHANGED <<TargetState, CurrentTemperature, outputs, holder, locals,
                   sensor, hk, history, budgets>>

-----------------------------------------------------------------------------
(* The sensor: its driver calls SetValue, and time passes.                 *)

Reading(t) ==
    /\ readings < MaxReadings /\ readings' = readings + 1
    /\ value' = t /\ stamp' = "fresh"
    /\ UNCHANGED <<targets, CurrentTemperature, outputs, holder, pc, arg, locals,
                   matched, hk, history, requests, faults>>

Expire ==
    /\ stamp = "fresh"
    /\ stamp' = "stale"
    /\ UNCHANGED <<targets, CurrentTemperature, outputs, holder, pc, arg, locals,
                   value, matched, hk, history, budgets>>

-----------------------------------------------------------------------------

LockedStep(g) ==
    \/ ReadSensor(g) \/ SwitchMode(g) \/ Decide(g)
    \/ SetHeat(g) \/ SetCool(g)
    \/ Publish(g) \/ ShowTarget(g) \/ ShowRunning(g) \/ ShowState(g)

ThreadStep(g) == StartSync(g) \/ Acquire(g) \/ LockedStep(g)

HkStep(g) == StoreTargetState(g) \/ StoreTargetTemperature(g)

Environment ==
    \/ \E g \in HkClients, m \in Modes : HkTargetState(g, m)
    \/ \E g \in HkClients, t \in Targets : HkTargetTemperature(g, t)
    \/ \E t \in Readings : Reading(t)
    \/ Expire

Next ==
    \/ \E g \in Threads : ThreadStep(g)
    \/ \E g \in HkClients : HkStep(g)
    \/ Environment

\* The Go scheduler runs every runnable goroutine, and a sync.Mutex in its
\* starvation mode is handed over in order: whoever waits gets the lock.
Fairness ==
    /\ \A g \in Threads : WF_vars(ThreadStep(g)) /\ SF_vars(Acquire(g))
    /\ \A g \in HkClients : WF_vars(HkStep(g))

Spec == Init /\ [][Next]_vars
FairSpec == Spec /\ Fairness

-----------------------------------------------------------------------------
(* Safety.                                                                 *)

\* Nobody is in Sync, and no HomeKit callback that has written a target waits
\* for its Sync.
Quiet == holder = NoOne /\ \A g \in HkClients : pc[g] # "acquire"

\* When the last Sync succeeded and no other is on its way, the outputs obey
\* the TargetState of this moment, however the unlocked write of it raced with
\* the Sync of the ticker: off means both off, heat means no cooling, cool
\* means no heating.
ModeObeyed ==
    Quiet /\ lastSync = "ok" =>
        /\ TargetState = 0 => ~heat /\ ~cool
        /\ TargetState = 1 => ~cool
        /\ TargetState = 2 => ~heat

\* Once a Sync has set the outputs, and unless an output call failed, heating
\* and cooling are never both left on, in any mode, even if the program
\* started with both on.  (With a negative threshold the comparison in
\* checkCoolingCondition lets auto mode leave them on.)
Interlock ==
    CoolingThreshold > 0 /\ synced /\ faults = 0 /\ holder = NoOne
        => ~(heat /\ cool)

\* With a positive threshold no Sync ever turns cooling on, in any mode and at
\* any temperature, because of the comparison in checkCoolingCondition.
CoolingNeverStarts == [][CoolingThreshold > 0 /\ cool' => cool]_vars

\* In heat or auto mode, with a fresh temperature that asks for no change: the
\* heating is on below the band of the threshold, off above it, and either
\* inside; and the Sync under way has read that temperature and mode.
HeatingSettled ==
    /\ TargetState \in {1, 3} /\ matched /\ stamp = "fresh"
    /\ value < TargetTemperature - HeatingThreshold => heat
    /\ value >= TargetTemperature + HeatingThreshold => ~heat
    /\ \A g \in HkClients : pc[g] \notin {"storeState", "storeTemperature"}
    /\ \A g \in Threads :
          /\ pc[g] \in {"switch", "decide"} => CurrentTemperature = value
          /\ pc[g] = "decide" => mode = TargetState
          /\ pc[g] = "setHeat" => plan.heat = OnOff(heat)

\* The heating does not chatter: as long as no target, reading or error comes,
\* no Sync of the ticker or of a HomeKit connection switches it again.
NoChatter ==
    [][HeatingSettled /\ UNCHANGED <<requests, readings, stamp, faults>>
          => HeatingSettled' /\ heat' = heat]_vars

-----------------------------------------------------------------------------
(* Liveness.                                                               *)

SensorSettles == <>[](matched /\ stamp = "fresh")

\* In heat mode with a live sensor and a positive threshold, a room below the
\* band of the threshold ends up heated and a room above it not.
HeatingFollowsDemand ==
    HeatingThreshold > 0 /\ SensorSettles =>
        /\ <>[](TargetState = 1 /\ value < TargetTemperature - HeatingThreshold)
               => <>[]heat
        /\ <>[](TargetState = 1 /\ value >= TargetTemperature + HeatingThreshold)
               => <>[]~heat

\* With a live sensor HomeKit ends up showing the targets in force, also where
\* it asked for others (cool or auto without a cooling output), and no fault.
HkShowsTargets ==
    SensorSettles => <>[](/\ hk.state = TargetState /\ hk.target = TargetTemperature
                          /\ hk.current = value /\ ~hk.fault)

\* A controller that turns off a thermostat whose last Sync succeeded turns the
\* heating off, unless it is turned on again: updateTargetState has written the
\* mode and goes on to its own Sync.
OffStopsHeating ==
    \A g \in HkClients :
        lastSync = "ok" /\ holder = NoOne /\ pc[g] = "acquire" /\ TargetState = 0
            ~> (~heat \/ TargetState # 0)

=============================================================================

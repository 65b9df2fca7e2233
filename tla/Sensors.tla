------------------------------ MODULE Sensors -------------------------------
(***************************************************************************)
(* Temperatures: the sensor ticker, the 1-wire and InfluxDB drivers, and   *)
(* the temperature sensors they fill, which the ticker shows in HomeKit    *)
(* and thermostats read without a lock.                                    *)
(*                                                                         *)
(* Time passes in ticks, one period of the sensor ticker each; code takes  *)
(* no time but for a query to the database.  A temperature is its age: how *)
(* long ago it was measured.  The word-by-word copy of a time.Time is left *)
(* out: time.Since uses one word of it.                                    *)
(***************************************************************************)
EXTENDS Integers

CONSTANTS
    Wires,          \* the sensors of the 1-wire driver
    Influxes,       \* the sensors of the InfluxDB driver
    Series,         \* the tables of the query's result
    Matches,        \* the series whose tags a sensor of Influxes matches
    Readers,        \* the goroutines that call GetValue
    Old,            \* oldDataDuration, in ticks
    Range,          \* the range of the query: how old a record may be
    QueryTime,      \* how long a query may take
    MaxChanges      \* bound: sensors that die or come back in a run

Sensors == Wires \cup Influxes

\* A sensor without tags matches every series.
ASSUME SensorsAssumption ==
    /\ Wires \cap (Influxes \cup Series) = {}
    /\ Matches \in [Influxes -> SUBSET Series]

ASSUME TimesAssumption ==
    Old \in Nat /\ Range \in Nat /\ QueryTime \in Nat /\ MaxChanges \in Nat

Expired == Old + 1          \* any age beyond Old
Never == Old + 2            \* the age of a zero lastSync

\* How old the temperature of a fresh sensor may be, and that of one shown
\* without a fault: it was fresh one round of the ticker ago.
Freshest(s) == IF s \in Wires THEN Old ELSE Old + Range + QueryTime
Shown(s) == Freshest(s) + 1 + QueryTime
Oldest == Old + Range + 2 * QueryTime + 2

VARIABLES
    live,           \* the sensors and the series that have temperatures
    lastSync,       \* how long ago that is, of every sensor
    value,          \* how long ago the temperature in value was measured
    shown, fault,   \* CurrentTemperature, likewise, and StatusFault in HomeKit
    due,            \* the ticker's channel holds a tick
    pc,             \* what the goroutine of the ticker does
    drivers,        \* the drivers it has still to sync
    todo,           \* the sensors, or the series, the loop has still to do
    record,         \* the age of the record at hand
    filled,         \* the sensors that match it, still to be filled
    setting,        \* the one SetValue is in the middle of
    showing,        \* the one whose Sync is between its writes to HomeKit
    elapsed,        \* since the query was sent
    reading,        \* the call of every reader: its sensor and its place
    changes

ticker == <<due, pc, drivers, todo, record, filled, setting, showing, elapsed>>
hk == <<shown, fault>>
vars == <<live, lastSync, value, hk, ticker, reading, changes>>

NoCall == [sensor |-> {}, at |-> "idle"]
Calls == [sensor : {{s} : s \in Sensors}, at : {"since", "value"}]

TypeOK ==
    /\ live \subseteq Wires \cup Series
    /\ lastSync \in [Sensors -> 0..Never]
    /\ value \in [Sensors -> 0..Oldest] /\ shown \in [Sensors -> 0..Oldest]
    /\ fault \in [Sensors -> BOOLEAN]
    /\ due \in BOOLEAN
    /\ pc \in {"idle", "drivers", "wire", "query", "influx", "set", "finish",
              "show", "showValue"}
    /\ drivers \subseteq {"wire", "influx"}
    /\ todo \subseteq Sensors \cup Series /\ showing \subseteq Sensors
    /\ filled \cup setting \subseteq Wires \/ filled \cup setting \subseteq Influxes
    /\ record \in 0..Range + QueryTime /\ elapsed \in 0..QueryTime
    /\ reading \in [Readers -> Calls \cup {NoCall}]
    /\ changes \in 0..MaxChanges

-----------------------------------------------------------------------------

\* TemperatureSensor.Init shows a fault; Setup has read every file and made a
\* query; the ticker syncs once before it waits.
Init ==
    /\ live = Wires \cup Series
    /\ lastSync = [s \in Sensors |-> Never] /\ value = [s \in Sensors |-> Oldest]
    /\ shown = [s \in Sensors |-> Oldest] /\ fault = [s \in Sensors |-> TRUE]
    /\ due = TRUE /\ pc = "idle"
    /\ drivers = {} /\ todo = {} /\ record = 0 /\ filled = {} /\ setting = {}
    /\ showing = {} /\ elapsed = 0
    /\ reading = [r \in Readers |-> NoCall]
    /\ changes = 0

\* syncSensorDriversAndSensors: the drivers first, in the order of a Go map.
StartRound ==
    /\ pc = "idle" /\ due
    /\ due' = FALSE /\ pc' = "drivers" /\ drivers' = {"wire", "influx"}
    /\ UNCHANGED <<live, lastSync, value, hk, todo, record, filled, setting, showing,
                   elapsed, reading, changes>>

SyncDriver(d) ==
    /\ pc = "drivers" /\ d \in drivers /\ drivers' = drivers \ {d}
    /\ IF d = "wire" THEN pc' = "wire" /\ todo' = Wires
                     ELSE pc' = "query" /\ todo' = {}
    /\ UNCHANGED <<live, lastSync, value, hk, due, record, filled, setting, showing,
                   elapsed, reading, changes>>

\* The Sync of a driver returns, with an error or without: main logs it.
DriverDone ==
    /\ pc' = "drivers" /\ todo' = {} /\ elapsed' = 0 /\ record' = 0
    /\ UNCHANGED filled

-----------------------------------------------------------------------------
(* Wire.Sync and InfluxSensors.Sync.                                       *)

\* A loop in the order of the configuration; for ReadFile a fault.
NextConfigured(s) == s = CHOOSE x \in todo : TRUE

\* The sensors come in the random order of a Go map.
NextInMap(s) == s \in todo

\* The file of the sensor is read: it is there and has a number, within the
\* bounds if they are checked; or else Sync returns.
ReadFile(s) ==
    /\ pc = "wire" /\ todo # {} /\ NextInMap(s)
    /\ IF s \in live
       THEN /\ todo' = todo \ {s} /\ filled' = {s} /\ record' = 0 /\ pc' = "set"
            /\ UNCHANGED elapsed
       ELSE DriverDone
    /\ UNCHANGED <<live, lastSync, value, hk, due, drivers, setting, showing, reading,
                   changes>>

\* The query returns the live series, or fails.
Query ==
    /\ pc = "query"
    /\ \/ pc' = "influx" /\ todo' = live \cap Series /\ UNCHANGED <<record, filled, elapsed>>
       \/ DriverDone
    /\ UNCHANGED <<live, lastSync, value, hk, due, drivers, setting, showing, reading,
                   changes>>

\* A faulty InfluxSensors that fills the sensors of every driver.
MatchedEverywhere(g) == {s \in Sensors : s \in Influxes => g \in Matches[s]}

Matched(g) == {s \in Influxes : g \in Matches[s]}

\* A record of series g, measured at most Range before the query; every sensor
\* that matches gets it.  A value that is no number, or the end of the
\* connection, is the end of Sync.
NextRecord(g) ==
    /\ pc = "influx" /\ g \in todo
    /\ \/ /\ todo' = todo \ {g}
          /\ record' \in 0..Range + elapsed
          /\ filled' = Matched(g)
          /\ pc' = IF filled' = {} THEN "influx" ELSE "set"
          /\ UNCHANGED elapsed
       \/ DriverDone
    /\ UNCHANGED <<live, lastSync, value, hk, due, drivers, setting, showing, reading,
                   changes>>

LoopDone ==
    /\ pc \in {"wire", "influx"} /\ todo = {}
    /\ DriverDone
    /\ UNCHANGED <<live, lastSync, value, hk, due, drivers, setting, showing, reading,
                   changes>>

-----------------------------------------------------------------------------
(* TemperatureSensor.SetValue, GetValue and Sync.                          *)

\* A faulty SetValue that stamps the sensor before it has the temperature.
StampFirst == <<"lastSync", "value">>

\* SetValue's two assignments.
SetValueOrder == <<"value", "lastSync">>

Assign(s, field) ==
    /\ value' = IF field = "value" THEN [value EXCEPT ![s] = record] ELSE value
    /\ lastSync' = IF field = "lastSync" THEN [lastSync EXCEPT ![s] = 0] ELSE lastSync

SetValue(s) ==
    /\ pc = "set" /\ s \in filled
    /\ Assign(s, SetValueOrder[1])
    /\ filled' = filled \ {s} /\ setting' = {s} /\ pc' = "finish"
    /\ UNCHANGED <<live, hk, due, drivers, todo, record, showing, elapsed, reading,
                   changes>>

FinishSetValue(s) ==
    /\ pc = "finish" /\ s \in setting
    /\ Assign(s, SetValueOrder[2])
    /\ setting' = {}
    /\ pc' = IF filled # {} THEN "set" ELSE IF s \in Wires THEN "wire" ELSE "influx"
    /\ UNCHANGED <<live, hk, due, drivers, todo, record, filled, showing, elapsed,
                   reading, changes>>

\* A faulty Sync that leaves StatusFault alone on an error.
FaultKept(s, err) == IF err THEN fault[s] ELSE FALSE

UpdatedFault(s, err) == err

\* The drivers are done: the Sync of every TemperatureSensor.
ShowSensors ==
    /\ pc = "drivers" /\ drivers = {}
    /\ pc' = "show" /\ todo' = Sensors
    /\ UNCHANGED <<live, lastSync, value, hk, due, drivers, record, filled, setting,
                   showing, elapsed, reading, changes>>

\* GetValue, which reads what only this goroutine writes, and StatusFault; the
\* sensors come in the order of the configuration.
ShowFault(s) ==
    /\ pc = "show" /\ s \in todo /\ NextConfigured(s) /\ todo' = todo \ {s}
    /\ fault' = [fault EXCEPT ![s] = UpdatedFault(s, lastSync[s] > Old)]
    /\ IF lastSync[s] > Old
       THEN UNCHANGED <<pc, showing>>
       ELSE pc' = "showValue" /\ showing' = {s}
    /\ UNCHANGED <<live, lastSync, value, shown, due, drivers, record, filled, setting,
                   elapsed, reading, changes>>

\* CurrentTemperature, after it.
ShowValue(s) ==
    /\ pc = "showValue" /\ s \in showing
    /\ shown' = [shown EXCEPT ![s] = value[s]]
    /\ pc' = "show" /\ showing' = {}
    /\ UNCHANGED <<live, lastSync, value, fault, due, drivers, todo, record, filled,
                   setting, elapsed, reading, changes>>

RoundDone ==
    /\ pc = "show" /\ todo = {} /\ pc' = "idle"
    /\ UNCHANGED <<live, lastSync, value, hk, due, drivers, todo, record, filled, setting,
                   showing, elapsed, reading, changes>>

\* A thermostat calls GetValue: lastSync.IsZero, then time.Since, then value.
CallGetValue(r, s) ==
    /\ reading[r] = NoCall /\ lastSync[s] # Never
    /\ reading' = [reading EXCEPT ![r] = [sensor |-> {s}, at |-> "since"]]
    /\ UNCHANGED <<live, lastSync, value, hk, ticker, changes>>

CheckAge(r, s) ==
    /\ reading[r] = [sensor |-> {s}, at |-> "since"]
    /\ reading' = [reading EXCEPT ![r] =
                      IF lastSync[s] > Old THEN NoCall ELSE [@ EXCEPT !.at = "value"]]
    /\ UNCHANGED <<live, lastSync, value, hk, ticker, changes>>

ReturnValue(r, s) ==
    /\ reading[r] = [sensor |-> {s}, at |-> "value"]
    /\ reading' = [reading EXCEPT ![r] = NoCall]
    /\ UNCHANGED <<live, lastSync, value, hk, ticker, changes>>

-----------------------------------------------------------------------------
(* The sensors and time.                                                   *)

\* A sensor is unplugged, or its temperatures get lost or out of bounds; or it
\* comes back.
Change(x) ==
    /\ changes < MaxChanges /\ changes' = changes + 1
    /\ live' = IF x \in live THEN live \ {x} ELSE live \cup {x}
    /\ UNCHANGED <<lastSync, value, hk, ticker, reading>>

Older(age, oldest) == IF age < oldest THEN age + 1 ELSE age

Tick ==
    /\ \/ pc = "idle" /\ ~due /\ UNCHANGED elapsed
       \/ pc = "query" /\ elapsed < QueryTime /\ elapsed' = elapsed + 1
    /\ \A r \in Readers : reading[r] = NoCall
    /\ due' = TRUE
    /\ lastSync' = [s \in Sensors |->
                       IF lastSync[s] = Never THEN Never ELSE Older(lastSync[s], Expired)]
    /\ value' = [s \in Sensors |-> Older(value[s], Oldest)]
    /\ shown' = [s \in Sensors |-> Older(shown[s], Oldest)]
    /\ UNCHANGED <<live, fault, pc, drivers, todo, record, filled, setting, showing,
                   reading, changes>>

-----------------------------------------------------------------------------

TickerStep ==
    \/ StartRound \/ Query \/ LoopDone \/ ShowSensors \/ RoundDone
    \/ \E d \in drivers : SyncDriver(d)
    \/ \E s \in Wires : ReadFile(s)
    \/ \E g \in Series : NextRecord(g)
    \/ \E s \in Sensors : SetValue(s) \/ FinishSetValue(s) \/ ShowFault(s) \/ ShowValue(s)

GetValue(r) == \E s \in Sensors : CheckAge(r, s) \/ ReturnValue(r, s)

Next ==
    \/ TickerStep
    \/ \E r \in Readers : GetValue(r)
    \/ \E r \in Readers, s \in Sensors : CallGetValue(r, s)
    \/ \E x \in Wires \cup Series : Change(x)
    \/ Tick

\* Goroutines run, a query ends, time passes whatever the readers do; and in the
\* random order of a map no sensor comes after a dead one for ever.
Fairness ==
    /\ WF_vars(TickerStep) /\ SF_vars(Tick)
    /\ \A r \in Readers : WF_vars(GetValue(r))
    /\ \A s \in Wires : SF_vars(ReadFile(s))

Spec == Init /\ [][Next]_vars
FairSpec == Spec /\ Fairness

-----------------------------------------------------------------------------
(* Safety.                                                                 *)

\* A thermostat never gets a temperature that is too old, though nothing keeps
\* its GetValue and the SetValue of the ticker apart.  One from the database may
\* be older than oldDataDuration by the range of the query and its duration.
FreshData ==
    \A r \in Readers, s \in Sensors :
        reading[r] = [sensor |-> {s}, at |-> "value"] => value[s] =< Freshest(s)

\* HomeKit does not show a temperature without a fault for longer than until the
\* round of the ticker after it got too old.  The exception is a Sync between its
\* two writes: it clears the fault of a sensor that came back before it shows its
\* temperature, and what is shown with no fault until then can be of any age.
ShownIsRecent ==
    \A s \in Sensors : fault[s] \/ s \in showing \/ shown[s] =< Shown(s)

-----------------------------------------------------------------------------
(* Liveness.                                                               *)

Sources(s) == IF s \in Wires THEN {s} ELSE Matches[s]

\* A 1-wire sensor that works is read again and again, although a dead one ends
\* the Sync of all those after it.
WorkingAreRead == \A s \in Wires : <>[](s \in live) => []<>(lastSync[s] = 0)

\* A sensor that has no temperatures any more comes to show a fault.
DeadShowFault == \A s \in Sensors : <>[](Sources(s) \cap live = {}) => <>[]fault[s]

=============================================================================

---------------------------- MODULE SensorsProofs ----------------------------
(***************************************************************************)
(* How old a temperature can be, for any sensors, readers and times.  The  *)
(* age of a value follows the age of its stamp; what HomeKit shows is a    *)
(* round of the ticker older than what it was shown for.                   *)
(***************************************************************************)
EXTENDS Sensors, TLAPS

\* TypeOK in three parts.
Ages ==
    /\ lastSync \in [Sensors -> 0..Never]
    /\ value \in [Sensors -> 0..Oldest] /\ shown \in [Sensors -> 0..Oldest]
    /\ fault \in [Sensors -> BOOLEAN]

Places ==
    /\ live \subseteq Wires \cup Series
    /\ due \in BOOLEAN
    /\ pc \in {"idle", "drivers", "wire", "query", "influx", "set", "finish",
              "show", "showValue"}
    /\ drivers \subseteq {"wire", "influx"}
    /\ todo \subseteq Sensors \cup Series /\ showing \subseteq Sensors
    /\ filled \cup setting \subseteq Wires \/ filled \cup setting \subseteq Influxes
    /\ record \in 0..Range + QueryTime /\ elapsed \in 0..QueryTime
    /\ changes \in 0..MaxChanges

Reads == reading \in [Readers -> Calls \cup {NoCall}]

\* A loop over sensors to fill is left empty; a 1-wire sensor gets what was just
\* read; and the clock of the query only runs in the round of its driver.
LoopInv ==
    /\ pc \notin {"set", "finish"} => filled = {}
    /\ pc # "finish" => setting = {}
    /\ pc # "showValue" => showing = {}
    /\ \A s, t \in showing : s = t
    /\ pc \in {"show", "showValue"} => drivers = {}
    /\ pc \in {"idle", "drivers", "wire", "show", "showValue"} \/ "influx" \in drivers
          => elapsed = 0
    /\ pc = "query" => "influx" \notin drivers
    /\ \A s \in filled \cup setting : s \in Wires => record = 0 /\ elapsed = 0

\* How much older than its stamp a temperature may be.
Slack(s) == IF s \in Wires THEN 0 ELSE Range + QueryTime

StampInv ==
    \A s \in Sensors :
        /\ lastSync[s] =< Old => value[s] =< lastSync[s] + Slack(s)
        /\ s \in setting => value[s] =< Slack(s)
        /\ s \in showing => lastSync[s] =< Old

\* How long ago HomeKit was brought up to date.
Lag ==
    IF pc = "idle" THEN IF due THEN 1 ELSE 0
    ELSE IF "influx" \in drivers THEN 1
    ELSE IF pc = "query" THEN 1 + elapsed
    ELSE 1 + QueryTime

\* The same of one sensor: it is up to date when its Sync is done.
LagOf(s) == IF pc \in {"show", "showValue"} /\ s \notin todo THEN 0 ELSE Lag

ShownInv ==
    \A s \in Sensors : fault[s] \/ s \in showing \/ shown[s] =< Freshest(s) + LagOf(s)

Inv == Ages /\ Places /\ Reads /\ LoopInv /\ StampInv /\ FreshData /\ ShownInv

LEMMA TypeParts == TypeOK <=> Ages /\ Places /\ Reads
    BY DEF TypeOK, Ages, Places, Reads

LEMMA Times ==
    /\ Old \in Nat /\ Range \in Nat /\ QueryTime \in Nat /\ MaxChanges \in Nat
    /\ Oldest \in Nat /\ Expired \in Nat /\ Never \in Nat
    /\ \A s : Slack(s) \in Nat /\ Freshest(s) = Old + Slack(s)
    BY TimesAssumption DEF Oldest, Expired, Never, Slack, Freshest

\* The two assignments of SetValue.
LEMMA FirstAssigned ==
    ASSUME NEW s, Assign(s, SetValueOrder[1])
    PROVE  value' = [value EXCEPT ![s] = record] /\ lastSync' = lastSync
    BY DEF Assign, SetValueOrder

LEMMA SecondAssigned ==
    ASSUME NEW s, Assign(s, SetValueOrder[2])
    PROVE  value' = value /\ lastSync' = [lastSync EXCEPT ![s] = 0]
    BY DEF Assign, SetValueOrder

LEMMA OlderAge ==
    ASSUME NEW oldest \in Nat, NEW age \in 0..oldest
    PROVE  /\ Older(age, oldest) \in 0..oldest
           /\ Older(age, oldest) =< age + 1
           /\ Older(age, oldest) < oldest => Older(age, oldest) = age + 1
    BY DEF Older

LEMMA InitInv == Init => Inv
<1> SUFFICES ASSUME Init PROVE Inv
    OBVIOUS
<1> USE Times DEF Init
<1>1. Ages
    BY DEF Ages
<1>2. Places
    BY DEF Places, LoopInv, Sensors
<1>3. Reads
    BY DEF Reads, Calls, NoCall
<1>4. LoopInv
    BY DEF LoopInv, Places
<1>5. StampInv
    BY DEF StampInv, Ages, Never
<1>6. FreshData
    BY DEF FreshData, Ages, Reads, StampInv, Calls, NoCall
<1>7. ShownInv
    BY DEF ShownInv, LoopInv, Places, Ages, LagOf, Lag
<1> QED
    BY <1>1, <1>2, <1>3, <1>4, <1>5, <1>6, <1>7 DEF Inv

LEMMA StepInv == Inv /\ [Next]_vars => Inv'
<1> SUFFICES ASSUME Inv, [Next]_vars PROVE Inv'
    OBVIOUS
<1>a. Ages /\ Places /\ Reads /\ LoopInv /\ StampInv /\ FreshData /\ ShownInv
    BY DEF Inv
<1> USE Times DEF hk, ticker
<1>1. CASE StartRound
  <2>1. Ages'
    BY <1>1, <1>a DEF StartRound, Ages
  <2>2. Places'
    BY <1>1, <1>a DEF StartRound, Places, Sensors
  <2>3. Reads'
    BY <1>1, <1>a DEF StartRound, Reads
  <2>4. LoopInv'
    BY <1>1, <1>a DEF StartRound, LoopInv, Places
  <2>5. StampInv'
    BY <1>1, <1>a DEF StartRound, StampInv
  <2>6. FreshData'
    BY <1>1, <1>a DEF StartRound, FreshData
  <2>7. ShownInv'
    BY <1>1, <1>a DEF StartRound, ShownInv, LagOf, Lag
  <2> QED
    BY <2>1, <2>2, <2>3, <2>4, <2>5, <2>6, <2>7 DEF Inv
<1>2. CASE \E d \in drivers : SyncDriver(d)
  <2>1. Ages'
    BY <1>2, <1>a DEF SyncDriver, Ages
  <2>2. Places'
    BY <1>2, <1>a DEF SyncDriver, Places, Sensors
  <2>3. Reads'
    BY <1>2, <1>a DEF SyncDriver, Reads
  <2>4. LoopInv'
    BY <1>2, <1>a DEF SyncDriver, LoopInv, Places
  <2>5. StampInv'
    BY <1>2, <1>a DEF SyncDriver, StampInv
  <2>6. FreshData'
    BY <1>2, <1>a DEF SyncDriver, FreshData
  <2>7. ShownInv'
    BY <1>2, <1>a DEF SyncDriver, ShownInv, LoopInv, Places, Ages, LagOf, Lag
  <2> QED
    BY <2>1, <2>2, <2>3, <2>4, <2>5, <2>6, <2>7 DEF Inv
<1>3. CASE \E s \in Wires : ReadFile(s)
  <2>1. Ages'
    BY <1>3, <1>a DEF ReadFile, Ages
  <2>2. Places'
    BY <1>3, <1>a DEF ReadFile, DriverDone, NextInMap, Places, LoopInv, Sensors
  <2>3. Reads'
    BY <1>3, <1>a DEF ReadFile, Reads
  <2>4. LoopInv'
    BY <1>3, <1>a DEF ReadFile, DriverDone, NextInMap, LoopInv, Places
  <2>5. StampInv'
    BY <1>3, <1>a DEF ReadFile, StampInv
  <2>6. FreshData'
    BY <1>3, <1>a DEF ReadFile, FreshData
  <2>7. ShownInv'
    BY <1>3, <1>a DEF ReadFile, DriverDone, NextInMap, ShownInv, LagOf, Lag
  <2> QED
    BY <2>1, <2>2, <2>3, <2>4, <2>5, <2>6, <2>7 DEF Inv
<1>4. CASE Query
  <2>1. Ages'
    BY <1>4, <1>a DEF Query, Ages
  <2>2. Places'
    BY <1>4, <1>a DEF Query, DriverDone, Places, Sensors
  <2>3. Reads'
    BY <1>4, <1>a DEF Query, Reads
  <2>4. LoopInv'
    BY <1>4, <1>a DEF Query, DriverDone, LoopInv, Places
  <2>5. StampInv'
    BY <1>4, <1>a DEF Query, StampInv
  <2>6. FreshData'
    BY <1>4, <1>a DEF Query, FreshData
  <2>7. ShownInv'
    BY <1>4, <1>a DEF Query, DriverDone, ShownInv, LoopInv, Places, Ages, LagOf, Lag
  <2> QED
    BY <2>1, <2>2, <2>3, <2>4, <2>5, <2>6, <2>7 DEF Inv
<1>5. CASE \E g \in Series : NextRecord(g)
  <2>1. Ages'
    BY <1>5, <1>a DEF NextRecord, Ages
  <2>2. Places'
    BY <1>5, <1>a DEF NextRecord, DriverDone, Matched, Places, LoopInv, Sensors
  <2>3. Reads'
    BY <1>5, <1>a DEF NextRecord, Reads
  <2>4. LoopInv'
    <3> SUFFICES ASSUME NEW g \in Series, NextRecord(g) PROVE LoopInv'
      BY <1>5
    <3>1. filled' = {} \/ (filled' = Matched(g) /\ Matched(g) \cap Wires = {})
      BY <1>a, SensorsAssumption DEF NextRecord, DriverDone, LoopInv, Matched
    <3> QED
      BY <1>a, <3>1, SensorsAssumption DEF NextRecord, DriverDone, LoopInv, Places
  <2>5. StampInv'
    BY <1>5, <1>a DEF NextRecord, StampInv
  <2>6. FreshData'
    BY <1>5, <1>a DEF NextRecord, FreshData
  <2>7. ShownInv'
    BY <1>5, <1>a DEF NextRecord, DriverDone, Matched, ShownInv, LagOf, Lag
  <2> QED
    BY <2>1, <2>2, <2>3, <2>4, <2>5, <2>6, <2>7 DEF Inv
<1>6. CASE LoopDone
  <2>1. Ages'
    BY <1>6, <1>a DEF LoopDone, Ages
  <2>2. Places'
    BY <1>6, <1>a DEF LoopDone, DriverDone, Places, Sensors
  <2>3. Reads'
    BY <1>6, <1>a DEF LoopDone, Reads
  <2>4. LoopInv'
    BY <1>6, <1>a DEF LoopDone, DriverDone, LoopInv, Places
  <2>5. StampInv'
    BY <1>6, <1>a DEF LoopDone, StampInv
  <2>6. FreshData'
    BY <1>6, <1>a DEF LoopDone, FreshData
  <2>7. ShownInv'
    BY <1>6, <1>a DEF LoopDone, DriverDone, ShownInv, LagOf, Lag
  <2> QED
    BY <2>1, <2>2, <2>3, <2>4, <2>5, <2>6, <2>7 DEF Inv
<1>7. CASE \E s \in Sensors : SetValue(s)
  <2>1. Ages'
    BY <1>7, <1>a, FirstAssigned DEF SetValue, Ages, Places, Oldest
  <2>2. Places'
    BY <1>7, <1>a DEF SetValue, Places, Sensors
  <2>3. Reads'
    BY <1>7, <1>a DEF SetValue, Reads
  <2>4. LoopInv'
    BY <1>7, <1>a DEF SetValue, LoopInv, Places
  <2>5. StampInv'
    <3> SUFFICES ASSUME NEW s \in Sensors, SetValue(s) PROVE StampInv'
      BY <1>7
    <3>1. value' = [value EXCEPT ![s] = record] /\ lastSync' = lastSync /\ setting' = {s}
      BY FirstAssigned DEF SetValue
    <3>2. record \in Nat /\ record =< Slack(s) /\ setting = {} /\ showing' = {}
      BY <1>a DEF SetValue, LoopInv, Places, Slack
    <3> QED
      BY <1>a, <3>1, <3>2 DEF StampInv, Ages
  <2>6. FreshData'
    <3> SUFFICES ASSUME NEW s \in Sensors, SetValue(s) PROVE FreshData'
      BY <1>7
    <3>1. value' = [value EXCEPT ![s] = record] /\ reading' = reading
      BY FirstAssigned DEF SetValue
    <3>2. record \in Nat /\ record =< Freshest(s)
      BY <1>a DEF SetValue, LoopInv, Places, Slack
    <3> QED
      BY <1>a, <3>1, <3>2 DEF FreshData, Ages
  <2>7. ShownInv'
    BY <1>7, <1>a DEF SetValue, ShownInv, LagOf, Lag
  <2> QED
    BY <2>1, <2>2, <2>3, <2>4, <2>5, <2>6, <2>7 DEF Inv
<1>8. CASE \E s \in Sensors : FinishSetValue(s)
  <2>1. Ages'
    BY <1>8, <1>a, SecondAssigned DEF FinishSetValue, Ages
  <2>2. Places'
    BY <1>8, <1>a DEF FinishSetValue, Places, Sensors
  <2>3. Reads'
    BY <1>8, <1>a DEF FinishSetValue, Reads
  <2>4. LoopInv'
    BY <1>8, <1>a DEF FinishSetValue, LoopInv, Places
  <2>5. StampInv'
    BY <1>8, <1>a, SecondAssigned DEF FinishSetValue, StampInv, Ages
  <2>6. FreshData'
    BY <1>8, <1>a, SecondAssigned
    DEF FinishSetValue, FreshData, Ages, Reads, StampInv, Calls, NoCall
  <2>7. ShownInv'
    BY <1>8, <1>a DEF FinishSetValue, ShownInv, LagOf, Lag
  <2> QED
    BY <2>1, <2>2, <2>3, <2>4, <2>5, <2>6, <2>7 DEF Inv
<1>9. CASE ShowSensors
  <2>1. Ages'
    BY <1>9, <1>a DEF ShowSensors, Ages
  <2>2. Places'
    BY <1>9, <1>a DEF ShowSensors, Places, Sensors
  <2>3. Reads'
    BY <1>9, <1>a DEF ShowSensors, Reads
  <2>4. LoopInv'
    BY <1>9, <1>a DEF ShowSensors, LoopInv, Places
  <2>5. StampInv'
    BY <1>9, <1>a DEF ShowSensors, StampInv, LoopInv
  <2>6. FreshData'
    BY <1>9, <1>a DEF ShowSensors, FreshData
  <2>7. ShownInv'
    BY <1>9, <1>a DEF ShowSensors, ShownInv, LoopInv, LagOf, Lag
  <2> QED
    BY <2>1, <2>2, <2>3, <2>4, <2>5, <2>6, <2>7 DEF Inv
<1>16. CASE \E s \in Sensors : ShowFault(s)
  <2>1. Ages'
    BY <1>16, <1>a DEF ShowFault, UpdatedFault, Ages
  <2>2. Places'
    BY <1>16, <1>a DEF ShowFault, Places, Sensors
  <2>3. Reads'
    BY <1>16, <1>a DEF ShowFault, Reads
  <2>4. LoopInv'
    BY <1>16, <1>a DEF ShowFault, LoopInv, Places
  <2>5. StampInv'
    BY <1>16, <1>a DEF ShowFault, StampInv, LoopInv, Ages
  <2>6. FreshData'
    BY <1>16, <1>a DEF ShowFault, FreshData
  <2>7. ShownInv'
    <3> SUFFICES ASSUME NEW s \in Sensors, ShowFault(s) PROVE ShownInv'
      BY <1>16
    <3>1. /\ fault' = [fault EXCEPT ![s] = lastSync[s] > Old] /\ todo' = todo \ {s}
          /\ shown' = shown /\ elapsed' = elapsed /\ drivers' = drivers /\ showing = {}
          /\ pc = "show" /\ pc' \in {"show", "showValue"}
          /\ lastSync[s] > Old \/ showing' = {s}
      BY <1>a DEF ShowFault, UpdatedFault, LoopInv
    <3>2. \A t \in Sensors : t # s => LagOf(t)' = LagOf(t)
      BY <1>a, <3>1 DEF LagOf, Lag, LoopInv
    <3>3. fault'[s] \/ s \in showing'
      BY <1>a, <3>1 DEF Ages
    <3>4. \A t \in Sensors : t # s => fault'[t] = fault[t]
      BY <1>a, <3>1 DEF Ages
    <3> QED
      BY <1>a, <3>1, <3>2, <3>3, <3>4 DEF ShownInv
  <2> QED
    BY <2>1, <2>2, <2>3, <2>4, <2>5, <2>6, <2>7 DEF Inv
<1>17. CASE \E s \in Sensors : ShowValue(s)
  <2>1. Ages'
    BY <1>17, <1>a DEF ShowValue, Ages
  <2>2. Places'
    BY <1>17, <1>a DEF ShowValue, Places, Sensors
  <2>3. Reads'
    BY <1>17, <1>a DEF ShowValue, Reads
  <2>4. LoopInv'
    BY <1>17, <1>a DEF ShowValue, LoopInv, Places
  <2>5. StampInv'
    BY <1>17, <1>a DEF ShowValue, StampInv, LoopInv
  <2>6. FreshData'
    BY <1>17, <1>a DEF ShowValue, FreshData
  <2>7. ShownInv'
    <3> SUFFICES ASSUME NEW s \in Sensors, ShowValue(s) PROVE ShownInv'
      BY <1>17
    <3>1. /\ shown' = [shown EXCEPT ![s] = value[s]] /\ fault' = fault /\ todo' = todo
          /\ elapsed' = elapsed /\ drivers' = drivers /\ drivers = {}
          /\ pc = "showValue" /\ pc' = "show" /\ s \in showing
      BY <1>a DEF ShowValue, LoopInv
    <3>2. value[s] =< Freshest(s)
      <4>1. lastSync[s] =< Old /\ value[s] =< lastSync[s] + Slack(s)
        BY <1>a, <3>1 DEF StampInv
      <4> QED
        BY <1>a, <4>1 DEF Ages
    <3>3. \A t \in Sensors : LagOf(t)' = LagOf(t) /\ LagOf(t) \in Nat
      BY <1>a, <3>1 DEF LagOf, Lag, Places
    <3>4. \A t \in Sensors : t # s => t \notin showing
      BY <1>a, <3>1 DEF LoopInv
    <3> QED
      BY <1>a, <3>1, <3>2, <3>3, <3>4 DEF ShownInv, Ages
  <2> QED
    BY <2>1, <2>2, <2>3, <2>4, <2>5, <2>6, <2>7 DEF Inv
<1>18. CASE RoundDone
  <2>1. Ages'
    BY <1>18, <1>a DEF RoundDone, Ages
  <2>2. Places'
    BY <1>18, <1>a DEF RoundDone, Places, Sensors
  <2>3. Reads'
    BY <1>18, <1>a DEF RoundDone, Reads
  <2>4. LoopInv'
    BY <1>18, <1>a DEF RoundDone, LoopInv, Places
  <2>5. StampInv'
    BY <1>18, <1>a DEF RoundDone, StampInv, LoopInv
  <2>6. FreshData'
    BY <1>18, <1>a DEF RoundDone, FreshData
  <2>7. ShownInv'
    <3>1. Lag' \in Nat /\ \A s \in Sensors : LagOf(s) = 0 /\ LagOf(s)' = Lag'
      BY <1>18, <1>a DEF RoundDone, LagOf, Lag
    <3>2. showing = {} /\ showing' = {} /\ fault' = fault /\ shown' = shown
      BY <1>18, <1>a DEF RoundDone, LoopInv
    <3> QED
      BY <1>a, <3>1, <3>2 DEF ShownInv, Ages
  <2> QED
    BY <2>1, <2>2, <2>3, <2>4, <2>5, <2>6, <2>7 DEF Inv
<1>10. CASE \E r \in Readers, s \in Sensors : CallGetValue(r, s)
  <2>1. Ages'
    BY <1>10, <1>a DEF CallGetValue, Ages
  <2>2. Places'
    BY <1>10, <1>a DEF CallGetValue, Places, Sensors
  <2>3. Reads'
    BY <1>10, <1>a DEF CallGetValue, Reads, Calls, NoCall
  <2>4. LoopInv'
    BY <1>10, <1>a DEF CallGetValue, LoopInv, Places
  <2>5. StampInv'
    BY <1>10, <1>a DEF CallGetValue, StampInv
  <2>6. FreshData'
    BY <1>10, <1>a DEF CallGetValue, FreshData
  <2>7. ShownInv'
    BY <1>10, <1>a DEF CallGetValue, ShownInv, LagOf, Lag
  <2> QED
    BY <2>1, <2>2, <2>3, <2>4, <2>5, <2>6, <2>7 DEF Inv
<1>11. CASE \E r \in Readers, s \in Sensors : CheckAge(r, s)
  <2>1. Ages'
    BY <1>11, <1>a DEF CheckAge, Ages
  <2>2. Places'
    BY <1>11, <1>a DEF CheckAge, Places, Sensors
  <2>3. Reads'
    BY <1>11, <1>a DEF CheckAge, Reads, Calls, NoCall
  <2>4. LoopInv'
    BY <1>11, <1>a DEF CheckAge, LoopInv, Places
  <2>5. StampInv'
    BY <1>11, <1>a DEF CheckAge, StampInv
  <2>6. FreshData'
    <3> SUFFICES ASSUME NEW r \in Readers, NEW s \in Sensors, CheckAge(r, s),
                        NEW q \in Readers, NEW t \in Sensors,
                        reading'[q] = [sensor |-> {t}, at |-> "value"]
                 PROVE  value'[t] =< Freshest(t)
      BY <1>11 DEF FreshData
    <3>1. CASE q = r
      <4>0. /\ reading[r] = [sensor |-> {s}, at |-> "since"]
            /\ reading'[r] = IF lastSync[s] > Old THEN NoCall
                             ELSE [reading[r] EXCEPT !.at = "value"]
        BY <1>a DEF CheckAge, Reads
      <4>1. lastSync[s] =< Old /\ s = t
        <5>1. ~(lastSync[s] > Old)
          BY <3>1, <4>0 DEF NoCall
        <5>2. [sensor |-> {s}, at |-> "value"] = [sensor |-> {t}, at |-> "value"]
          BY <3>1, <4>0, <5>1
        <5> QED
          BY <1>a, <5>1, <5>2 DEF Ages
      <4> QED
        BY <1>a, <4>1 DEF CheckAge, StampInv, Ages
    <3>2. CASE q # r
      BY <1>a, <3>2 DEF CheckAge, FreshData, Reads
    <3> QED
      BY <3>1, <3>2
  <2>7. ShownInv'
    BY <1>11, <1>a DEF CheckAge, ShownInv, LagOf, Lag
  <2> QED
    BY <2>1, <2>2, <2>3, <2>4, <2>5, <2>6, <2>7 DEF Inv
<1>12. CASE \E r \in Readers, s \in Sensors : ReturnValue(r, s)
  <2>1. Ages'
    BY <1>12, <1>a DEF ReturnValue, Ages
  <2>2. Places'
    BY <1>12, <1>a DEF ReturnValue, Places, Sensors
  <2>3. Reads'
    BY <1>12, <1>a DEF ReturnValue, Reads
  <2>4. LoopInv'
    BY <1>12, <1>a DEF ReturnValue, LoopInv, Places
  <2>5. StampInv'
    BY <1>12, <1>a DEF ReturnValue, StampInv
  <2>6. FreshData'
    BY <1>12, <1>a DEF ReturnValue, FreshData, Ages, Reads, StampInv, Calls, NoCall
  <2>7. ShownInv'
    BY <1>12, <1>a DEF ReturnValue, ShownInv, LagOf, Lag
  <2> QED
    BY <2>1, <2>2, <2>3, <2>4, <2>5, <2>6, <2>7 DEF Inv
<1>13. CASE \E x \in Wires \cup Series : Change(x)
  <2>1. Ages'
    BY <1>13, <1>a DEF Change, Ages
  <2>2. Places'
    BY <1>13, <1>a DEF Change, Places, Sensors
  <2>3. Reads'
    BY <1>13, <1>a DEF Change, Reads
  <2>4. LoopInv'
    BY <1>13, <1>a DEF Change, LoopInv, Places
  <2>5. StampInv'
    BY <1>13, <1>a DEF Change, StampInv
  <2>6. FreshData'
    BY <1>13, <1>a DEF Change, FreshData
  <2>7. ShownInv'
    BY <1>13, <1>a DEF Change, ShownInv, LagOf, Lag
  <2> QED
    BY <2>1, <2>2, <2>3, <2>4, <2>5, <2>6, <2>7 DEF Inv
<1>14. CASE Tick
  <2>1. Ages'
    <3>1. lastSync' \in [Sensors -> 0..Never]
      BY <1>14, <1>a DEF Tick, Ages, Never, Expired, Older
    <3>2. value' \in [Sensors -> 0..Oldest]
      BY <1>14, <1>a, OlderAge DEF Tick, Ages
    <3>3. shown' \in [Sensors -> 0..Oldest]
      BY <1>14, <1>a, OlderAge DEF Tick, Ages
    <3> QED
      BY <1>14, <1>a, <3>1, <3>2, <3>3 DEF Tick, Ages
  <2>2. Places'
    BY <1>14, <1>a DEF Tick, Places
  <2>3. Reads'
    BY <1>14, <1>a DEF Tick, Reads
  <2>4. LoopInv'
    BY <1>14, <1>a DEF Tick, LoopInv, Places
  <2>5. StampInv'
    <3>1. setting' = {} /\ showing' = {}
      BY <1>14, <1>a DEF Tick, LoopInv
    <3> SUFFICES ASSUME NEW s \in Sensors, lastSync'[s] =< Old
                 PROVE  value'[s] =< lastSync'[s] + Slack(s)
      BY <3>1 DEF StampInv
    <3>2. lastSync'[s] = lastSync[s] + 1 /\ lastSync[s] =< Old /\ lastSync[s] \in Nat
      BY <1>14, <1>a, OlderAge DEF Tick, Ages, Never, Expired, Older
    <3>3. value'[s] =< value[s] + 1 /\ value[s] \in Nat /\ value'[s] \in Nat
      BY <1>14, <1>a, OlderAge DEF Tick, Ages
    <3> QED
      BY <1>a, <3>2, <3>3 DEF StampInv
  <2>6. FreshData'
    BY <1>14, <1>a, OlderAge DEF Tick, FreshData, Ages, Reads, StampInv, Calls, NoCall
  <2>7. ShownInv'
    <3>0. Lag' = Lag + 1 /\ Lag \in Nat
      BY <1>14, <1>a DEF Tick, Lag, LoopInv, Places
    <3>1. \A s \in Sensors : LagOf(s) = Lag /\ LagOf(s)' = Lag'
      BY <1>14 DEF Tick, LagOf
    <3>2. \A s \in Sensors : shown'[s] =< shown[s] + 1 /\ shown[s] \in Nat /\ shown'[s] \in Nat
      BY <1>14, <1>a, OlderAge DEF Tick, Ages
    <3>3. fault' = fault /\ showing' = showing
      BY <1>14 DEF Tick
    <3> QED
      BY <1>a, <3>0, <3>1, <3>2, <3>3 DEF ShownInv
  <2> QED
    BY <2>1, <2>2, <2>3, <2>4, <2>5, <2>6, <2>7 DEF Inv
<1>15. CASE UNCHANGED vars
  <2>1. Ages'
    BY <1>15, <1>a DEF vars, Ages
  <2>2. Places'
    BY <1>15, <1>a DEF vars, Places, Sensors
  <2>3. Reads'
    BY <1>15, <1>a DEF vars, Reads
  <2>4. LoopInv'
    BY <1>15, <1>a DEF vars, LoopInv, Places
  <2>5. StampInv'
    BY <1>15, <1>a DEF vars, StampInv
  <2>6. FreshData'
    BY <1>15, <1>a DEF vars, FreshData
  <2>7. ShownInv'
    BY <1>15, <1>a DEF vars, ShownInv, LagOf, Lag
  <2> QED
    BY <2>1, <2>2, <2>3, <2>4, <2>5, <2>6, <2>7 DEF Inv
<1> QED
    BY <1>1, <1>2, <1>3, <1>4, <1>5, <1>6, <1>7, <1>8, <1>9, <1>10, <1>11, <1>12, <1>13, <1>14, <1>15,
       <1>16, <1>17, <1>18
    DEF Next, TickerStep, GetValue

LEMMA InvAlways == Spec => []Inv
    BY InitInv, StepInv, PTL DEF Spec

\* The ticker and the readers are where they can be, and ages within bounds.
THEOREM TypeCorrect == Spec => []TypeOK
<1>1. Inv => TypeOK
    BY TypeParts DEF Inv
<1> QED
    BY <1>1, InvAlways, PTL

\* No thermostat uses a temperature that is too old.
THEOREM FreshDataHolds == Spec => []FreshData
<1>1. Inv => FreshData
    BY DEF Inv
<1> QED
    BY <1>1, InvAlways, PTL

\* HomeKit shows no temperature without a fault for longer than a round.
THEOREM ShownIsRecentHolds == Spec => []ShownIsRecent
<1>1. Inv => ShownIsRecent
  <2> SUFFICES ASSUME Inv, NEW s \in Sensors, ~fault[s], s \notin showing
               PROVE  shown[s] =< Shown(s)
    BY DEF ShownIsRecent
  <2>1. LagOf(s) \in Nat /\ LagOf(s) =< 1 + QueryTime
    BY Times DEF Inv, Places, LagOf, Lag
  <2> QED
    BY <2>1, Times DEF Inv, Ages, ShownInv, Shown
<1> QED
    BY <1>1, InvAlways, PTL

=============================================================================

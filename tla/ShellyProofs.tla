---------------------------- MODULE ShellyProofs ----------------------------
(***************************************************************************)
(* The Shelly driver, for any devices, callers and faults: what an object  *)
(* knows of its device, and that it implements Output.  The argument for   *)
(* the first is that of an object by itself: every change of the relay     *)
(* goes into the queue of each connection that is read, behind the answer  *)
(* the status is taken from.                                               *)
(***************************************************************************)
EXTENDS Shelly, SequenceTheorems, FunctionTheorems, FiniteSetTheorems, TLAPS

Object ==
    [status : BOOLEAN, setError : BOOLEAN, aged : BOOLEAN,
     link : {"none", "up", "down"},
     reader : {"none", "await", "start", "running", "gone"},
     queue : Seq(Messages)]

ObjType == obj \in [Devs -> [Objects -> Object]]

\* The rest of TypeOK: the devices, the discovery, and the callers.
DeviceType == relay \in [Devs -> BOOLEAN] /\ online \in [Devs -> BOOLEAN]

DiscoveryType ==
    /\ current \in [Devs -> {"none", "io", "map"}]
    /\ unhealthyCount \in 0..UnhealthyLimit + 1
    /\ phase \in {"setup", "running", "failed", "crashed"}
    /\ worker \in {"idle", "probe", "check", "try", "await"}
    /\ todo \subseteq Devs /\ trying \in Devs \cup {NoOne}
    /\ phase = "running" => \A d \in Devs : current[d] # "none"

CallersType ==
    /\ requests \in [Devs -> Seq(BOOLEAN)]
    /\ pc \in [Callers -> Sets \cup {Idle}]

BudgetsType ==
    /\ commands \in 0..MaxCommands /\ presses \in 0..MaxPresses
    /\ breaks \in 0..MaxBreaks /\ badMessages \in 0..MaxBadMessages

TypeInv == ObjType /\ DeviceType /\ DiscoveryType /\ CallersType /\ BudgetsType

\* What the object s of a device with the output v is: the new one waits for its
\* first answer; one that waits or is read has v as its last message or, when it
\* has none, as its status.
Tracks(s, o, v) ==
    /\ s = "new" => o.reader \in {"none", "await"} /\ (o.link = "up" => o.reader = "await")
    /\ o.link = "up" /\ o.reader \in {"await", "start", "running"} =>
          IF o.queue = <<>> THEN o.reader = "await" \/ o.status = v
          ELSE o.queue[Len(o.queue)][2] = v

TrackInv == \A d \in Devs, s \in Objects : Tracks(s, obj[d][s], relay[d])

-----------------------------------------------------------------------------
(* Objects and their queues.                                               *)

\* A queue that got a message ends in it; one that lost its first message ends in
\* what it ended in, or is empty.
LEMMA QueueFacts ==
    ASSUME NEW q \in Seq(Messages), NEW m \in Messages
    PROVE  /\ Append(q, m) \in Seq(Messages) /\ Append(q, m) # <<>>
           /\ Append(q, m)[Len(Append(q, m))] = m
           /\ q # <<>> =>
                 /\ Head(q) \in Messages /\ Tail(q) \in Seq(Messages)
                 /\ Tail(q) = <<>> => q[Len(q)] = Head(q)
                 /\ Tail(q) # <<>> => Tail(q)[Len(Tail(q))] = q[Len(q)]
<1>1. /\ Append(q, m) \in Seq(Messages) /\ Append(q, m) # <<>>
      /\ Append(q, m)[Len(Append(q, m))] = m
    BY AppendProperties
<1>2. ASSUME q # <<>>
      PROVE  /\ Head(q) \in Messages /\ Tail(q) \in Seq(Messages)
             /\ Tail(q) = <<>> => q[Len(q)] = Head(q)
             /\ Tail(q) # <<>> => Tail(q)[Len(Tail(q))] = q[Len(q)]
  <2>1. /\ Head(q) \in Messages /\ Tail(q) \in Seq(Messages)
        /\ Len(q) \in Nat /\ Len(Tail(q)) = Len(q) - 1
        /\ \A i \in 1..Len(Tail(q)) : Tail(q)[i] = q[i + 1]
      BY <1>2, HeadTailProperties, LenProperties
  <2>2. Tail(q) = <<>> => Len(Tail(q)) = 0
      BY EmptySeq
  <2>3. Tail(q) # <<>> => Len(Tail(q)) \in Nat \ {0}
      BY <2>1, EmptySeq
  <2>4. Head(q) = q[1]
      BY <1>2
  <2> QED
      BY <2>1, <2>2, <2>3, <2>4
<1> QED
    BY <1>1, <1>2

LEMMA MessageFacts ==
    /\ \A v \in BOOLEAN : <<"notify", v>> \in Messages /\ <<"reply", v>> \in Messages
    /\ \A m \in Messages : m[2] \in BOOLEAN
    /\ <<>> \in Seq(Messages) /\ Blank \in Object
    /\ \A s, v : Tracks(s, Blank, v)
<1>1. <<>> \in Seq(Messages)
    BY EmptySeq
<1> QED
    BY <1>1 DEF Messages, Object, Blank, Tracks

\* Only the object s of d is another one.
Replaced(d, s, o) ==
    /\ obj' \in [Devs -> [Objects -> Object]]
    /\ obj'[d][s] = o
    /\ \A e \in Devs, t \in Objects : e # d \/ t # s => obj'[e][t] = obj[e][t]

LEMMA ObjectReplaced ==
    ASSUME ObjType, NEW d \in Devs, NEW s \in Objects, NEW o \in Object,
           obj' = [obj EXCEPT ![d][s] = o]
    PROVE  Replaced(d, s, o)
    BY DEF ObjType, Replaced

LEMMA ReplacedTracks ==
    ASSUME TrackInv, NEW d \in Devs, NEW s \in Objects, NEW o, Replaced(d, s, o),
           relay' = relay, Tracks(s, o, relay[d])
    PROVE  TrackInv'
    BY DEF TrackInv, Replaced

\* The objects of a device that sends its output v are told.
Told(d, v, objs) ==
    /\ objs \in [Devs -> [Objects -> Object]]
    /\ \A e \in Devs, s \in Objects : Tracks(s, objs[e][s], IF e = d THEN v ELSE relay[e])

LEMMA SentTold ==
    ASSUME TypeInv, TrackInv, NEW d \in Devs, NEW v \in BOOLEAN,
           NEW m \in Messages, m[2] = v
    PROVE  Told(d, v, Sent(d, m))
<1> DEFINE row == [s \in Objects |->
                      IF obj[d][s].link = "up" /\ obj[d][s].reader # "gone"
                      THEN [obj[d][s] EXCEPT !.queue = Append(@, m)] ELSE obj[d][s]]
<1>1. Sent(d, m) = [obj EXCEPT ![d] = row]
    BY DEF Sent
<1>2. \A s \in Objects : row[s] \in Object /\ Tracks(s, row[s], v)
  <2> SUFFICES ASSUME NEW s \in Objects PROVE row[s] \in Object /\ Tracks(s, row[s], v)
      OBVIOUS
  <2>1. obj[d][s] \in Object /\ Tracks(s, obj[d][s], relay[d])
      BY DEF TypeInv, ObjType, TrackInv
  <2>2. /\ Append(obj[d][s].queue, m) \in Seq(Messages)
        /\ Append(obj[d][s].queue, m) # <<>>
        /\ Append(obj[d][s].queue, m)[Len(Append(obj[d][s].queue, m))] = m
      BY <2>1, QueueFacts DEF Object
  <2>3. CASE obj[d][s].link = "up" /\ obj[d][s].reader # "gone"
    <3>1. row[s] = [obj[d][s] EXCEPT !.queue = Append(@, m)]
        BY <2>3
    <3> HIDE DEF row
    <3> QED
        BY <2>1, <2>2, <3>1 DEF Object, Tracks
  <2>4. CASE ~(obj[d][s].link = "up" /\ obj[d][s].reader # "gone")
    <3>1. row[s] = obj[d][s]
        BY <2>4
    <3> HIDE DEF row
    <3> QED
        BY <2>1, <2>4, <3>1 DEF Object, Tracks
  <2> QED
      BY <2>3, <2>4
<1>3. row \in [Objects -> Object]
    BY <1>2
<1> HIDE DEF row
<1> QED
    BY <1>1, <1>2, <1>3 DEF Told, TypeInv, ObjType, TrackInv

LEMMA SentTracks ==
    ASSUME TypeInv, TrackInv, NEW d \in Devs, NEW v \in BOOLEAN,
           NEW m \in Messages, m[2] = v,
           relay' = [relay EXCEPT ![d] = v], obj' = Sent(d, m)
    PROVE  ObjType' /\ TrackInv'
<1>1. Told(d, v, obj')
    BY SentTold
<1> QED
    BY <1>1 DEF Told, ObjType, TrackInv, TypeInv, DeviceType

\* Steps that replace the object s of d by o, which tracks its device.
LEMMA OneObjectStep ==
    ASSUME TypeInv, TrackInv, NEW d \in Devs, NEW s \in Objects, NEW o \in Object,
           obj' = [obj EXCEPT ![d][s] = o], relay' = relay, Tracks(s, o, relay[d])
    PROVE  ObjType' /\ TrackInv'
<1>1. Replaced(d, s, o)
    BY ObjectReplaced DEF TypeInv
<1> QED
    BY <1>1, ReplacedTracks DEF Replaced, ObjType

-----------------------------------------------------------------------------
(* Every step keeps the objects and what they know.                        *)

LEMMA DeviceObjects ==
    ASSUME TypeInv, TrackInv, NEW d \in Devs, DeviceStep(d) \/ Reply(d)
    PROVE  ObjType' /\ TrackInv'
<1>a. ObjType /\ relay \in [Devs -> BOOLEAN]
    BY DEF TypeInv, DeviceType
<1>1. CASE Press(d)
  <2>0. relay[d] \in BOOLEAN
      BY <1>a
  <2>1. (~relay[d]) \in BOOLEAN
      BY <2>0
  <2>2. obj' = Sent(d, <<"notify", ~relay[d]>>) /\ relay' = [relay EXCEPT ![d] = ~relay[d]]
    <3>1. relay[d] # ~relay[d]
        BY <2>0
    <3> QED
        BY <1>1, <3>1 DEF Press, Notified
  <2> QED
      BY <2>1, <2>2, SentTracks, MessageFacts
<1>2. CASE Report(d)
  <2>1. obj' = Sent(d, <<"notify", relay[d]>>) /\ relay' = [relay EXCEPT ![d] = relay[d]]
      BY <1>2, <1>a DEF Report, device
  <2> QED
      BY <1>a, <2>1, SentTracks, MessageFacts
<1>3. CASE Break(d)
  <2> DEFINE row == [s \in Objects |->
                        IF obj[d][s].link = "up"
                        THEN [obj[d][s] EXCEPT !.link = "down", !.queue = <<>>] ELSE obj[d][s]]
  <2>1. obj' = [obj EXCEPT ![d] = row] /\ relay' = relay
      BY <1>3 DEF Break
  <2>2. \A s \in Objects : row[s] \in Object /\ Tracks(s, row[s], relay[d])
    <3> SUFFICES ASSUME NEW s \in Objects PROVE row[s] \in Object /\ Tracks(s, row[s], relay[d])
        OBVIOUS
    <3>1. obj[d][s] \in Object /\ Tracks(s, obj[d][s], relay[d])
        BY <1>a DEF ObjType, TrackInv
    <3> QED
        BY <3>1, MessageFacts DEF Object, Tracks
  <2> HIDE DEF row
  <2>3. row \in [Objects -> Object]
      BY <2>2 DEF row
  <2> QED
      BY <1>a, <2>1, <2>2, <2>3 DEF ObjType, TrackInv
<1>4. CASE ComeBack(d)
    BY <1>4, <1>a DEF ComeBack, ObjType, TrackInv
<1>5. CASE Reply(d)
  <2> DEFINE o == [obj[d]["new"] EXCEPT !.queue = Append(@, <<"reply", relay[d]>>)]
  <2>1. obj' = [obj EXCEPT ![d]["new"] = o] /\ relay' = relay
      BY <1>5 DEF Reply, device
  <2>2. obj[d]["new"] \in Object /\ <<"reply", relay[d]>> \in Messages /\ "new" \in Objects
      BY <1>a, MessageFacts DEF ObjType, Objects
  <2>3. /\ o.queue \in Seq(Messages) /\ o.queue # <<>>
        /\ o.queue[Len(o.queue)] = <<"reply", relay[d]>>
      BY <2>2, QueueFacts DEF Object
  <2>4. o \in Object /\ Tracks("new", obj[d]["new"], relay[d])
      BY <1>a, <2>2, <2>3 DEF Object, TrackInv
  <2>5. Tracks("new", o, relay[d])
      BY <2>2, <2>3, <2>4 DEF Object, Tracks
  <2> QED
      BY <2>1, <2>2, <2>4, <2>5, OneObjectStep
<1> QED
    BY <1>1, <1>2, <1>3, <1>4, <1>5 DEF DeviceStep

LEMMA ReaderObjects ==
    ASSUME TypeInv, TrackInv, NEW d \in Devs, NEW s \in Objects,
           Goroutine(d, s) \/ ObjectFails(d, s)
    PROVE  ObjType' /\ TrackInv'
<1>a. obj[d][s] \in Object /\ Tracks(s, obj[d][s], relay[d]) /\ relay' = relay
    BY DEF TypeInv, ObjType, TrackInv, Goroutine, ObjectFails, Listen, Read, ReadError, Age, device
<1>1. CASE Listen(d, s)
  <2> DEFINE o == [obj[d][s] EXCEPT !.reader = "running", !.aged = FALSE]
  <2>1. obj' = [obj EXCEPT ![d][s] = o]
      BY <1>1 DEF Listen, TypeInv, ObjType
  <2>2. o \in Object /\ Tracks(s, o, relay[d])
      BY <1>1, <1>a DEF Listen, Object, Tracks
  <2> QED
      BY <1>a, <2>1, <2>2, OneObjectStep
<1>2. CASE Read(d, s)
  <2> DEFINE q == obj[d][s].queue
             o == [obj[d][s] EXCEPT !.queue = Tail(q), !.aged = FALSE, !.status = Head(q)[2]]
  <2>1. obj' = [obj EXCEPT ![d][s] = o]
      BY <1>2 DEF Read, FilledSwitches, TypeInv, ObjType
  <2>2. q \in Seq(Messages) /\ q # <<>> /\ obj[d][s].reader = "running"
      BY <1>2, <1>a DEF Read, Object
  <2>3. /\ Head(q) \in Messages /\ Tail(q) \in Seq(Messages)
        /\ Tail(q) = <<>> => q[Len(q)] = Head(q)
        /\ Tail(q) # <<>> => Tail(q)[Len(Tail(q))] = q[Len(q)]
      BY <2>2, QueueFacts, MessageFacts
  <2>4. o \in Object /\ Tracks(s, o, relay[d])
      BY <1>a, <2>2, <2>3, MessageFacts DEF Object, Tracks
  <2> QED
      BY <1>a, <2>1, <2>4, OneObjectStep
<1>3. CASE ReadError(d, s)
  <2> DEFINE o == [obj[d][s] EXCEPT !.reader = "gone", !.queue = <<>>]
  <2>1. obj' = [obj EXCEPT ![d][s] = o]
      BY <1>3 DEF ReadError, TypeInv, ObjType
  <2>2. o \in Object /\ Tracks(s, o, relay[d])
      BY <1>3, <1>a, MessageFacts DEF ReadError, Object, Tracks
  <2> QED
      BY <1>a, <2>1, <2>2, OneObjectStep
<1>4. CASE Age(d, s)
  <2> DEFINE o == [obj[d][s] EXCEPT !.aged = TRUE]
  <2>1. obj' = [obj EXCEPT ![d][s] = o]
      BY <1>4 DEF Age, TypeInv, ObjType
  <2>2. o \in Object /\ Tracks(s, o, relay[d])
      BY <1>a DEF Object, Tracks
  <2> QED
      BY <1>a, <2>1, <2>2, OneObjectStep
<1> QED
    BY <1>1, <1>2, <1>3, <1>4 DEF Goroutine, ObjectFails

LEMMA SetObjects ==
    ASSUME TypeInv, TrackInv, NEW c \in Callers, NEW d \in Devs, EndSet(c, d)
    PROVE  ObjType' /\ TrackInv'
<1>a. ObjType /\ relay' = relay /\ "io" \in Objects
    BY DEF TypeInv, Objects, EndSet, device
<1>1. PICK err \in BOOLEAN : obj' = [obj EXCEPT ![d]["io"].setError = err]
    BY DEF EndSet
<1> DEFINE o == [obj[d]["io"] EXCEPT !.setError = err]
<1>2. obj' = [obj EXCEPT ![d]["io"] = o]
    BY <1>a, <1>1 DEF ObjType
<1>3. obj[d]["io"] \in Object /\ Tracks("io", obj[d]["io"], relay[d])
    BY <1>a DEF ObjType, TrackInv
<1>4. o \in Object /\ Tracks("io", o, relay[d])
    BY <1>3 DEF Object, Tracks
<1> QED
    BY <1>a, <1>2, <1>4, OneObjectStep

\* The first of some requests is what a device obeys; the others are left.
LEMMA RequestFacts ==
    ASSUME TypeInv, NEW d \in Devs, requests[d] # <<>>
    PROVE  Head(requests[d]) \in BOOLEAN /\ Tail(requests[d]) \in Seq(BOOLEAN)
    BY HeadTailProperties DEF TypeInv, CallersType

LEMMA ObeyObjects ==
    ASSUME TypeInv, TrackInv, NEW d \in Devs, Obey(d)
    PROVE  ObjType' /\ TrackInv'
<1> DEFINE v == Head(requests[d])
<1>a. ObjType /\ relay \in [Devs -> BOOLEAN]
    BY DEF TypeInv, DeviceType
<1>1. v \in BOOLEAN
    BY RequestFacts DEF Obey
<1>2. relay' = [relay EXCEPT ![d] = v] /\ obj' = Notified(d, relay'[d])
    BY DEF Obey, SwitchSet
<1>3. relay'[d] = v
    BY <1>a, <1>2
<1> HIDE DEF v
<1>4. CASE relay[d] = v
    BY <1>a, <1>2, <1>3, <1>4 DEF Notified, ObjType, TrackInv
<1>5. CASE relay[d] # v
  <2>1. obj' = Sent(d, <<"notify", v>>)
      BY <1>2, <1>3, <1>5 DEF Notified
  <2> QED
      BY <1>1, <1>2, <2>1, SentTracks, MessageFacts
<1> QED
    BY <1>4, <1>5

LEMMA DiscoveryObjects ==
    ASSUME TypeInv, TrackInv, Discover
    PROVE  ObjType' /\ TrackInv'
<1>a. ObjType /\ "new" \in Objects
    BY DEF TypeInv, Objects
<1>1. CASE HealthCheck \/ Probe \/ CheckDiscovered \/ MatchIOs
    BY <1>1, <1>a DEF HealthCheck, Probe, CheckDiscovered, MatchIOs, device, ObjType, TrackInv
<1>2. ASSUME NEW d \in Devs, Dial(d) PROVE ObjType' /\ TrackInv'
  <2>1. CASE online[d]
    <3> DEFINE o == [Blank EXCEPT !.link = "up", !.reader = "await"]
    <3>1. obj' = [obj EXCEPT ![d]["new"] = o] /\ relay' = relay
        BY <1>2, <2>1 DEF Dial, device
    <3>2. o \in Object /\ Tracks("new", o, relay[d])
        BY MessageFacts DEF Blank, Object, Tracks
    <3> QED
        BY <1>a, <3>1, <3>2, OneObjectStep
  <2>2. CASE ~online[d]
      BY <1>2, <1>a, <2>2 DEF Dial, device, ObjType, TrackInv
  <2> QED
      BY <2>1, <2>2
<1>3. ASSUME NEW d \in Devs, GiveUp(d) PROVE ObjType' /\ TrackInv'
    BY <1>3, <1>a, OneObjectStep, MessageFacts DEF GiveUp, device
<1>4. ASSUME NEW d \in Devs, GotStatus(d) PROVE ObjType' /\ TrackInv'
  <2> DEFINE q == obj[d]["new"].queue
             slot == IF current[d] = "none" THEN "io" ELSE "map"
             o == [obj[d]["new"] EXCEPT !.status = Head(q)[2], !.queue = Tail(q),
                                        !.reader = "start"]
  <2>1. obj' = [obj EXCEPT ![d][slot] = o, ![d]["new"] = Blank] /\ relay' = relay
      BY <1>4 DEF GotStatus, device
  <2>2. obj[d]["new"] \in Object /\ Tracks("new", obj[d]["new"], relay[d])
      BY <1>a DEF ObjType, TrackInv
  <2>3. q \in Seq(Messages) /\ q # <<>>
      BY <1>4, <2>2 DEF GotStatus, Object
  <2>4. /\ Head(q) \in Messages /\ Tail(q) \in Seq(Messages)
        /\ Tail(q) = <<>> => q[Len(q)] = Head(q)
        /\ Tail(q) # <<>> => Tail(q)[Len(Tail(q))] = q[Len(q)]
      BY <2>3, QueueFacts, MessageFacts
  <2>5. o \in Object
      BY <2>2, <2>4, MessageFacts DEF Object
  <2>6. slot \in Objects /\ slot # "new"
      BY DEF Objects
  <2>7. Tracks(slot, o, relay[d])
    <3> HIDE DEF slot
    <3> QED
        BY <2>2, <2>3, <2>4, <2>6 DEF Tracks, Object
  <2> HIDE DEF o, slot
  <2>8. /\ obj' \in [Devs -> [Objects -> Object]]
        /\ obj'[d][slot] = o /\ obj'[d]["new"] = Blank
        /\ \A e \in Devs, s \in Objects : e # d \/ s \notin {slot, "new"} => obj'[e][s] = obj[e][s]
      BY <1>a, <2>1, <2>5, <2>6, MessageFacts DEF ObjType
  <2> QED
      BY <2>1, <2>7, <2>8, MessageFacts DEF ObjType, TrackInv
<1> QED
    BY <1>1, <1>2, <1>3, <1>4 DEF Discover

-----------------------------------------------------------------------------
(* Every step keeps the other types.                                       *)

LEMMA DiscoverTypes ==
    ASSUME TypeInv, Discover
    PROVE  DeviceType' /\ DiscoveryType' /\ CallersType' /\ BudgetsType'
<1>a. DeviceType /\ DiscoveryType /\ CallersType /\ BudgetsType
    BY DEF TypeInv
<1>b. UnhealthyLimit \in Nat \ {0} /\ NoOne \notin Devs
    BY LimitAssumption, NoOneAssumption
<1> USE DEF device, callers, budgets
<1>1. CASE HealthCheck
  <2>1. Cardinality(Sick) \in Nat
    <3>1. IsFiniteSet(Sick)
        BY DevsAssumption, FS_Subset DEF Sick
    <3> QED
        BY <3>1, FS_CardinalityType
  <2>2. unhealthyCount' \in 0..UnhealthyLimit + 1
      BY <1>1, <1>a, <1>b, <2>1 DEF HealthCheck, DiscoveryType
  <2> QED
      BY <1>1, <1>a, <2>2 DEF HealthCheck, DeviceType, DiscoveryType, CallersType, BudgetsType
<1>2. CASE Probe
    BY <1>2, <1>a DEF Probe, DeviceType, DiscoveryType, CallersType, BudgetsType
<1>3. CASE CheckDiscovered
    BY <1>3, <1>a
    DEF CheckDiscovered, Remaining, DeviceType, DiscoveryType, CallersType, BudgetsType
<1>4. CASE MatchIOs
    BY <1>4, <1>a, <1>b
    DEF MatchIOs, FoundAll, DeviceType, DiscoveryType, CallersType, BudgetsType
<1>5. ASSUME NEW d \in Devs, Dial(d)
      PROVE  DeviceType' /\ DiscoveryType' /\ CallersType' /\ BudgetsType'
    BY <1>5, <1>a DEF Dial, DeviceType, DiscoveryType, CallersType, BudgetsType
<1>6. ASSUME NEW d \in Devs, GotStatus(d)
      PROVE  DeviceType' /\ DiscoveryType' /\ CallersType' /\ BudgetsType'
  <2>1. \E slot \in {"io", "map"} : current' = [current EXCEPT ![d] = slot]
      BY <1>6 DEF GotStatus
  <2>2. UNCHANGED <<device, unhealthyCount, phase, todo, callers, budgets>>
      BY <1>6 DEF GotStatus
  <2>3. worker' = "try" /\ trying' = NoOne
      BY <1>6 DEF GotStatus
  <2> QED
      BY <1>a, <2>1, <2>2, <2>3 DEF DeviceType, DiscoveryType, CallersType, BudgetsType
<1>7. ASSUME NEW d \in Devs, GiveUp(d)
      PROVE  DeviceType' /\ DiscoveryType' /\ CallersType' /\ BudgetsType'
    BY <1>7, <1>a DEF GiveUp, DeviceType, DiscoveryType, CallersType, BudgetsType
<1> QED
    BY <1>1, <1>2, <1>3, <1>4, <1>5, <1>6, <1>7 DEF Discover

LEMMA OtherTypes ==
    ASSUME TypeInv, [Next]_vars, ~Discover
    PROVE  DeviceType' /\ DiscoveryType' /\ CallersType' /\ BudgetsType'
<1>a. DeviceType /\ DiscoveryType /\ CallersType /\ BudgetsType
    BY DEF TypeInv
<1> USE BoundsAssumption DEF device, discovery, callers, budgets
<1>1. ASSUME NEW d \in Devs, Press(d)
      PROVE  DeviceType' /\ DiscoveryType' /\ CallersType' /\ BudgetsType'
  <2>1. relay' \in [Devs -> BOOLEAN]
    <3>1. relay' = [relay EXCEPT ![d] = ~relay[d]] /\ (~relay[d]) \in BOOLEAN
        BY <1>1, <1>a DEF Press, DeviceType
    <3> QED
        BY <1>a, <3>1 DEF DeviceType
  <2> QED
      BY <1>1, <1>a, <2>1 DEF Press, DeviceType, DiscoveryType, CallersType, BudgetsType
<1>2. ASSUME NEW d \in Devs, Report(d) \/ Reply(d)
      PROVE  DeviceType' /\ DiscoveryType' /\ CallersType' /\ BudgetsType'
  <2>1. badMessages' \in 0..MaxBadMessages
    <3>1. badMessages' = badMessages
             \/ (badMessages < MaxBadMessages /\ badMessages' = badMessages + 1)
        BY <1>2 DEF Report, Reply
    <3> QED
        BY <1>a, <3>1 DEF BudgetsType
  <2> QED
      BY <1>2, <1>a, <2>1
      DEF Report, Reply, DeviceType, DiscoveryType, CallersType, BudgetsType
<1>3. ASSUME NEW d \in Devs, Break(d) \/ ComeBack(d)
      PROVE  DeviceType' /\ DiscoveryType' /\ CallersType' /\ BudgetsType'
  <2>1. online' \in [Devs -> BOOLEAN]
      BY <1>3, <1>a DEF Break, ComeBack, DeviceType
  <2>2. breaks' \in 0..MaxBreaks
    <3>1. breaks' = breaks \/ (breaks < MaxBreaks /\ breaks' = breaks + 1)
        BY <1>3 DEF Break, ComeBack
    <3> QED
        BY <1>a, <3>1 DEF BudgetsType
  <2>3. UNCHANGED <<relay, discovery, pc, commands, presses, badMessages>>
      BY <1>3 DEF Break, ComeBack
  <2>4. requests' \in [Devs -> Seq(BOOLEAN)]
    <3>1. requests' = requests \/ requests' = [requests EXCEPT ![d] = <<>>]
        BY <1>3 DEF Break, ComeBack
    <3>2. <<>> \in Seq(BOOLEAN)
        BY EmptySeq
    <3> QED
        BY <1>a, <3>1, <3>2 DEF CallersType
  <2> QED
      BY <1>a, <2>1, <2>2, <2>3, <2>4 DEF DeviceType, DiscoveryType, CallersType, BudgetsType
<1>4. ASSUME NEW d \in Devs, NEW s \in Objects, Goroutine(d, s) \/ ObjectFails(d, s)
      PROVE  DeviceType' /\ DiscoveryType' /\ CallersType' /\ BudgetsType'
    BY <1>4, <1>a DEF Goroutine, ObjectFails, Listen, Read, ReadError, Age,
       DeviceType, DiscoveryType, CallersType, BudgetsType
<1>5. ASSUME NEW c \in Callers, NEW d \in Devs, EndSet(c, d) \/ Panic(c, d)
      PROVE  DeviceType' /\ DiscoveryType' /\ CallersType' /\ BudgetsType'
  <2>1. UNCHANGED requests \/ Request(c, d)
      BY <1>5 DEF EndSet, Panic
  <2>2. pc[c] \in Sets
      BY <1>5, <1>a, NoOneAssumption DEF EndSet, Panic, Writers, CallersType, Idle
  <2>3. requests' \in [Devs -> Seq(BOOLEAN)]
    <3>1. Append(requests[d], pc[c].value) \in Seq(BOOLEAN)
        BY <1>a, <2>2, AppendProperties DEF CallersType, Sets
    <3> QED
        BY <1>a, <2>1, <3>1 DEF CallersType, Request
  <2>4. pc' = [pc EXCEPT ![c] = Idle] /\ UNCHANGED <<device, budgets>>
      BY <1>5 DEF EndSet, Panic
  <2>5. /\ UNCHANGED <<current, unhealthyCount, worker, todo, trying>>
        /\ phase' \in {phase, "crashed"}
      BY <1>5 DEF EndSet, Panic
  <2> QED
      BY <1>a, <2>3, <2>4, <2>5 DEF DeviceType, DiscoveryType, CallersType, BudgetsType
<1>6. ASSUME NEW c \in Callers, NEW d \in Devs, NEW v \in BOOLEAN, StartSet(c, d, v)
      PROVE  DeviceType' /\ DiscoveryType' /\ CallersType' /\ BudgetsType'
  <2>1. pc' \in [Callers -> Sets \cup {Idle}]
    <3>1. PICK at \in {"write", "race"} :
            pc' = [b \in Callers |->
                      IF b = c THEN [to |-> d, value |-> v, at |-> at]
                      ELSE IF b \in Writers(d) THEN [pc[b] EXCEPT !.at = "race"] ELSE pc[b]]
        BY <1>6 DEF StartSet
    <3>2. [to |-> d, value |-> v, at |-> at] \in Sets
        BY DEF Sets
    <3>3. ASSUME NEW b \in Writers(d) PROVE [pc[b] EXCEPT !.at = "race"] \in Sets
      <4>1. pc[b] \in Sets
          BY <1>a, <3>3, NoOneAssumption DEF Writers, CallersType, Idle
      <4> QED
          BY <4>1 DEF Sets
    <3> QED
        BY <1>a, <3>1, <3>2, <3>3 DEF CallersType
  <2> QED
      BY <1>6, <1>a, <2>1 DEF StartSet, DeviceType, DiscoveryType, CallersType, BudgetsType
<1>8. ASSUME NEW d \in Devs, Obey(d)
      PROVE  DeviceType' /\ DiscoveryType' /\ CallersType' /\ BudgetsType'
  <2>1. /\ relay' = [relay EXCEPT ![d] = Head(requests[d])]
        /\ requests' = [requests EXCEPT ![d] = Tail(requests[d])]
        /\ UNCHANGED <<online, discovery, pc, budgets>>
      BY <1>8 DEF Obey, SwitchSet
  <2>2. Head(requests[d]) \in BOOLEAN /\ Tail(requests[d]) \in Seq(BOOLEAN)
      BY <1>8, RequestFacts DEF Obey
  <2> QED
      BY <1>a, <2>1, <2>2 DEF DeviceType, DiscoveryType, CallersType, BudgetsType
<1>7. CASE UNCHANGED vars
    BY <1>7, <1>a DEF vars, DeviceType, DiscoveryType, CallersType, BudgetsType
<1> QED
    BY <1>1, <1>2, <1>3, <1>4, <1>5, <1>6, <1>7, <1>8 DEF Next, DeviceStep

-----------------------------------------------------------------------------
(* The theorems.                                                           *)

LEMMA InitInvariant == Init => TypeInv /\ TrackInv
<1> SUFFICES ASSUME Init PROVE TypeInv /\ TrackInv
    OBVIOUS
<1>1. ObjType /\ TrackInv
    BY MessageFacts DEF Init, ObjType, TrackInv
<1>2. DeviceType /\ DiscoveryType /\ CallersType /\ BudgetsType
    BY BoundsAssumption, LimitAssumption, EmptySeq
    DEF Init, Idle, DeviceType, DiscoveryType, CallersType, BudgetsType
<1> QED
    BY <1>1, <1>2 DEF TypeInv

LEMMA StepInvariant == TypeInv /\ TrackInv /\ [Next]_vars => TypeInv' /\ TrackInv'
<1> SUFFICES ASSUME TypeInv, TrackInv, [Next]_vars PROVE TypeInv' /\ TrackInv'
    OBVIOUS
<1>1. ObjType' /\ TrackInv'
  <2>1. ASSUME NEW c \in Callers, NEW d \in Devs, NEW v \in BOOLEAN, StartSet(c, d, v)
        PROVE  ObjType' /\ TrackInv'
      BY <2>1 DEF StartSet, device, TypeInv, ObjType, TrackInv
  <2>2. CASE UNCHANGED vars
      BY <2>2 DEF vars, device, TypeInv, ObjType, TrackInv
  <2>3. ASSUME NEW c \in Callers, NEW d \in Devs, Panic(c, d) PROVE ObjType' /\ TrackInv'
      BY <2>3 DEF Panic, device, TypeInv, ObjType, TrackInv
  <2> QED
      BY <2>1, <2>2, <2>3, DeviceObjects, ReaderObjects, SetObjects, ObeyObjects,
         DiscoveryObjects DEF Next
<1>2. DeviceType' /\ DiscoveryType' /\ CallersType' /\ BudgetsType'
    BY DiscoverTypes, OtherTypes
<1> QED
    BY <1>1, <1>2 DEF TypeInv

LEMMA Invariant == Spec => [](TypeInv /\ TrackInv)
    BY InitInvariant, StepInvariant, PTL DEF Spec

\* The devices, objects, callers and the discovery are what they can be.
THEOREM TypeCorrect == Spec => []TypeOK
<1>1. TypeInv => TypeOK
    BY DEF TypeInv, ObjType, Object, DeviceType, DiscoveryType, CallersType, BudgetsType, TypeOK
<1> QED
    BY <1>1, Invariant, PTL

\* No change of an output is lost on a connection that is read.
THEOREM StatusTracksRelayHolds == Spec => []StatusTracksRelay
<1>1. TypeInv /\ TrackInv => StatusTracksRelay
    BY DEF TypeInv, ObjType, Object, TrackInv, Tracks, StatusTracksRelay, LastKnown, Objects
<1> QED
    BY <1>1, Invariant, PTL

-----------------------------------------------------------------------------
(* What the driver promises.                                               *)

\* How many of the requests q are for v.
CountOf(q, v) == Cardinality({i \in DOMAIN q : q[i] = v})

LEMMA CountType ==
    ASSUME NEW q \in Seq(BOOLEAN), NEW v
    PROVE  IsFiniteSet({i \in DOMAIN q : q[i] = v}) /\ CountOf(q, v) \in Nat
<1> DEFINE D == DOMAIN q
           S == {i \in D : q[i] = v}
<1>1. D = 1..Len(q) /\ Len(q) \in Nat
    BY LenProperties
<1>2. IsFiniteSet(D)
    BY <1>1, FS_Interval
<1>3. S \in SUBSET D
    OBVIOUS
<1> HIDE DEF D, S
<1>4. IsFiniteSet(S)
    BY <1>2, <1>3, FS_Subset
<1> QED
    BY <1>4, FS_CardinalityType DEF CountOf, S, D

LEMMA CountEmpty == \A v : CountOf(<<>>, v) = 0
<1> SUFFICES ASSUME NEW v PROVE CountOf(<<>>, v) = 0
    OBVIOUS
<1>1. {i \in DOMAIN <<>> : <<>>[i] = v} = {}
    OBVIOUS
<1> QED
    BY <1>1, FS_EmptySet DEF CountOf

LEMMA CountAppend ==
    ASSUME NEW q \in Seq(BOOLEAN), NEW w \in BOOLEAN, NEW v \in BOOLEAN
    PROVE  CountOf(Append(q, w), v) = CountOf(q, v) + (IF v = w THEN 1 ELSE 0)
<1> DEFINE r == Append(q, w)
           S == {i \in DOMAIN q : q[i] = v}
           T == {i \in DOMAIN r : r[i] = v}
           n == Len(q) + 1
<1>1. /\ Len(q) \in Nat /\ DOMAIN q = 1..Len(q) /\ DOMAIN r = 1..n
      /\ \A i \in 1..Len(q) : r[i] = q[i]
      /\ r[n] = w
    BY AppendProperties, LenProperties
<1>2. T = IF v = w THEN S \cup {n} ELSE S
    BY <1>1
<1>3. n \notin S
    BY <1>1
<1>4. IsFiniteSet(S) /\ CountOf(q, v) = Cardinality(S) /\ CountOf(r, v) = Cardinality(T)
    BY CountType DEF CountOf
<1> HIDE DEF S, T, n, r
<1>5. Cardinality(S \cup {n}) = Cardinality(S) + 1 /\ Cardinality(S) \in Nat
    BY <1>3, <1>4, FS_AddElement, FS_CardinalityType
<1>6. CountOf(r, v) = CountOf(q, v) + (IF v = w THEN 1 ELSE 0)
  <2>1. CASE v = w
      BY <1>2, <1>4, <1>5, <2>1
  <2>2. CASE v # w
      BY <1>2, <1>4, <1>5, <2>2
  <2> QED
      BY <2>1, <2>2
<1> QED
    BY <1>6 DEF r

\* Each place of the rest is the next place of the whole.
LEMMA CountTail ==
    ASSUME NEW q \in Seq(BOOLEAN), q # <<>>, NEW v \in BOOLEAN
    PROVE  CountOf(q, v) = CountOf(Tail(q), v) + (IF v = Head(q) THEN 1 ELSE 0)
<1> DEFINE r == Tail(q)
           S == {i \in DOMAIN q : q[i] = v}
           T == {i \in DOMAIN r : r[i] = v}
           next == [i \in T |-> i + 1]
<1>1. /\ Len(q) \in Nat /\ Len(r) \in Nat /\ Len(r) = Len(q) - 1 /\ Len(q) > 0
      /\ DOMAIN q = 1..Len(q) /\ DOMAIN r = 1..Len(r)
      /\ r \in Seq(BOOLEAN) /\ Head(q) = q[1]
  <2>1. r \in Seq(BOOLEAN) /\ Len(r) = Len(q) - 1 /\ Head(q) = q[1]
      BY HeadTailProperties
  <2>2. Len(q) \in Nat /\ DOMAIN q = 1..Len(q) /\ Len(q) # 0
      BY LenProperties, EmptySeq
  <2>3. Len(r) \in Nat /\ DOMAIN r = 1..Len(r)
      BY <2>1, LenProperties
  <2> QED
      BY <2>1, <2>2, <2>3
<1>2. \A i \in 1..Len(r) : r[i] = q[i + 1]
    BY HeadTailProperties
<1>3. /\ \A i \in T : i \in Nat /\ i + 1 \in S \ {1}
      /\ \A j \in S \ {1} : j \in Int /\ j - 1 \in T
    BY <1>1, <1>2
<1>4. 1 \in S <=> v = Head(q)
    BY <1>1
<1>5. /\ IsFiniteSet(S) /\ IsFiniteSet(T)
      /\ CountOf(q, v) = Cardinality(S) /\ CountOf(r, v) = Cardinality(T)
    BY <1>1, CountType DEF CountOf
<1> HIDE DEF S, T, r
<1>6. ExistsBijection(T, S \ {1})
  <2>1. next \in [T -> S \ {1}]
      BY <1>3
  <2>2. \A i, j \in T : next[i] = next[j] => i = j
      BY <1>3
  <2>3. \A j \in S \ {1} : \E i \in T : next[i] = j
    <3> SUFFICES ASSUME NEW j \in S \ {1} PROVE \E i \in T : next[i] = j
        OBVIOUS
    <3>1. j - 1 \in T /\ next[j - 1] = j
        BY <1>3
    <3> QED
        BY <3>1
  <2> HIDE DEF next
  <2>4. next \in Bijection(T, S \ {1})
      BY <2>1, <2>2, <2>3, Fun_IsBij
  <2> QED
      BY <2>4, Fun_ExistsBij
<1>7. Cardinality(S \ {1}) = Cardinality(T) /\ Cardinality(T) \in Nat
    BY <1>5, <1>6, FS_Bijection, FS_CardinalityType
<1>8. Cardinality(S \ {1}) = IF 1 \in S THEN Cardinality(S) - 1 ELSE Cardinality(S)
    BY <1>5, FS_RemoveElement
<1>9. Cardinality(S) \in Nat
    BY <1>5, FS_CardinalityType
<1> QED
    BY <1>4, <1>5, <1>7, <1>8, <1>9 DEF r

\* UnderWay of a device that has other requests.
LEMMA UnderWayOf ==
    ASSUME TypeInv, NEW d \in Devs, NEW q, requests' = [requests EXCEPT ![d] = q]
    PROVE  UnderWay' = [cmd \in Devs \X BOOLEAN |->
                           IF cmd[1] = d THEN CountOf(q, cmd[2]) ELSE UnderWay[cmd]]
<1>1. requests'[d] = q /\ \A e \in Devs : e # d => requests'[e] = requests[e]
    BY DEF TypeInv, CallersType
<1> QED
    BY <1>1 DEF UnderWay, CountOf

LEMMA UnderWayType ==
    ASSUME TypeInv
    PROVE  /\ UnderWay \in [Devs \X BOOLEAN -> Nat]
           /\ \A d \in Devs, v \in BOOLEAN : UnderWay[<<d, v>>] = CountOf(requests[d], v)
<1>1. \A d \in Devs, v \in BOOLEAN : CountOf(requests[d], v) \in Nat
    BY CountType DEF TypeInv, CallersType
<1> QED
    BY <1>1 DEF UnderWay, CountOf

\* The request of a Set is one more of its command under way.
LEMMA RequestUnderWay ==
    ASSUME TypeInv, NEW c \in Callers, NEW d \in Devs, pc[c].value \in BOOLEAN, Request(c, d)
    PROVE  UnderWay' = [UnderWay EXCEPT ![<<d, pc[c].value>>] = @ + 1]
<1> DEFINE w == pc[c].value
           q == Append(requests[d], w)
<1>1. UnderWay' = [cmd \in Devs \X BOOLEAN |->
                      IF cmd[1] = d THEN CountOf(q, cmd[2]) ELSE UnderWay[cmd]]
    BY UnderWayOf DEF Request
<1>2. \A v \in BOOLEAN :
         CountOf(q, v) = CountOf(requests[d], v) + (IF v = w THEN 1 ELSE 0)
    BY CountAppend DEF TypeInv, CallersType
<1>3. UnderWay \in [Devs \X BOOLEAN -> Nat]
      /\ \A v \in BOOLEAN : UnderWay[<<d, v>>] = CountOf(requests[d], v)
    BY UnderWayType
<1> HIDE DEF w, q
<1>4. \A cmd \in Devs \X BOOLEAN :
         UnderWay'[cmd] = IF cmd = <<d, w>> THEN UnderWay[cmd] + 1 ELSE UnderWay[cmd]
  <2> SUFFICES ASSUME NEW e \in Devs, NEW v \in BOOLEAN
               PROVE  UnderWay'[<<e, v>>] = IF <<e, v>> = <<d, w>> THEN UnderWay[<<e, v>>] + 1
                                            ELSE UnderWay[<<e, v>>]
      OBVIOUS
  <2>1. UnderWay[<<e, v>>] \in Nat
      BY <1>3
  <2>2. CASE e = d
      BY <1>1, <1>2, <1>3, <2>1, <2>2
  <2>3. CASE e # d
      BY <1>1, <2>3
  <2> QED
      BY <2>2, <2>3
<1> QED
    BY <1>1, <1>3, <1>4 DEF w

\* A request obeyed is one less.
LEMMA ObeyUnderWay ==
    ASSUME TypeInv, NEW d \in Devs, Obey(d)
    PROVE  /\ UnderWay[<<d, Head(requests[d])>>] > 0
           /\ UnderWay' = [UnderWay EXCEPT ![<<d, Head(requests[d])>>] = @ - 1]
<1> DEFINE w == Head(requests[d])
           q == Tail(requests[d])
<1>1. UnderWay' = [cmd \in Devs \X BOOLEAN |->
                      IF cmd[1] = d THEN CountOf(q, cmd[2]) ELSE UnderWay[cmd]]
    BY UnderWayOf DEF Obey
<1>2. w \in BOOLEAN /\ q \in Seq(BOOLEAN)
    BY RequestFacts DEF Obey
<1>3. \A v \in BOOLEAN :
         /\ CountOf(requests[d], v) = CountOf(q, v) + (IF v = w THEN 1 ELSE 0)
         /\ CountOf(q, v) \in Nat
    BY <1>2, CountTail, CountType DEF Obey, TypeInv, CallersType
<1>4. UnderWay \in [Devs \X BOOLEAN -> Nat]
      /\ \A v \in BOOLEAN : UnderWay[<<d, v>>] = CountOf(requests[d], v)
    BY UnderWayType
<1> HIDE DEF w, q
<1>5. UnderWay[<<d, w>>] > 0
    BY <1>2, <1>3, <1>4
<1>6. \A cmd \in Devs \X BOOLEAN :
         UnderWay'[cmd] = IF cmd = <<d, w>> THEN UnderWay[cmd] - 1 ELSE UnderWay[cmd]
  <2> SUFFICES ASSUME NEW e \in Devs, NEW v \in BOOLEAN
               PROVE  UnderWay'[<<e, v>>] = IF <<e, v>> = <<d, w>> THEN UnderWay[<<e, v>>] - 1
                                            ELSE UnderWay[<<e, v>>]
      OBVIOUS
  <2>1. UnderWay[<<e, v>>] \in Nat
      BY <1>4
  <2>2. CASE e = d
      BY <1>1, <1>3, <1>4, <2>1, <2>2
  <2>3. CASE e # d
      BY <1>1, <2>3
  <2> QED
      BY <2>2, <2>3
<1> QED
    BY <1>1, <1>4, <1>5, <1>6 DEF w

\* A broken connection loses them.
LEMMA BreakUnderWay ==
    ASSUME TypeInv, NEW d \in Devs, Break(d)
    PROVE  /\ UnderWay' \in [Devs \X BOOLEAN -> Nat]
           /\ \A cmd \in Devs \X BOOLEAN : UnderWay'[cmd] =< UnderWay[cmd]
<1>1. UnderWay' = [cmd \in Devs \X BOOLEAN |->
                      IF cmd[1] = d THEN CountOf(<<>>, cmd[2]) ELSE UnderWay[cmd]]
    BY UnderWayOf DEF Break
<1> QED
    BY <1>1, UnderWayType, CountEmpty

\* A press is a light switched by hand; the request of a Set takes its command off
\* the call, until the device obeys it or the connection breaks.
LEMMA StepPromised == TypeInv /\ [Next]_vars => [Promise!Next]_(Promise!vars)
<1> SUFFICES ASSUME TypeInv, [Next]_vars PROVE [Promise!Next]_(Promise!vars)
    OBVIOUS
<1>a. DeviceType /\ CallersType /\ NoOne \notin Devs
    BY NoOneAssumption DEF TypeInv
<1> USE DEF device, discovery, callers, budgets
<1>b. UNCHANGED requests => UNCHANGED UnderWay
    BY DEF UnderWay
<1>c. UNCHANGED <<relay, presses, requests, pc>> => UNCHANGED Promise!vars
    BY <1>b DEF Promise!vars, OpenSets
<1>1. ASSUME NEW d \in Devs, Press(d) PROVE Promise!ByHand(d)
    BY <1>1, <1>b DEF Press, Promise!ByHand, OpenSets
<1>2. ASSUME NEW c \in Callers, NEW d \in Devs, NEW v \in BOOLEAN, StartSet(c, d, v)
      PROVE  Promise!Begin(c)
  <2>1. PICK at \in {"write", "race"} :
          pc' = [b \in Callers |->
                    IF b = c THEN [to |-> d, value |-> v, at |-> at]
                    ELSE IF b \in Writers(d) THEN [pc[b] EXCEPT !.at = "race"] ELSE pc[b]]
      BY <1>2 DEF StartSet
  <2>2. pc[c] = Idle /\ UNCHANGED <<relay, presses, requests>>
      BY <1>2 DEF StartSet
  <2>3. \A b \in Callers \ {c} : OpenSets'[b] = OpenSets[b]
    <3> SUFFICES ASSUME NEW b \in Callers \ {c} PROVE OpenSets'[b] = OpenSets[b]
        OBVIOUS
    <3>1. CASE b \in Writers(d)
      <4>1. pc[b] \in Sets
          BY <1>a, <3>1 DEF Writers, CallersType, Idle
      <4>2. /\ pc'[b].to = pc[b].to /\ pc'[b].value = pc[b].value
            /\ pc[b] # Idle /\ pc'[b] # Idle
          BY <1>a, <2>1, <3>1, <4>1 DEF Sets, Idle
      <4> QED
          BY <4>2 DEF OpenSets
    <3>2. CASE b \notin Writers(d)
        BY <2>1, <3>2 DEF OpenSets
    <3> QED
        BY <3>1, <3>2
  <2>4. OpenSets[c] = {} /\ OpenSets'[c] = {<<d, v>>}
      BY <1>a, <2>1, <2>2 DEF OpenSets, Idle
  <2>5. OpenSets' = [OpenSets EXCEPT ![c] = {<<d, v>>}]
      BY <2>3, <2>4 DEF OpenSets
  <2> QED
      BY <1>b, <2>2, <2>4, <2>5 DEF Promise!Begin, Promise!Commands
<1>3. ASSUME NEW c \in Callers, NEW d \in Devs, EndSet(c, d) \/ Panic(c, d)
      PROVE  Promise!TimeOut(c) \/ Promise!Drop(c)
  <2>1. c \in Writers(d) /\ pc' = [pc EXCEPT ![c] = Idle] /\ UNCHANGED <<relay, presses>>
      BY <1>3 DEF EndSet, Panic
  <2>2. pc[c] \in Sets /\ pc[c].to = d /\ pc[c] # Idle
      BY <1>a, <2>1 DEF Writers, CallersType, Idle, Sets
  <2>3. OpenSets[c] = {<<d, pc[c].value>>} /\ OpenSets' = [OpenSets EXCEPT ![c] = {}]
      BY <1>a, <2>1, <2>2 DEF OpenSets, CallersType
  <2>4. CASE Request(c, d)
    <3>1. UnderWay' = [UnderWay EXCEPT ![<<d, pc[c].value>>] = @ + 1]
        BY <2>2, <2>4, RequestUnderWay DEF Sets
    <3> QED
        BY <2>1, <2>3, <3>1 DEF Promise!TimeOut, Promise!Done
  <2>5. CASE UNCHANGED requests
      BY <1>b, <2>1, <2>3, <2>5 DEF Promise!Drop, Promise!Done
  <2> QED
      BY <1>3, <2>4, <2>5 DEF EndSet, Panic
<1>4. ASSUME NEW d \in Devs, NEW s \in Objects,
             Report(d) \/ ComeBack(d) \/ Reply(d) \/ Goroutine(d, s) \/ ObjectFails(d, s)
      PROVE  UNCHANGED Promise!vars
    BY <1>4, <1>c
    DEF Report, ComeBack, Reply, Goroutine, ObjectFails, Listen, Read, ReadError, Age
<1>5. CASE Discover \/ UNCHANGED vars
    BY <1>5, <1>c DEF Discover, HealthCheck, Probe, CheckDiscovered, MatchIOs, Dial, GotStatus,
       GiveUp, vars
<1>6. ASSUME NEW d \in Devs, Obey(d)
      PROVE  \E cmd \in Promise!Commands : Promise!ObeyLate(cmd)
  <2> DEFINE cmd == <<d, Head(requests[d])>>
  <2>1. cmd \in Devs \X BOOLEAN
      BY <1>6, RequestFacts DEF Obey
  <2>2. relay' = [relay EXCEPT ![cmd[1]] = cmd[2]] /\ UNCHANGED <<pc, presses>>
      BY <1>6 DEF Obey, SwitchSet
  <2>3. UNCHANGED OpenSets
      BY <2>2 DEF OpenSets
  <2>4. UnderWay[cmd] > 0 /\ UnderWay' = [UnderWay EXCEPT ![cmd] = @ - 1]
      BY <1>6, ObeyUnderWay
  <2> HIDE DEF cmd
  <2> QED
      BY <2>1, <2>2, <2>3, <2>4 DEF Promise!ObeyLate, Promise!Commands
<1>7. ASSUME NEW d \in Devs, Break(d) PROVE Promise!Lose
  <2>1. UNCHANGED <<relay, presses, OpenSets>>
      BY <1>7 DEF Break, OpenSets
  <2> QED
      BY <1>7, <2>1, BreakUnderWay DEF Promise!Lose, Promise!Commands
<1> QED
    BY <1>1, <1>2, <1>3, <1>4, <1>5, <1>6, <1>7 DEF Next, DeviceStep, Objects, Promise!Next

\* The driver implements Output: it never switches a relay that nobody set.
THEOREM OutputImplemented == Spec => ImplementsOutput
<1>1. Init => Promise!Init
  <2> SUFFICES ASSUME Init PROVE Promise!Init
      OBVIOUS
  <2>1. UnderWay = [cmd \in Devs \X BOOLEAN |-> CountOf(<<>>, cmd[2])]
      BY DEF Init, UnderWay, CountOf
  <2>2. UnderWay = [cmd \in Devs \X BOOLEAN |-> 0]
      BY <2>1, CountEmpty
  <2> QED
      BY <2>2 DEF Init, Promise!Init, Promise!Commands, OpenSets
<1> QED
    BY <1>1, StepPromised, Invariant, PTL DEF Spec, ImplementsOutput, Promise!Spec

=============================================================================

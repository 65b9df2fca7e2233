------------------------------- MODULE Shelly -------------------------------
(***************************************************************************)
(* The Shelly driver: relays behind websocket connections.                 *)
(*                                                                         *)
(* Discovery makes a ShellyDevice, an object with a connection of its own, *)
(* for every address that answers.  A goroutine of the object reads        *)
(* notifications into Status; Set writes a request and does not wait for   *)
(* the answer: the device obeys it later, or the connection breaks.  A     *)
(* health check counts unhealthy objects and discovers again when there    *)
(* were too many.  GetOutput gives an IO a copy of the output, which keeps *)
(* the object of Setup for good.                                           *)
(*                                                                         *)
(* Every device has one switch; the devices and the network are external.  *)
(***************************************************************************)
EXTENDS Integers, FiniteSets, Sequences

CONSTANTS
    Devs,               \* the configured devices, by id and by address
    Callers,            \* goroutines that set outputs
    Handlers,           \* those of them that serve HomeKit
    NoOne,              \* no device is tried, or set
    UnhealthyLimit,     \* unhealthyCountLimit
    MaxCommands,        \* bound: calls of Set in a run
    MaxPresses,         \* bound: relays switched by hand in a run
    MaxBreaks,          \* bound: connection losses of a device in a run
    MaxBadMessages      \* bound: messages in a run that are read with an error, or
                        \* come while a discovery awaits the answer of their device

ASSUME NoOneAssumption == NoOne \notin Devs
ASSUME HandlersAssumption == Handlers \subseteq Callers
ASSUME DevsAssumption == IsFiniteSet(Devs)
ASSUME LimitAssumption == UnhealthyLimit \in Nat \ {0}
ASSUME BoundsAssumption ==
    /\ MaxCommands \in Nat /\ MaxPresses \in Nat
    /\ MaxBreaks \in Nat /\ MaxBadMessages \in Nat

\* The objects of a device: the one its IO holds, the one that has replaced it
\* in ShellyIO.Devices, and the one DiscoverShelly is making.
Objects == {"io", "map", "new"}

VARIABLES
    relay, online,      \* the devices: their outputs, and whether they answer
    obj,                \* the objects, with the messages on their connection
    current,            \* Devices: the object of a device, or "none"
    unhealthyCount,
    phase,              \* "setup", "running", "failed" or "crashed"
    worker,             \* what the goroutine that discovers does next
    todo, trying,       \* addrToTry, and the address at hand
    requests,           \* those of Set on the connection of the IO, under way
    pc,                 \* what the callers do: Idle, or the Set under way
    commands, presses, breaks, badMessages

device == <<relay, online>>
discovery == <<current, unhealthyCount, phase, worker, todo, trying>>
callers == <<requests, pc>>
budgets == <<commands, presses, breaks, badMessages>>
vars == <<device, obj, discovery, callers, budgets>>

Messages == {"notify", "reply"} \X BOOLEAN
Idle == [to |-> NoOne, value |-> FALSE, at |-> "idle"]

\* In WriteJSON, alone or with others.
Sets == [to : Devs, value : BOOLEAN, at : {"write", "race"}]
Blank == [status |-> FALSE, setError |-> FALSE, aged |-> TRUE,
          link |-> "none", reader |-> "none", queue |-> <<>>]

TypeOK ==
    /\ relay \in [Devs -> BOOLEAN] /\ online \in [Devs -> BOOLEAN]
    /\ \A d \in Devs, s \in Objects :
          /\ obj[d][s].status \in BOOLEAN /\ obj[d][s].setError \in BOOLEAN
          /\ obj[d][s].aged \in BOOLEAN
          /\ obj[d][s].link \in {"none", "up", "down"}
          /\ obj[d][s].reader \in {"none", "await", "start", "running", "gone"}
          /\ obj[d][s].queue \in Seq(Messages)
    /\ current \in [Devs -> {"none", "io", "map"}]
    /\ unhealthyCount \in 0..UnhealthyLimit + 1
    /\ phase \in {"setup", "running", "failed", "crashed"}
    /\ worker \in {"idle", "probe", "check", "try", "await"}
    /\ todo \subseteq Devs /\ trying \in Devs \cup {NoOne}
    /\ requests \in [Devs -> Seq(BOOLEAN)]
    /\ pc \in [Callers -> Sets \cup {Idle}]
    /\ commands \in 0..MaxCommands /\ presses \in 0..MaxPresses
    /\ breaks \in 0..MaxBreaks /\ badMessages \in 0..MaxBadMessages
    /\ phase = "running" => \A d \in Devs : current[d] # "none"

Init ==
    /\ relay \in [Devs -> BOOLEAN] /\ online \in [Devs -> BOOLEAN]
    /\ obj = [d \in Devs |-> [s \in Objects |-> Blank]]
    /\ current = [d \in Devs |-> "none"]
    /\ unhealthyCount = 0
    /\ phase = "setup" /\ worker = "probe" /\ todo = {} /\ trying = NoOne
    /\ requests = [d \in Devs |-> <<>>] /\ pc = [c \in Callers |-> Idle]
    /\ commands = 0 /\ presses = 0 /\ breaks = 0 /\ badMessages = 0

Alive == phase \in {"setup", "running"}

-----------------------------------------------------------------------------
(* The devices.                                                            *)

\* A device sends m on the connections that read.
Sent(d, m) ==
    [obj EXCEPT ![d] = [s \in Objects |->
        IF obj[d][s].link = "up" /\ obj[d][s].reader # "gone"
        THEN [obj[d][s] EXCEPT !.queue = Append(@, m)] ELSE obj[d][s]]]

\* It notifies when its output changes.
Notified(d, v) == IF relay[d] = v THEN obj ELSE Sent(d, <<"notify", v>>)

Press(d) ==
    /\ online[d]
    /\ presses < MaxPresses /\ presses' = presses + 1
    /\ relay' = [relay EXCEPT ![d] = ~@]
    /\ obj' = Notified(d, ~relay[d])
    /\ UNCHANGED <<online, discovery, callers, commands, breaks, badMessages>>

\* A status of its own accord, now and then: not before the last one is read.
Report(d) ==
    /\ \E s \in Objects : obj[d][s].link = "up" /\ obj[d][s].reader # "gone"
    /\ \A s \in Objects : obj[d][s].queue = <<>>
    /\ IF trying # d THEN UNCHANGED badMessages
       ELSE badMessages < MaxBadMessages /\ badMessages' = badMessages + 1
    /\ obj' = Sent(d, <<"notify", relay[d]>>)
    /\ UNCHANGED <<device, discovery, callers, commands, presses, breaks>>

\* The connections of a device break, with what is under way on them.
Break(d) ==
    /\ online[d]
    /\ breaks < MaxBreaks /\ breaks' = breaks + 1
    /\ online' \in [Devs -> BOOLEAN]
    /\ \A e \in Devs \ {d} : online'[e] = online[e]
    /\ obj' = [obj EXCEPT ![d] = [s \in Objects |->
                  IF obj[d][s].link = "up"
                  THEN [obj[d][s] EXCEPT !.link = "down", !.queue = <<>>] ELSE obj[d][s]]]
    /\ requests' = [requests EXCEPT ![d] = <<>>]
    /\ UNCHANGED <<relay, discovery, pc, commands, presses, badMessages>>

ComeBack(d) ==
    /\ ~online[d]
    /\ online' = [online EXCEPT ![d] = TRUE]
    /\ UNCHANGED <<relay, obj, discovery, callers, budgets>>

\* The answer to Shelly.GetStatus.
Reply(d) ==
    /\ Alive /\ worker = "await" /\ trying = d /\ obj[d]["new"].link = "up"
    /\ \A i \in DOMAIN obj[d]["new"].queue : obj[d]["new"].queue[i][1] # "reply"
    /\ obj' = [obj EXCEPT ![d]["new"].queue = Append(@, <<"reply", relay[d]>>)]
    /\ UNCHANGED <<device, discovery, callers, budgets>>

\* A faulty Set that calls Switch.Toggle.
Toggled(d, v) == ~relay[d]

\* The request is Switch.Set.
SwitchSet(d, v) == v

\* The device gets the next request.  Its answer has an id and no method: the
\* reader passes over it.
Obey(d) ==
    /\ requests[d] # <<>> /\ requests' = [requests EXCEPT ![d] = Tail(@)]
    /\ relay' = [relay EXCEPT ![d] = SwitchSet(d, Head(requests[d]))]
    /\ obj' = Notified(d, relay'[d])
    /\ UNCHANGED <<online, discovery, pc, budgets>>

-----------------------------------------------------------------------------
(* ListenForNotifications and HealthCheck.                                 *)

\* The goroutine starts with lastRefreshed at the present time.
Listen(d, s) ==
    /\ obj[d][s].reader = "start"
    /\ obj' = [obj EXCEPT ![d][s].reader = "running", ![d][s].aged = FALSE]
    /\ UNCHANGED <<device, discovery, callers, budgets>>

\* A faulty FillSwitches that fills the copy of the loop variable.
FilledCopy(o, v) == o

FilledSwitches(o, v) == [o EXCEPT !.status = v]

Read(d, s) ==
    /\ obj[d][s].reader = "running" /\ obj[d][s].queue # <<>>
    /\ LET read == [obj[d][s] EXCEPT !.queue = Tail(@), !.aged = FALSE]
       IN obj' = [obj EXCEPT ![d][s] = FilledSwitches(read, Head(obj[d][s].queue)[2])]
    /\ UNCHANGED <<device, discovery, callers, budgets>>

\* ReadJsonMessage returns an error: the connection is down, or the message
\* has another destination or an unknown id.  The reader ends, for good.
ReadError(d, s) ==
    /\ obj[d][s].reader = "running"
    /\ IF obj[d][s].link = "down" THEN UNCHANGED badMessages
       ELSE badMessages < MaxBadMessages /\ badMessages' = badMessages + 1
    /\ obj' = [obj EXCEPT ![d][s].reader = "gone", ![d][s].queue = <<>>]
    /\ UNCHANGED <<device, discovery, callers, commands, presses, breaks>>

\* maxTimeSinceRefresh passes without a notification.
Age(d, s) ==
    /\ obj[d][s].reader \in {"running", "gone"} /\ ~obj[d][s].aged
    /\ obj[d][s].queue = <<>>
    /\ obj' = [obj EXCEPT ![d][s].aged = TRUE]
    /\ UNCHANGED <<device, discovery, callers, budgets>>

Healthy(d, s) == ~obj[d][s].setError /\ ~obj[d][s].aged

Sick == {d \in Devs : current[d] # "none" /\ ~Healthy(d, current[d])}

\* startHealthCheck: a count that only a discovery resets.
HealthCheck ==
    /\ phase = "running" /\ worker = "idle"
    /\ unhealthyCount' = IF unhealthyCount + Cardinality(Sick) > UnhealthyLimit
                         THEN UnhealthyLimit + 1
                         ELSE unhealthyCount + Cardinality(Sick)
    /\ worker' = IF unhealthyCount' > UnhealthyLimit THEN "probe" ELSE "idle"
    /\ UNCHANGED <<device, obj, current, phase, todo, trying, callers, budgets>>

-----------------------------------------------------------------------------
(* discoverDevices.                                                        *)

\* getAddressesToTry asks every address.
Probe ==
    /\ worker = "probe"
    /\ todo' = {d \in Devs : online[d]}
    /\ worker' = "check"
    /\ UNCHANGED <<device, obj, current, unhealthyCount, phase, trying, callers, budgets>>

\* A faulty discovery that passes over every device it already has.
RemainingUnknown(healthy) == {d \in todo : current[d] = "none"}

\* The addresses left when those of healthy devices are removed.  They have no
\* Host, so each is taken for every healthy device: the only one is removed.
Remaining(healthy) == IF healthy # {} THEN {} ELSE todo

\* With two addresses the removal inside the loop runs past their end.
CheckDiscovered ==
    /\ worker = "check"
    /\ LET healthy == {d \in Devs : current[d] # "none"} \ Sick
       IN IF healthy # {} /\ Cardinality(todo) > 1
          THEN phase' = "crashed" /\ UNCHANGED <<worker, todo>>
          ELSE worker' = "try" /\ todo' = Remaining(healthy) /\ UNCHANGED phase
    /\ UNCHANGED <<device, obj, current, unhealthyCount, trying, callers, budgets>>

\* DiscoverShelly: the connection, and the answer to Shelly.GetDeviceInfo.
Dial(d) ==
    /\ worker = "try" /\ d \in todo
    /\ todo' = todo \ {d}
    /\ IF online[d]
       THEN /\ obj' = [obj EXCEPT ![d]["new"] =
                          [Blank EXCEPT !.link = "up", !.reader = "await"]]
            /\ trying' = d /\ worker' = "await"
       ELSE UNCHANGED <<obj, trying, worker>>
    /\ UNCHANGED <<device, current, unhealthyCount, phase, callers, budgets>>

\* SendJsonAwait has read the answer to Shelly.GetStatus.
GotStatus(d) ==
    /\ worker = "await" /\ trying = d
    /\ obj[d]["new"].queue # <<>> /\ Head(obj[d]["new"].queue)[1] = "reply"
    /\ LET slot == IF current[d] = "none" THEN "io" ELSE "map"
           made == [obj[d]["new"] EXCEPT !.status = Head(obj[d]["new"].queue)[2],
                                         !.queue = Tail(@), !.reader = "start"]
       IN /\ obj' = [obj EXCEPT ![d][slot] = made, ![d]["new"] = Blank]
          /\ current' = [current EXCEPT ![d] = slot]
    /\ worker' = "try" /\ trying' = NoOne
    /\ UNCHANGED <<device, unhealthyCount, phase, todo, callers, budgets>>

\* The connection broke; or the one message SendJsonAwait reads was a
\* notification, and it waits for the answer until its context times out.
GiveUp(d) ==
    /\ worker = "await" /\ trying = d
    /\ \/ obj[d]["new"].link = "down"
       \/ obj[d]["new"].queue # <<>> /\ Head(obj[d]["new"].queue)[1] = "notify"
    /\ obj' = [obj EXCEPT ![d]["new"] = Blank]
    /\ worker' = "try" /\ trying' = NoOne
    /\ UNCHANGED <<device, current, unhealthyCount, phase, todo, callers, budgets>>

\* A faulty matchIOs that passes over a device it does not find.
FoundSome == TRUE

\* Every output has its device.
FoundAll == \A d \in Devs : current[d] # "none"

MatchIOs ==
    /\ worker = "try" /\ todo = {}
    /\ worker' = "idle"
    /\ phase' = IF FoundAll THEN "running" ELSE "failed"
    /\ unhealthyCount' = 0
    /\ UNCHANGED <<device, obj, current, todo, trying, callers, budgets>>

-----------------------------------------------------------------------------
(* ShellyOutput.Set, by two goroutines at a time: RpcClient locks its list  *)
(* of requests, and not the connection, which is for one writer at a time. *)

Writers(d) == {c \in Callers : pc[c].to = d}

StartSet(c, d, v) ==
    /\ phase = "running" /\ pc[c] = Idle
    /\ commands < MaxCommands /\ commands' = commands + 1
    /\ LET at == IF Writers(d) = {} THEN "write" ELSE "race"
       IN pc' = [b \in Callers |->
                    IF b = c THEN [to |-> d, value |-> v, at |-> at]
                    ELSE IF b \in Writers(d) THEN [pc[b] EXCEPT !.at = "race"] ELSE pc[b]]
    /\ UNCHANGED <<device, obj, requests, discovery, presses, breaks, badMessages>>

Request(c, d) == requests' = [requests EXCEPT ![d] = Append(@, pc[c].value)]

\* WriteJSON returns when the bytes are written, and SetSwitch keeps its error.
\* Writing to a broken connection is an error, or is not noticed; of two writers at
\* a time either may garble the request of the other, which is lost.
EndSet(c, d) ==
    /\ phase = "running" /\ c \in Writers(d)
    /\ \E err \in BOOLEAN :
          /\ obj' = [obj EXCEPT ![d]["io"].setError = err]
          /\ \/ obj[d]["io"].link = "up" /\ ~err /\ Request(c, d)
             \/ obj[d]["io"].link = "up" /\ ~err /\ pc[c].at = "race" /\ UNCHANGED requests
             \/ obj[d]["io"].link = "down" /\ UNCHANGED requests
    /\ pc' = [pc EXCEPT ![c] = Idle]
    /\ UNCHANGED <<device, discovery, budgets>>

\* Or WriteJSON notices the other writer, as far as the library does, and panics:
\* that ends the program, or only the handler of HomeKit's server.
Panic(c, d) ==
    /\ phase = "running" /\ c \in Writers(d) /\ pc[c].at = "race"
    /\ \/ obj[d]["io"].link = "up" /\ Request(c, d)
       \/ UNCHANGED requests
    /\ pc' = [pc EXCEPT ![c] = Idle]
    /\ phase' = IF c \in Handlers THEN phase ELSE "crashed"
    /\ UNCHANGED <<device, obj, current, unhealthyCount, worker, todo, trying, budgets>>

-----------------------------------------------------------------------------

Discover ==
    /\ Alive
    /\ \/ HealthCheck \/ Probe \/ CheckDiscovered \/ MatchIOs
       \/ \E d \in Devs : Dial(d) \/ GotStatus(d) \/ GiveUp(d)

Goroutine(d, s) == Alive /\ (Listen(d, s) \/ Read(d, s))

DeviceStep(d) == Alive /\ (Press(d) \/ Report(d) \/ Break(d) \/ ComeBack(d))

ObjectFails(d, s) == Alive /\ (ReadError(d, s) \/ Age(d, s))

Next ==
    \/ Discover
    \/ \E d \in Devs : DeviceStep(d) \/ Reply(d)
    \/ \E d \in Devs, s \in Objects : Goroutine(d, s) \/ ObjectFails(d, s)
    \/ \E d \in Devs : Obey(d)
    \/ \E c \in Callers, d \in Devs : EndSet(c, d) \/ Panic(c, d)
    \/ \E c \in Callers, d \in Devs, v \in BOOLEAN : StartSet(c, d, v)

\* Goroutines run, connected devices answer, and time passes.
Fairness ==
    /\ WF_vars(Discover)
    /\ \A d \in Devs : WF_vars(Reply(d))
    /\ \A d \in Devs, s \in {"io", "map"} :
          WF_vars(Goroutine(d, s)) /\ WF_vars(Alive /\ Age(d, s))
    /\ \A c \in Callers, d \in Devs : WF_vars(EndSet(c, d))

Spec == Init /\ [][Next]_vars
FairSpec == Spec /\ Fairness

-----------------------------------------------------------------------------

\* What the object will have when it has read the messages under way.
LastKnown(d, s) ==
    LET queue == obj[d][s].queue
    IN IF queue = <<>> THEN obj[d][s].status ELSE queue[Len(queue)][2]

\* An object with a connection and a reader knows the output of its device, but
\* for the messages under way: no change is lost between the status asked for
\* in DiscoverShelly and the notifications that follow.
StatusTracksRelay ==
    \A d \in Devs, s \in {"io", "map"} :
        obj[d][s].link = "up" /\ obj[d][s].reader \in {"start", "running"}
            => LastKnown(d, s) = relay[d]

OpenSets ==
    [c \in Callers |-> IF pc[c] = Idle THEN {} ELSE {<<pc[c].to, pc[c].value>>}]

UnderWay ==
    [cmd \in Devs \X BOOLEAN |->
        Cardinality({i \in DOMAIN requests[cmd[1]] : requests[cmd[1]][i] = cmd[2]})]

\* A relay only changes when somebody presses it or when the device gets the
\* request of a Set, once: when the Set has written it, or never when the connection
\* breaks before.  No discovery and no health check switches a relay.
Promise == INSTANCE Output WITH
    Outputs <- Devs, light <- relay, hands <- presses, late <- UnderWay,
    open <- OpenSets

ImplementsOutput == Promise!Spec

Live(d, s) == /\ Healthy(d, s)
              /\ obj[d][s].link = "up" /\ obj[d][s].reader = "running"

StaysUp == <>[](phase = "running" /\ \A d \in Devs : online[d])

\* Once the devices stay reachable, the health check and the discovery bring
\* the driver back to a working object of each.
DriverRecovers == StaysUp => \A d \in Devs : []<>(current[d] # "none" /\ Live(d, current[d]))

\* They do so for the IOs, which "performing discovery" is for.
OutputsRecover == StaysUp => \A d \in Devs : []<>Live(d, "io")

=============================================================================

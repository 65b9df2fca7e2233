------------------------------- MODULE IoLoop -------------------------------
(***************************************************************************)
(* The IO loop of swkit: lights, outlets, switches, buttons and motion     *)
(* sensors, as three kinds of goroutines share them without a common lock. *)
(*                                                                         *)
(*  - the ticker goroutine (SwKit.StartTicker) calls Sync on every IO, in  *)
(*    the order of getIos, forever;                                        *)
(*  - HomeKit connections call SetValue of a light or an outlet, or Set of *)
(*    a switch, when a controller writes the On characteristic;            *)
(*  - push goroutines (an MCP23017 listener, a remote-io HTTP handler)     *)
(*    call Button.FireEvent, which toggles the devices of the button.      *)
(*                                                                         *)
(* A step is one access to what another goroutine may change meanwhile: a  *)
(* State field, an On characteristic or a pin of the driver.  What only    *)
(* the ticker writes, the StatusFault, goes with the step before it.  The  *)
(* driver here is one that reads and writes its pins directly (gpio,       *)
(* mcp_io, the mock).                                                      *)
(***************************************************************************)
EXTENDS Integers, Sequences, Functions

CONSTANTS
    Lights, Outlets, Switches, Motions, Buttons,
    Ticker,         \* the goroutine of SwKit.StartTicker
    HkClients,      \* goroutines that serve HomeKit connections
    Pushers,        \* goroutines that report push events
    SwitchSlice,    \* Switch.switchSlice, as MatchControllers filled it
    ToggleMap,      \* Button.toggleMap, likewise
    SyncOrder,      \* getIos, without the buttons: their Sync does nothing
    HkDisabled,     \* the IOs configured with DisableHomekit
    MaxCommands,    \* bound: writes, presses and input changes of a run
    MaxFaults       \* bound: driver calls that return an error in a run

Devices == Lights \cup Outlets
Ios == Devices \cup Switches \cup Motions
Threads == {Ticker} \cup HkClients \cup Pushers

\* drivers.PushEvent: single, double and long press.
PushEvents == 0..2

ASSUME ThreadsAssumption ==
    /\ Ticker \notin HkClients \cup Pushers
    /\ HkClients \cap Pushers = {}

ASSUME KindsAssumption ==
    /\ Lights \cap (Outlets \cup Switches \cup Motions) = {}
    /\ Outlets \cap (Switches \cup Motions) = {}
    /\ Switches \cap Motions = {}

ASSUME WiringAssumption ==
    /\ SwitchSlice \in [Switches -> Seq(Devices)]
    /\ ToggleMap \in [Buttons -> [PushEvents -> Seq(Devices)]]
    /\ HkDisabled \subseteq Ios

\* getIos appends the lights, then the switches, the outlets and the motion
\* sensors.
Rank(i) == CASE i \in Lights -> 1 [] i \in Switches -> 2
             [] i \in Outlets -> 3 [] i \in Motions -> 4

ASSUME SyncOrderAssumption ==
    /\ SyncOrder \in Seq(Ios) /\ SyncOrder # <<>>
    /\ Range(SyncOrder) = Ios
    /\ \A j, k \in DOMAIN SyncOrder :
           j < k => /\ SyncOrder[j] # SyncOrder[k]
                    /\ Rank(SyncOrder[j]) =< Rank(SyncOrder[k])

ASSUME BoundsAssumption == MaxCommands \in Nat /\ MaxFaults \in Nat

VARIABLES
    State,      \* the State field of every IO
    level,      \* the pin of every IO, as its driver would read it
    hk,         \* the On or MotionDetected value HomeKit shows for every IO
    fault,      \* the StatusFault characteristic of every IO
    pc,         \* what every goroutine does next
    todo,       \* the devices whose SetValue or Toggle it still has to call
    val,        \* the value its current call reads, stores or sets
    old,        \* what the ticker's current Sync compares State with
    failed,     \* the ticker's GetState returned an error
    turn,       \* the position of the ticker in SyncOrder
    crashed,    \* the process died of a nil dereference
    commands,   \* writes, presses and input changes so far
    faults,     \* driver errors so far
    asked       \* history: the devices somebody has asked to be on

calls == <<pc, todo, val>>
ghosts == <<commands, faults, asked>>
vars == <<State, level, hk, fault, calls, old, failed, turn, crashed, ghosts>>

\* The IO whose Sync the ticker is in.
Cur == SyncOrder[turn]

\* The devices a switch drives.
Controlled(s) == Range(SwitchSlice[s])

Labels == {"idle", "getState", "assign", "readHk", "compare", "show", "publish",
           "read", "store", "load", "set"}

\* The first step of a Sync after the State is assigned.
AfterAssign(i) == CASE i \in Lights -> "readHk"
                    [] i \in Outlets \cup Switches -> "compare"
                    [] i \in Motions -> "show"

TypeOK ==
    /\ State \in [Ios -> BOOLEAN]
    /\ level \in [Ios -> BOOLEAN]
    /\ hk \in [Ios -> BOOLEAN]
    /\ fault \in [Ios -> BOOLEAN]
    /\ pc \in [Threads -> Labels]
    /\ todo \in [Threads -> Seq(Devices \cup Switches)]
    /\ val \in [Threads -> BOOLEAN]
    /\ old \in BOOLEAN /\ failed \in BOOLEAN /\ crashed \in BOOLEAN
    /\ turn \in DOMAIN SyncOrder
    /\ commands \in 0..MaxCommands
    /\ faults \in 0..MaxFaults
    /\ asked \subseteq Devices

-----------------------------------------------------------------------------

\* After Init of every IO: the fields are Go's zero values, the pins are what
\* they are, a motion sensor has shown its first reading and a fault.
Init ==
    /\ level \in [Ios -> BOOLEAN]
    /\ State = [i \in Ios |-> FALSE]
    /\ hk = [i \in Ios |-> i \in Motions \ HkDisabled /\ level[i]]
    /\ fault = [i \in Ios |-> i \in Motions \ HkDisabled]
    /\ pc = [g \in Threads |-> "idle"]
    /\ todo = [g \in Threads |-> <<>>]
    /\ val = [g \in Threads |-> FALSE]
    /\ old = FALSE /\ failed = FALSE /\ crashed = FALSE
    /\ turn = 1
    /\ commands = 0 /\ faults = 0
    /\ asked = {d \in Devices : level[d]}
               \cup UNION {Controlled(s) : s \in {t \in Switches : level[t]}}

Goto(g, label) == pc' = [pc EXCEPT ![g] = label]

\* A faulty ticker that runs off the end of getIos.
NextTurnUnwrapped == turn + 1

\* The IO after Cur; after the last one StartTicker waits for the next tick.
NextTurn == IF turn = Len(SyncOrder) THEN 1 ELSE turn + 1

\* The ticker's Sync returns.
EndSync ==
    /\ Goto(Ticker, "idle")
    /\ turn' = NextTurn
    /\ todo' = [todo EXCEPT ![Ticker] = <<>>]
    /\ val' = [val EXCEPT ![Ticker] = FALSE]
    /\ old' = FALSE /\ failed' = FALSE

\* Switch.Sync, after the publication: a SetValue for every controlled device.
PushToDevices ==
    /\ Goto(Ticker, "read")
    /\ todo' = [todo EXCEPT ![Ticker] = SwitchSlice[Cur]]
    /\ UNCHANGED <<val, old, failed, turn>>

\* A faulty Switch.Sync, which drives its devices only on a change.
AfterPublishOnChange ==
    IF Cur \in Switches /\ SwitchSlice[Cur] # <<>> /\ State[Cur] # old
    THEN PushToDevices ELSE EndSync

\* What follows the publication of Cur in its Sync.
AfterPublish ==
    IF Cur \in Switches /\ SwitchSlice[Cur] # <<>>
    THEN PushToDevices ELSE EndSync

-----------------------------------------------------------------------------
(* The ticker: one Sync, step by step.                                     *)

\* Sync of an outlet or a switch starts by keeping the previous State.
KeepsOld(i) == i \in Outlets \cup Switches

BeginSync ==
    /\ pc[Ticker] = "idle" /\ KeepsOld(Cur)
    /\ Goto(Ticker, "getState")
    /\ old' = State[Cur]
    /\ UNCHANGED <<State, level, hk, fault, todo, val, failed, turn, crashed,
                   ghosts>>

\* A faulty driver whose failed read reports the pin as high.
FailedReadHigh == TRUE

\* The value that comes with an error: the zero value of bool.
FailedRead == FALSE

\* output.GetState() or input.GetState().
GetState ==
    /\ pc[Ticker] = IF KeepsOld(Cur) THEN "getState" ELSE "idle"
    /\ Goto(Ticker, "assign")
    /\ \/ /\ val' = [val EXCEPT ![Ticker] = level[Cur]]
          /\ UNCHANGED <<failed, faults>>
       \/ /\ faults < MaxFaults
          /\ faults' = faults + 1
          /\ failed' = TRUE
          /\ val' = [val EXCEPT ![Ticker] = FailedRead]
    /\ UNCHANGED <<State, level, hk, fault, todo, old, turn, crashed,
                   commands, asked>>

\* The assignment of State and err, the fault status, and the early return of
\* every Sync but a motion sensor's.
Assign ==
    /\ pc[Ticker] = "assign"
    /\ State' = [State EXCEPT ![Cur] = val[Ticker]]
    /\ fault' = [fault EXCEPT ![Cur] = Cur \notin HkDisabled /\ failed]
    /\ IF failed /\ Cur \notin Motions
       THEN EndSync
       ELSE /\ Goto(Ticker, AfterAssign(Cur))
            /\ UNCHANGED <<todo, val, old, failed, turn>>
    /\ UNCHANGED <<level, hk, crashed, ghosts>>

\* Light.Sync evaluates li.hk.Lightbulb.On before it tests li.hk for nil: the
\* first good read of a light without HomeKit is a nil dereference.
ReadHkCrashes(i) == i \in HkDisabled

\* A faulty Light.Sync, which compares State with itself.
StateItself(i) == State[i]

\* What a light compares its State with: On.Value().
Shown(i) == hk[i]

\* Light.Sync asks HomeKit what it shows, before it reads State to compare it:
\* in a Go expression the calls come first.
ReadHk ==
    /\ pc[Ticker] = "readHk"
    /\ crashed' = ReadHkCrashes(Cur)
    /\ IF ReadHkCrashes(Cur)
       THEN UNCHANGED <<pc, old>>
       ELSE Goto(Ticker, "compare") /\ old' = Shown(Cur)
    /\ UNCHANGED <<State, level, hk, fault, todo, val, failed, turn, ghosts>>

\* The comparison of State with what HomeKit showed, of a light, or with the
\* State before the read, of an outlet or a switch.
Compare ==
    /\ pc[Ticker] = "compare"
    /\ IF State[Cur] # old /\ Cur \notin HkDisabled
       THEN Goto(Ticker, "show") /\ UNCHANGED <<todo, val, old, failed, turn>>
       ELSE AfterPublish
    /\ UNCHANGED <<State, level, hk, fault, crashed, ghosts>>

\* The argument of hk...SetValue(State): State as it is at that moment.
Show ==
    /\ pc[Ticker] = "show"
    /\ val' = [val EXCEPT ![Ticker] = State[Cur]]
    /\ Goto(Ticker, "publish")
    /\ UNCHANGED <<State, level, hk, fault, todo, old, failed, turn, crashed,
                   ghosts>>

\* The SetValue itself.  State, and what HomeKit shows, may have changed since.
Publish ==
    /\ pc[Ticker] = "publish"
    /\ hk' = [hk EXCEPT ![Cur] = IF Cur \in HkDisabled THEN @ ELSE val[Ticker]]
    /\ AfterPublish
    /\ UNCHANGED <<State, level, fault, crashed, ghosts>>

-----------------------------------------------------------------------------
(* SetValue and Toggle, step by step, in whatever goroutine calls them.    *)

\* The device, or the switch, of the call that g is in.
Target(g) == Head(todo[g])

\* The call returns: g goes on with the next device, or is done.
Return(g) ==
    IF Len(todo[g]) > 1
    THEN /\ Goto(g, "read")
         /\ todo' = [todo EXCEPT ![g] = Tail(@)]
         /\ UNCHANGED <<val, old, failed, turn>>
    ELSE IF g = Ticker
         THEN EndSync
         ELSE /\ Goto(g, "idle")
              /\ todo' = [todo EXCEPT ![g] = <<>>]
              /\ val' = [val EXCEPT ![g] = FALSE]
              /\ UNCHANGED <<old, failed, turn>>

\* A faulty Switch.Sync that toggles its devices.
ToggledArgument(g) == ~State[Target(g)]

\* The argument of the call: swb.State in Switch.Sync, !State in Toggle.
Argument(g) == IF g = Ticker THEN State[Cur] ELSE ~State[Target(g)]

Read(g) ==
    /\ pc[g] = "read"
    /\ val' = [val EXCEPT ![g] = Argument(g)]
    /\ Goto(g, "store")
    /\ UNCHANGED <<State, level, hk, fault, todo, old, failed, turn, crashed,
                   ghosts>>

\* State = state.  It is all that Switch.Set does.
Store(g) ==
    /\ pc[g] = "store"
    /\ State' = [State EXCEPT ![Target(g)] = val[g]]
    /\ IF Target(g) \in Devices
       THEN Goto(g, "load") /\ UNCHANGED <<todo, val, old, failed, turn>>
       ELSE Return(g)
    /\ UNCHANGED <<level, hk, fault, crashed, ghosts>>

\* The argument of output.Set(State): State is read again, and another
\* goroutine may have written it since.
Load(g) ==
    /\ pc[g] = "load"
    /\ val' = [val EXCEPT ![g] = State[Target(g)]]
    /\ Goto(g, "set")
    /\ UNCHANGED <<State, level, hk, fault, todo, old, failed, turn, crashed,
                   ghosts>>

\* output.Set: the pin changes, or the driver returns an error nobody reads.
SetOutput(g) ==
    /\ pc[g] = "set"
    /\ \/ /\ level' = [level EXCEPT ![Target(g)] = val[g]]
          /\ UNCHANGED faults
       \/ /\ faults < MaxFaults
          /\ faults' = faults + 1
          /\ UNCHANGED level
    /\ Return(g)
    /\ UNCHANGED <<State, hk, fault, crashed, commands, asked>>

CallStep(g) == Read(g) \/ Store(g) \/ Load(g) \/ SetOutput(g)

-----------------------------------------------------------------------------
(* What starts a call: HomeKit, a push event, somebody at a wall switch.   *)

Command == commands < MaxCommands /\ commands' = commands + 1

\* A controller writes On of io: the library changes the characteristic, then
\* calls the function given to OnValueRemoteUpdate.
HkWrite(g, io, v) ==
    /\ Command
    /\ pc[g] = "idle"
    /\ hk' = [hk EXCEPT ![io] = v]
    /\ todo' = [todo EXCEPT ![g] = <<io>>]
    /\ val' = [val EXCEPT ![g] = v]
    /\ Goto(g, "store")
    /\ asked' = CASE ~v -> asked
                  [] v /\ io \in Switches -> asked \cup Controlled(io)
                  [] v /\ io \in Devices -> asked \cup {io}
    /\ UNCHANGED <<State, level, fault, old, failed, turn, crashed, faults>>

\* Button.FireEvent: Toggle for every device of the event.
FireEvent(g, b, e) ==
    /\ Command
    /\ pc[g] = "idle"
    /\ ToggleMap[b][e] # <<>>
    /\ todo' = [todo EXCEPT ![g] = ToggleMap[b][e]]
    /\ Goto(g, "read")
    /\ asked' = asked \cup Range(ToggleMap[b][e])
    /\ UNCHANGED <<State, level, hk, fault, val, old, failed, turn, crashed,
                   faults>>

\* An input pin changes.
InputChange(i) ==
    /\ Command
    /\ level' = [level EXCEPT ![i] = ~@]
    /\ asked' = IF i \in Switches /\ ~level[i] THEN asked \cup Controlled(i)
                ELSE asked
    /\ UNCHANGED <<State, hk, fault, calls, old, failed, turn, crashed, faults>>

-----------------------------------------------------------------------------

SyncStep ==
    BeginSync \/ GetState \/ Assign \/ ReadHk \/ Compare \/ Show \/ Publish

TickerStep == ~crashed /\ (SyncStep \/ CallStep(Ticker))

Environment ==
    \/ \E g \in HkClients, io \in (Devices \cup Switches) \ HkDisabled,
          v \in BOOLEAN : HkWrite(g, io, v)
    \/ \E g \in Pushers, b \in Buttons, e \in PushEvents : FireEvent(g, b, e)
    \/ \E i \in Switches \cup Motions : InputChange(i)

Next ==
    \/ TickerStep
    \/ \E g \in HkClients \cup Pushers : ~crashed /\ CallStep(g)
    \/ ~crashed /\ Environment

\* The Go scheduler runs every runnable goroutine, and the ticker never ends.
Fairness ==
    /\ WF_vars(TickerStep)
    /\ \A g \in HkClients \cup Pushers : WF_vars(~crashed /\ CallStep(g))

Spec == Init /\ [][Next]_vars
FairSpec == Spec /\ Fairness

-----------------------------------------------------------------------------
(* Safety.                                                                 *)

\* A light or an outlet is never on, nor shown as on in HomeKit, unless it was
\* on at the start or somebody asked for it: by a write in HomeKit, a press of
\* one of its buttons, or one of its switches that is or was closed.  No
\* failed read and no interleaving of the unlocked SetValue, Toggle and Sync
\* invents an ON.
NoPhantomOn ==
    \A d \in Devices : (level[d] \/ State[d] \/ hk[d]) => d \in asked

\* The State of an IO is its pin and it shows no fault; a light or a motion
\* sensor shows its State in HomeKit.
AgreedOn(i) ==
    /\ State[i] = level[i] /\ ~fault[i]
    /\ i \in (Lights \cup Motions) \ HkDisabled => hk[i] = State[i]

Agreed == \A i \in Ios : AgreedOn(i)

\* The devices of a switch are as the switch is.
Ruled == \A s \in Switches : \A d \in Controlled(s) : level[d] = level[s]

\* Nobody but the ticker is at work, and it carries what is so already: the
\* reading of a Sync, the State it is about to publish, the value it is about to
\* set.  (A ticker that read State before the last command, and publishes it
\* after, is the one thing that leaves a settled HomeKit wrong, until the next
\* Sync of a light, and until the next change of an outlet or a switch.)
Settled ==
    /\ Agreed /\ Ruled
    /\ \A g \in HkClients \cup Pushers : pc[g] = "idle"
    /\ ~failed
    /\ pc[Ticker] \in {"assign", "publish"} => val[Ticker] = level[Cur]
    /\ pc[Ticker] \in {"store", "set"} => val[Ticker] = level[Target(Ticker)]

\* Polling does not disturb what is settled, though it reads and writes every
\* State, publishes and sets the devices of every switch again on each tick: only
\* a command, an input or a driver error does.
SettledStays == [][Settled /\ UNCHANGED <<commands, faults>> => Settled']_vars

-----------------------------------------------------------------------------
(* Liveness: once no more commands and faults come (both are bounded), the *)
(* polling of the ticker repairs what the races and the errors left.       *)

\* The switches of a device, if it has several, stand alike.  MatchControllers
\* lets a device have any number of them.
Undisputed(i) ==
    \A s, t \in Switches :
        i \in Controlled(s) \cap Controlled(t) => level[s] = level[t]

\* Field, pin and HomeKit of an IO end up in agreement, unless it is a device
\* whose switches go on standing differently.
PollsConverge == \A i \in Ios : <>[]Undisputed(i) => <>[]AgreedOn(i)

\* A device always comes back to where a switch of it stands, whatever HomeKit, a
\* button or another switch did to it: Switch.Sync drives it on every tick.  So it
\* ends up as its switches are, and flips for ever if they stand differently.
SwitchesRule ==
    \A s \in Switches : \A d \in Controlled(s) :
        /\ []<>(level[d] = level[s])
        /\ <>[]Undisputed(d) => <>[](level[d] = level[s])

=============================================================================

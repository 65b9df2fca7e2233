---------------------------- MODULE IoLoopProofs ----------------------------
(***************************************************************************)
(* Proofs about IoLoop for any installation: any numbers of IOs, HomeKit   *)
(* connections and push goroutines, and any wiring.                        *)
(***************************************************************************)
EXTENDS IoLoop, SequenceTheorems, TLAPS

\* The labels of a goroutine that is in a SetValue or Toggle call.
InCall == {"read", "store", "load", "set"}

\* A goroutine in a call has a device to call.
CallsReady == \A g \in Threads : pc[g] \in InCall => todo[g] # <<>>

TypeInv == TypeOK /\ CallsReady

\* The part of it about the control state.
ControlType ==
    /\ pc \in [Threads -> Labels]
    /\ todo \in [Threads -> Seq(Devices \cup Switches)]
    /\ val \in [Threads -> BOOLEAN]
    /\ old \in BOOLEAN /\ failed \in BOOLEAN
    /\ turn \in DOMAIN SyncOrder
    /\ CallsReady

\* Taking the first element off a non-empty sequence.
LEMMA TailFacts ==
    ASSUME NEW S, NEW s \in Seq(S), s # <<>>
    PROVE  /\ Head(s) \in S /\ Head(s) \in Range(s)
           /\ Tail(s) \in Seq(S) /\ Range(Tail(s)) \subseteq Range(s)
           /\ Len(s) > 1 => Tail(s) # <<>>
           /\ Len(s) \in Nat \ {0}
<1>1. Len(s) \in Nat \ {0} /\ Head(s) = s[1] /\ Tail(s) \in Seq(S)
  BY EmptySeq
<1>2. \A k \in DOMAIN Tail(s) : k + 1 \in DOMAIN s /\ Tail(s)[k] = s[k + 1]
  BY <1>1
<1>3. Range(Tail(s)) \subseteq Range(s)
  BY <1>2 DEF Range
<1>4. Head(s) \in S /\ Head(s) \in Range(s)
  BY <1>1 DEF Range
<1>5. Len(s) > 1 => Tail(s) # <<>>
  <2>1. Len(Tail(s)) = Len(s) - 1
    BY HeadTailProperties
  <2>2. Len(<<>>) = 0
    BY EmptySeq
  <2>3. Len(s) > 1 => Len(Tail(s)) # 0
    BY <1>1, <2>1
  <2> QED BY <2>2, <2>3, Zenon
<1> QED BY <1>1, <1>3, <1>4, <1>5

\* The wiring only names devices, and the ticker only syncs IOs.
LEMMA WiringFacts ==
    /\ \A s \in Switches : /\ SwitchSlice[s] \in Seq(Devices \cup Switches)
                           /\ Controlled(s) \subseteq Devices
    /\ \A b \in Buttons, e \in PushEvents :
           /\ ToggleMap[b][e] \in Seq(Devices \cup Switches)
           /\ Range(ToggleMap[b][e]) \subseteq Devices
    /\ \A k \in DOMAIN SyncOrder : SyncOrder[k] \in Ios
    /\ 1 \in DOMAIN SyncOrder
<1>1. \A q \in Seq(Devices) : /\ q \in Seq(Devices \cup Switches)
                              /\ Range(q) \subseteq Devices
  BY DEF Range
<1>2. SyncOrder \in Seq(Ios) /\ SyncOrder # <<>>
  BY SyncOrderAssumption
<1>3. 1 \in DOMAIN SyncOrder /\ \A k \in DOMAIN SyncOrder : SyncOrder[k] \in Ios
  BY <1>2
<1> QED BY <1>1, <1>3, WiringAssumption DEF Controlled

-----------------------------------------------------------------------------
(* Type correctness.                                                       *)

\* Returning from a Sync keeps the control state well typed.
LEMMA EndSyncControl ==
    ASSUME TypeInv, EndSync  PROVE ControlType'
<1>1. Ticker \in Threads
  BY DEF Threads
<1>2. turn' \in DOMAIN SyncOrder
  BY WiringFacts, SyncOrderAssumption DEF EndSync, NextTurn, TypeInv, TypeOK
<1>3. <<>> \in Seq(Devices \cup Switches)
  BY EmptySeq
<1>4. /\ pc' \in [Threads -> Labels]
      /\ todo' \in [Threads -> Seq(Devices \cup Switches)]
      /\ val' \in [Threads -> BOOLEAN]
      /\ old' \in BOOLEAN /\ failed' \in BOOLEAN
  BY <1>1, <1>3 DEF EndSync, Goto, TypeInv, TypeOK, Labels
<1>5. CallsReady'
  BY <1>1 DEF EndSync, Goto, TypeInv, TypeOK, CallsReady, InCall
<1> QED BY <1>2, <1>4, <1>5 DEF ControlType

\* So does going on to the devices of a switch.
LEMMA AfterPublishControl ==
    ASSUME TypeInv, AfterPublish  PROVE ControlType'
<1>1. CASE EndSync
  BY <1>1, EndSyncControl
<1>2. CASE Cur \in Switches /\ SwitchSlice[Cur] # <<>> /\ PushToDevices
  <2>1. Ticker \in Threads
    BY DEF Threads
  <2> QED BY <1>2, <2>1, WiringFacts
          DEF PushToDevices, Goto, TypeInv, TypeOK, CallsReady, InCall,
              ControlType, Labels
<1> QED BY <1>1, <1>2 DEF AfterPublish

\* So does returning from a SetValue.
LEMMA ReturnControl ==
    ASSUME TypeInv, NEW g \in Threads, pc[g] \in InCall, Return(g)
    PROVE  ControlType'
<1>1. todo[g] \in Seq(Devices \cup Switches) /\ todo[g] # <<>>
  BY DEF TypeInv, TypeOK, CallsReady
<1>2. CASE Len(todo[g]) > 1
  <2>1. /\ Tail(todo[g]) \in Seq(Devices \cup Switches)
        /\ Tail(todo[g]) # <<>>
    BY <1>1, <1>2, TailFacts
  <2> QED BY <1>2, <2>1
          DEF Return, Goto, TypeInv, TypeOK, CallsReady, InCall, ControlType,
              Labels
<1>3. CASE ~(Len(todo[g]) > 1) /\ g = Ticker
  BY <1>3, EndSyncControl DEF Return
<1>4. CASE ~(Len(todo[g]) > 1) /\ g # Ticker
  <2>1. <<>> \in Seq(Devices \cup Switches)
    BY EmptySeq
  <2> QED BY <1>4, <2>1
          DEF Return, Goto, TypeInv, TypeOK, CallsReady, InCall, ControlType,
              Labels
<1> QED BY <1>2, <1>3, <1>4

\* One step of a SetValue or Toggle call, in any goroutine.
LEMMA CallStepType ==
    ASSUME TypeInv, NEW g \in Threads, CallStep(g)  PROVE TypeInv'
<1> USE DEF TypeInv, TypeOK, ControlType, ghosts
<1>1. turn \in DOMAIN SyncOrder => Cur \in Ios
  BY WiringFacts DEF Cur
<1>2. CASE Read(g)
  <2>1. Argument(g) \in BOOLEAN
    BY <1>1, <1>2, TailFacts DEF Read, Argument, Target, CallsReady, InCall, Ios
  <2> QED BY <1>2, <2>1 DEF Read, Goto, CallsReady, InCall, Labels
<1>3. CASE Store(g)
  <2>1. pc[g] \in InCall
    BY <1>3 DEF Store, InCall
  <2>2. CASE Target(g) \in Devices
    BY <1>3, <2>1, <2>2 DEF Store, Goto, CallsReady, InCall, Labels
  <2>3. CASE Target(g) \notin Devices
    BY <1>3, <2>1, <2>3, ReturnControl DEF Store
  <2> QED BY <2>2, <2>3
<1>4. CASE Load(g)
  <2>1. Target(g) \in Ios
    BY <1>4, TailFacts DEF Load, Target, CallsReady, InCall, Ios
  <2> QED BY <1>4, <2>1 DEF Load, Goto, CallsReady, InCall, Labels
<1>5. CASE SetOutput(g)
  <2>1. pc[g] \in InCall
    BY <1>5 DEF SetOutput, InCall
  <2>2. ControlType'
    BY <1>5, <2>1, ReturnControl DEF SetOutput
  <2>3. level' \in [Ios -> BOOLEAN] /\ faults' \in 0..MaxFaults
    BY <1>5, BoundsAssumption DEF SetOutput
  <2> QED BY <1>5, <2>2, <2>3 DEF SetOutput
<1> QED BY <1>2, <1>3, <1>4, <1>5 DEF CallStep

\* Where a Sync goes on with its good reading.
LEMMA AfterAssignLabel ==
    ASSUME NEW i \in Ios
    PROVE  AfterAssign(i) \in {"readHk", "compare", "show"}
BY DEF AfterAssign, Ios, Devices

\* One step of a Sync of the ticker.
LEMMA SyncStepType ==
    ASSUME TypeInv, SyncStep  PROVE TypeInv'
<1> USE DEF TypeInv, TypeOK, ghosts
<1>1. Cur \in Ios /\ Ticker \in Threads
  BY WiringFacts DEF Cur, Threads
<1>2. CASE BeginSync
  BY <1>1, <1>2 DEF BeginSync, Goto, CallsReady, InCall, Labels
<1>3. CASE GetState
  <2>1. faults' \in 0..MaxFaults
    BY <1>3, BoundsAssumption DEF GetState
  <2>2. val' \in [Threads -> BOOLEAN]
    BY <1>1, <1>3 DEF GetState, FailedRead
  <2>3. failed' \in BOOLEAN
    BY <1>3 DEF GetState
  <2> QED BY <1>1, <1>3, <2>1, <2>2, <2>3 DEF GetState, Goto, CallsReady, InCall, Labels
<1>4. CASE Assign
  <2>1. State' \in [Ios -> BOOLEAN] /\ fault' \in [Ios -> BOOLEAN]
    BY <1>1, <1>4 DEF Assign
  <2>2. CASE failed /\ Cur \notin Motions
    BY <1>4, <2>1, <2>2, EndSyncControl DEF Assign, ControlType
  <2>3. CASE ~(failed /\ Cur \notin Motions)
    BY <1>1, <1>4, <2>1, <2>3, AfterAssignLabel
       DEF Assign, Goto, CallsReady, InCall, Labels
  <2> QED BY <2>2, <2>3
<1>5. CASE ReadHk
  <2>1. crashed' \in BOOLEAN
    BY <1>5 DEF ReadHk, ReadHkCrashes
  <2>2. CASE ReadHkCrashes(Cur)
    BY <1>5, <2>1, <2>2 DEF ReadHk, CallsReady
  <2>3. CASE ~ReadHkCrashes(Cur)
    BY <1>1, <1>5, <2>1, <2>3
       DEF ReadHk, Shown, Goto, CallsReady, InCall, Labels
  <2> QED BY <2>2, <2>3
<1>6. CASE Compare
  <2>1. CASE State[Cur] # old /\ Cur \notin HkDisabled
    BY <1>1, <1>6, <2>1 DEF Compare, Goto, CallsReady, InCall, Labels
  <2>2. CASE ~(State[Cur] # old /\ Cur \notin HkDisabled)
    BY <1>6, <2>2, AfterPublishControl DEF Compare, ControlType
  <2> QED BY <2>1, <2>2
<1>7. CASE Show
  BY <1>1, <1>7 DEF Show, Goto, CallsReady, InCall, Labels
<1>8. CASE Publish
  <2>1. hk' \in [Ios -> BOOLEAN]
    BY <1>1, <1>8 DEF Publish
  <2> QED BY <1>8, <2>1, AfterPublishControl DEF Publish, ControlType
<1> QED BY <1>2, <1>3, <1>4, <1>5, <1>6, <1>7, <1>8 DEF SyncStep

\* One step of the environment.
LEMMA EnvironmentType ==
    ASSUME TypeInv, Environment  PROVE TypeInv'
<1> USE DEF TypeInv, TypeOK
<1>1. CASE \E g \in HkClients, io \in (Devices \cup Switches) \ HkDisabled,
              v \in BOOLEAN : HkWrite(g, io, v)
  <2> SUFFICES ASSUME NEW g \in HkClients,
                      NEW io \in (Devices \cup Switches) \ HkDisabled,
                      NEW v \in BOOLEAN, HkWrite(g, io, v)
               PROVE  TypeInv'
    BY <1>1
  <2>1. g \in Threads /\ io \in Ios
    BY DEF Threads, Ios
  <2>2. <<io>> \in Seq(Devices \cup Switches) /\ <<io>> # <<>>
    OBVIOUS
  <2>3. asked' \subseteq Devices
    BY WiringFacts DEF HkWrite
  <2>4. commands' \in 0..MaxCommands
    BY BoundsAssumption DEF HkWrite, Command
  <2> QED BY <2>1, <2>2, <2>3, <2>4
          DEF HkWrite, Goto, CallsReady, InCall, Labels
<1>2. CASE \E g \in Pushers, b \in Buttons, e \in PushEvents : FireEvent(g, b, e)
  <2> SUFFICES ASSUME NEW g \in Pushers, NEW b \in Buttons,
                      NEW e \in PushEvents, FireEvent(g, b, e)
               PROVE  TypeInv'
    BY <1>2
  <2>1. g \in Threads
    BY DEF Threads
  <2>2. commands' \in 0..MaxCommands
    BY BoundsAssumption DEF FireEvent, Command
  <2> QED BY <2>1, <2>2, WiringFacts
          DEF FireEvent, Goto, CallsReady, InCall, Labels
<1>3. CASE \E i \in Switches \cup Motions : InputChange(i)
  <2> SUFFICES ASSUME NEW i \in Switches \cup Motions, InputChange(i)
               PROVE  TypeInv'
    BY <1>3
  <2>1. commands' \in 0..MaxCommands
    BY BoundsAssumption DEF InputChange, Command
  <2>2. level' \in [Ios -> BOOLEAN]
    BY DEF InputChange, Ios
  <2> QED BY <2>1, <2>2, WiringFacts DEF InputChange, calls, CallsReady
<1> QED BY <1>1, <1>2, <1>3 DEF Environment

\* Every variable keeps its type, and no goroutine is in a call without a
\* device to call.
LEMMA TypeInvCorrect == Spec => []TypeInv
<1>1. Init => TypeInv
  <2> SUFFICES ASSUME Init PROVE TypeInv
    OBVIOUS
  <2>1. <<>> \in Seq(Devices \cup Switches)
    BY EmptySeq
  <2>2. asked \subseteq Devices
    BY WiringFacts DEF Init
  <2>3. hk \in [Ios -> BOOLEAN] /\ fault \in [Ios -> BOOLEAN]
    BY DEF Init
  <2>4. CallsReady
    BY DEF Init, CallsReady, InCall
  <2>5. commands \in 0..MaxCommands /\ faults \in 0..MaxFaults
    BY BoundsAssumption DEF Init
  <2>6. /\ level \in [Ios -> BOOLEAN] /\ State \in [Ios -> BOOLEAN]
        /\ pc \in [Threads -> Labels] /\ val \in [Threads -> BOOLEAN]
        /\ old \in BOOLEAN /\ failed \in BOOLEAN /\ crashed \in BOOLEAN
    BY DEF Init, Labels
  <2>7. turn \in DOMAIN SyncOrder
    BY WiringFacts DEF Init
  <2>8. todo \in [Threads -> Seq(Devices \cup Switches)]
    BY <2>1 DEF Init
  <2> QED BY <2>2, <2>3, <2>4, <2>5, <2>6, <2>7, <2>8 DEF TypeInv, TypeOK
<1>2. TypeInv /\ [Next]_vars => TypeInv'
  <2> SUFFICES ASSUME TypeInv, [Next]_vars PROVE TypeInv'
    OBVIOUS
  <2>1. CASE TickerStep
    <3>1. Ticker \in Threads
      BY DEF Threads
    <3> QED BY <2>1, <3>1, SyncStepType, CallStepType DEF TickerStep
  <2>2. CASE \E g \in HkClients \cup Pushers : ~crashed /\ CallStep(g)
    BY <2>2, CallStepType DEF Threads
  <2>3. CASE ~crashed /\ Environment
    BY <2>3, EnvironmentType
  <2>4. CASE UNCHANGED vars
    BY <2>4 DEF vars, calls, ghosts, TypeInv, TypeOK, CallsReady
  <2> QED BY <2>1, <2>2, <2>3, <2>4 DEF Next
<1> QED BY <1>1, <1>2, PTL DEF Spec

\* The variables of the IO loop keep their types, in every installation.
THEOREM TypeCorrect == Spec => []TypeOK
<1>1. TypeInv => TypeOK
  BY DEF TypeInv
<1> QED BY <1>1, TypeInvCorrect, PTL

-----------------------------------------------------------------------------
(* No phantom ON.  The invariant follows an ON from where it is asked for: *)
(* a pin or a State, what HomeKit shows, the value in the hand of a        *)
(* goroutine, the reading of the ticker, and the devices still to call.    *)

\* Somebody asked for what an ON of io would bring.
AskedFor(io) ==
    /\ io \in Switches => Controlled(io) \subseteq asked
    /\ io \in Devices => io \in asked

ValuesAsked ==
    /\ \A i \in Ios : (level[i] \/ State[i]) => AskedFor(i)
    /\ \A d \in Devices : hk[d] => d \in asked

ReadingAsked ==
    pc[Ticker] \in {"assign", "publish"} /\ val[Ticker] => AskedFor(Cur)

HandsAsked ==
    \A g \in Threads :
        pc[g] \in {"store", "load", "set"} /\ val[g] => AskedFor(Head(todo[g]))

\* The ticker is in a call only while it syncs a switch, for its devices; a
\* push goroutine toggles devices whose button was pressed; a HomeKit
\* connection calls one function and reads no State for it.
CallsAsked ==
    /\ pc[Ticker] \in InCall => /\ Cur \in Switches
                                /\ Range(todo[Ticker]) \subseteq Controlled(Cur)
    /\ \A g \in Pushers : Range(todo[g]) \subseteq asked
    /\ \A g \in HkClients : Len(todo[g]) =< 1 /\ pc[g] # "read"

PhantomInv == ValuesAsked /\ ReadingAsked /\ HandsAsked /\ CallsAsked

\* The part of it about the control state.
PhantomControl == ReadingAsked /\ HandsAsked /\ CallsAsked

LEMMA ThreadFacts ==
    /\ Ticker \in Threads /\ HkClients \subseteq Threads /\ Pushers \subseteq Threads
    /\ Ticker \notin HkClients /\ Ticker \notin Pushers
    /\ HkClients \cap Pushers = {}
BY ThreadsAssumption DEF Threads

LEMMA EmptyRange == Range(<<>>) = {} /\ Len(<<>>) = 0
BY DEF Range

\* Returning from a Sync leaves the ticker with nothing in hand.
LEMMA EndSyncPhantom ==
    ASSUME TypeInv, PhantomInv, EndSync, asked' = asked
    PROVE  PhantomControl'
<1> USE ThreadFacts DEF TypeInv, TypeOK, PhantomInv, EndSync, Goto
<1>1. pc'[Ticker] = "idle"
  OBVIOUS
<1>2. \A g \in Threads : g # Ticker =>
          pc'[g] = pc[g] /\ todo'[g] = todo[g] /\ val'[g] = val[g]
  OBVIOUS
<1>3. ReadingAsked'
  BY <1>1 DEF ReadingAsked
<1>4. HandsAsked'
  BY <1>1, <1>2 DEF HandsAsked, AskedFor
<1>5. CallsAsked'
  BY <1>1, <1>2 DEF CallsAsked, InCall
<1> QED BY <1>3, <1>4, <1>5 DEF PhantomControl

\* Going on to the devices of the switch gives the ticker no value yet.
LEMMA AfterPublishPhantom ==
    ASSUME TypeInv, PhantomInv, AfterPublish, asked' = asked
    PROVE  PhantomControl'
<1> USE ThreadFacts DEF TypeInv, TypeOK, PhantomInv
<1>1. CASE EndSync
  BY <1>1, EndSyncPhantom
<1>2. CASE Cur \in Switches /\ PushToDevices
  <2>1. /\ pc'[Ticker] = "read" /\ Cur' = Cur
        /\ todo'[Ticker] = SwitchSlice[Cur]
    BY <1>2 DEF PushToDevices, Goto, Cur
  <2>2. \A g \in Threads : g # Ticker =>
            pc'[g] = pc[g] /\ todo'[g] = todo[g] /\ val'[g] = val[g]
    BY <1>2 DEF PushToDevices, Goto
  <2>3. ReadingAsked'
    BY <2>1 DEF ReadingAsked
  <2>4. HandsAsked'
    BY <2>1, <2>2 DEF HandsAsked, AskedFor
  <2>5. CallsAsked'
    BY <1>2, <2>1, <2>2 DEF CallsAsked, InCall, Controlled
  <2> QED BY <2>3, <2>4, <2>5 DEF PhantomControl
<1> QED BY <1>1, <1>2 DEF AfterPublish

\* Returning from a SetValue leaves the caller fewer devices, and no value it
\* would use without reading it first.
LEMMA ReturnPhantom ==
    ASSUME TypeInv, PhantomInv, NEW g \in Threads, pc[g] \in InCall, Return(g),
           asked' = asked
    PROVE  PhantomControl'
<1> USE ThreadFacts DEF TypeInv, TypeOK, PhantomInv
<1>1. todo[g] \in Seq(Devices \cup Switches) /\ todo[g] # <<>>
  BY DEF CallsReady
<1>2. CASE Len(todo[g]) > 1
  <2>0. Range(Tail(todo[g])) \subseteq Range(todo[g])
    BY <1>1, TailFacts
  <2>1. /\ pc'[g] = "read" /\ Cur' = Cur
        /\ todo'[g] = Tail(todo[g])
        /\ g \notin HkClients
    BY <1>1, <1>2 DEF Return, Goto, Cur, CallsAsked
  <2>2. \A h \in Threads : h # g =>
            pc'[h] = pc[h] /\ todo'[h] = todo[h] /\ val'[h] = val[h]
    BY <1>2 DEF Return, Goto
  <2>3. ReadingAsked'
    BY <2>1, <2>2 DEF ReadingAsked, AskedFor
  <2>4. HandsAsked'
    BY <2>1, <2>2 DEF HandsAsked, AskedFor
  <2>5. CallsAsked'
    BY <2>0, <2>1, <2>2 DEF CallsAsked, InCall, Controlled
  <2> QED BY <2>3, <2>4, <2>5 DEF PhantomControl
<1>3. CASE ~(Len(todo[g]) > 1) /\ g = Ticker
  BY <1>3, EndSyncPhantom DEF Return
<1>4. CASE ~(Len(todo[g]) > 1) /\ g # Ticker
  <2>1. pc'[g] = "idle" /\ Cur' = Cur /\ todo'[g] = <<>>
    BY <1>4 DEF Return, Goto, Cur
  <2>2. \A h \in Threads : h # g =>
            pc'[h] = pc[h] /\ todo'[h] = todo[h] /\ val'[h] = val[h]
    BY <1>4 DEF Return, Goto
  <2>3. ReadingAsked'
    BY <1>4, <2>1, <2>2 DEF ReadingAsked, AskedFor
  <2>4. HandsAsked'
    BY <2>1, <2>2 DEF HandsAsked, AskedFor
  <2>5. Range(todo'[g]) = {} /\ Len(todo'[g]) =< 1
    BY <2>1, EmptyRange
  <2>6. CallsAsked'
    BY <1>4, <2>1, <2>2, <2>5 DEF CallsAsked, InCall, Controlled
  <2> QED BY <2>3, <2>4, <2>6 DEF PhantomControl
<1> QED BY <1>2, <1>3, <1>4

\* The head of what a goroutine in a call still has to do.
LEMMA TargetFacts ==
    ASSUME TypeInv, NEW g \in Threads, pc[g] \in InCall
    PROVE  /\ Target(g) = Head(todo[g]) /\ Target(g) \in Ios
           /\ Target(g) \in Range(todo[g])
<1>1. todo[g] \in Seq(Devices \cup Switches) /\ todo[g] # <<>>
  BY DEF TypeInv, TypeOK, CallsReady
<1>2. Head(todo[g]) \in Devices \cup Switches /\ Head(todo[g]) \in Range(todo[g])
  BY <1>1, TailFacts
<1> QED BY <1>2 DEF Target, Ios

\* A step of a SetValue or Toggle call spreads only an ON somebody asked for.
LEMMA CallStepPhantom ==
    ASSUME TypeInv, PhantomInv, NEW g \in Threads, CallStep(g)
    PROVE  PhantomInv'
<1> USE ThreadFacts DEF TypeInv, TypeOK, PhantomInv, ghosts
<1>1. CASE Read(g)
  <2>1. /\ pc[g] = "read" /\ pc'[g] = "store" /\ todo' = todo /\ Cur' = Cur
        /\ \A h \in Threads : h # g => pc'[h] = pc[h] /\ val'[h] = val[h]
        /\ val'[g] => (g = Ticker => State[Cur])
        /\ UNCHANGED <<State, level, hk, asked>>
    BY <1>1 DEF Read, Argument, Goto, Cur
  <2>2. Target(g) = Head(todo[g]) /\ Target(g) \in Range(todo[g])
    BY <2>1, TargetFacts DEF InCall
  <2>3. g \notin HkClients
    BY <2>1 DEF CallsAsked
  <2>4. CASE g = Ticker
    <3>1. Cur \in Switches /\ Range(todo[g]) \subseteq Controlled(Cur)
      BY <2>1, <2>4 DEF CallsAsked, InCall
    <3>2. val'[g] => Controlled(Cur) \subseteq asked
      BY <2>1, <2>4, <3>1 DEF ValuesAsked, AskedFor, Ios
    <3>3. Target(g) \in Devices /\ Target(g) \notin Switches
      BY <2>2, <3>1, WiringFacts, KindsAssumption DEF Devices
    <3> QED BY <2>1, <2>2, <2>4, <3>1, <3>2, <3>3
            DEF ValuesAsked, ReadingAsked, HandsAsked, CallsAsked, AskedFor, InCall,
                Controlled
  <2>5. CASE g \in Pushers
    <3>1. Target(g) \in asked /\ Target(g) \notin Switches
      BY <2>2, <2>5, KindsAssumption DEF CallsAsked, Devices
    <3> QED BY <2>1, <2>2, <2>3, <2>5, <3>1
            DEF ValuesAsked, ReadingAsked, HandsAsked, CallsAsked, AskedFor, InCall,
                Controlled
  <2> QED BY <2>3, <2>4, <2>5 DEF Threads
<1>2. CASE Store(g)
  <2>1. pc[g] = "store" /\ pc[g] \in InCall
    BY <1>2 DEF Store, InCall
  <2>2. val[g] => AskedFor(Target(g))
    BY <2>1 DEF HandsAsked, Target
  <2>3. /\ UNCHANGED <<level, hk, asked>>
        /\ \A i \in Ios : State'[i] = IF i = Target(g) THEN val[g] ELSE State[i]
    BY <1>2, <2>1, TargetFacts DEF Store
  <2>4. ValuesAsked'
    BY <2>2, <2>3 DEF ValuesAsked, AskedFor
  <2>5. CASE Target(g) \in Devices
    <3>1. /\ pc'[g] = "load" /\ todo' = todo /\ val' = val /\ Cur' = Cur
          /\ \A h \in Threads : h # g => pc'[h] = pc[h]
      BY <1>2, <2>5 DEF Store, Goto, Cur
    <3> QED BY <2>1, <2>3, <2>4, <3>1
            DEF ReadingAsked, HandsAsked, CallsAsked, AskedFor, InCall, Controlled
  <2>6. CASE Target(g) \notin Devices
    BY <1>2, <2>1, <2>3, <2>4, <2>6, ReturnPhantom DEF Store, PhantomControl
  <2> QED BY <2>5, <2>6
<1>3. CASE Load(g)
  <2>1. pc[g] = "load" /\ pc[g] \in InCall
    BY <1>3 DEF Load, InCall
  <2>2. /\ pc'[g] = "set" /\ todo' = todo /\ Cur' = Cur
        /\ \A h \in Threads : h # g => pc'[h] = pc[h] /\ val'[h] = val[h]
        /\ val'[g] = State[Target(g)]
        /\ UNCHANGED <<State, level, hk, asked>>
    BY <1>3 DEF Load, Goto, Cur
  <2>3. val'[g] => AskedFor(Head(todo[g]))
    BY <2>1, <2>2, TargetFacts DEF ValuesAsked
  <2> QED BY <2>1, <2>2, <2>3
          DEF ValuesAsked, ReadingAsked, HandsAsked, CallsAsked, AskedFor, InCall,
              Controlled
<1>4. CASE SetOutput(g)
  <2>1. pc[g] = "set" /\ pc[g] \in InCall
    BY <1>4 DEF SetOutput, InCall
  <2>2. val[g] => AskedFor(Target(g))
    BY <2>1 DEF HandsAsked, Target
  <2>3. /\ UNCHANGED <<State, hk, asked>>
        /\ \A i \in Ios : \/ level'[i] = level[i]
                          \/ i = Target(g) /\ level'[i] = val[g]
    BY <1>4, <2>1, TargetFacts DEF SetOutput
  <2>4. ValuesAsked'
    BY <2>2, <2>3 DEF ValuesAsked, AskedFor
  <2> QED BY <1>4, <2>1, <2>3, <2>4, ReturnPhantom DEF SetOutput, PhantomControl
<1> QED BY <1>1, <1>2, <1>3, <1>4 DEF CallStep

\* A step of a Sync spreads only an ON somebody asked for: a failed read is
\* FALSE, and a good one is what the pin is.
LEMMA SyncStepPhantom ==
    ASSUME TypeInv, PhantomInv, SyncStep  PROVE PhantomInv'
<1> USE ThreadFacts DEF TypeInv, TypeOK, PhantomInv, ghosts
<1>1. Cur \in Ios
  BY WiringFacts DEF Cur
<1>2. CASE BeginSync
  <2>1. /\ pc'[Ticker] = "getState" /\ Cur' = Cur
        /\ \A h \in Threads : h # Ticker => pc'[h] = pc[h]
        /\ UNCHANGED <<State, level, hk, asked, todo, val>>
    BY <1>2 DEF BeginSync, Goto, Cur
  <2> QED BY <2>1 DEF ValuesAsked, ReadingAsked, HandsAsked, CallsAsked, AskedFor,
                      InCall, Controlled
<1>3. CASE GetState
  <2>1. /\ pc'[Ticker] = "assign" /\ Cur' = Cur
        /\ \A h \in Threads : h # Ticker => pc'[h] = pc[h] /\ val'[h] = val[h]
        /\ UNCHANGED <<State, level, hk, asked, todo>>
    BY <1>3 DEF GetState, Goto, Cur
  <2>2. val'[Ticker] => level[Cur]
    BY <1>3 DEF GetState, FailedRead
  <2> QED BY <1>1, <2>1, <2>2
          DEF ValuesAsked, ReadingAsked, HandsAsked, CallsAsked, AskedFor,
              InCall, Controlled
<1>4. CASE Assign
  <2>1. /\ pc[Ticker] = "assign" /\ UNCHANGED <<level, hk, asked>>
        /\ \A i \in Ios : State'[i] = IF i = Cur THEN val[Ticker] ELSE State[i]
    BY <1>1, <1>4 DEF Assign
  <2>2. ValuesAsked'
    BY <2>1 DEF ValuesAsked, ReadingAsked, AskedFor
  <2>3. CASE failed /\ Cur \notin Motions
    BY <1>4, <2>1, <2>2, <2>3, EndSyncPhantom DEF Assign, PhantomControl
  <2>4. CASE ~(failed /\ Cur \notin Motions)
    <3>1. /\ pc'[Ticker] \in {"readHk", "compare", "show"} /\ Cur' = Cur
          /\ \A h \in Threads : h # Ticker => pc'[h] = pc[h]
          /\ UNCHANGED <<todo, val>>
      BY <1>1, <1>4, <2>4, AfterAssignLabel DEF Assign, Goto, Cur
    <3> QED BY <2>1, <2>2, <3>1
            DEF ReadingAsked, HandsAsked, CallsAsked, AskedFor, InCall, Controlled
  <2> QED BY <2>3, <2>4
<1>5. CASE ReadHk
  <2>1. /\ pc'[Ticker] \in {"readHk", "compare"} /\ Cur' = Cur
        /\ \A h \in Threads : h # Ticker => pc'[h] = pc[h]
        /\ UNCHANGED <<State, level, hk, asked, todo, val>>
    BY <1>5 DEF ReadHk, Goto, Cur
  <2> QED BY <2>1 DEF ValuesAsked, ReadingAsked, HandsAsked, CallsAsked, AskedFor,
                      InCall, Controlled
<1>6. CASE Compare
  <2>1. UNCHANGED <<State, level, hk, asked>>
    BY <1>6 DEF Compare
  <2>2. ValuesAsked'
    BY <2>1 DEF ValuesAsked, AskedFor
  <2>3. CASE State[Cur] # old /\ Cur \notin HkDisabled
    <3>1. /\ pc'[Ticker] = "show" /\ Cur' = Cur
          /\ \A h \in Threads : h # Ticker => pc'[h] = pc[h]
          /\ UNCHANGED <<todo, val>>
      BY <1>6, <2>3 DEF Compare, Goto, Cur
    <3> QED BY <2>1, <2>2, <3>1
            DEF ReadingAsked, HandsAsked, CallsAsked, AskedFor, InCall, Controlled
  <2>4. CASE ~(State[Cur] # old /\ Cur \notin HkDisabled)
    BY <1>6, <2>1, <2>2, <2>4, AfterPublishPhantom DEF Compare, PhantomControl
  <2> QED BY <2>3, <2>4
<1>7. CASE Show
  <2>1. /\ pc'[Ticker] = "publish" /\ Cur' = Cur
        /\ \A h \in Threads : h # Ticker => pc'[h] = pc[h] /\ val'[h] = val[h]
        /\ val'[Ticker] = State[Cur]
        /\ UNCHANGED <<State, level, hk, asked, todo>>
    BY <1>7 DEF Show, Goto, Cur
  <2> QED BY <1>1, <2>1
          DEF ValuesAsked, ReadingAsked, HandsAsked, CallsAsked, AskedFor,
              InCall, Controlled
<1>8. CASE Publish
  <2>1. /\ pc[Ticker] = "publish" /\ UNCHANGED <<State, level, asked>>
        /\ \A i \in Ios : hk'[i] = hk[i] \/ (i = Cur /\ hk'[i] = val[Ticker])
    BY <1>1, <1>8 DEF Publish
  <2>2. ValuesAsked'
    BY <2>1 DEF ValuesAsked, ReadingAsked, AskedFor, Ios
  <2> QED BY <1>8, <2>1, <2>2, AfterPublishPhantom DEF Publish, PhantomControl
<1> QED BY <1>2, <1>3, <1>4, <1>5, <1>6, <1>7, <1>8 DEF SyncStep

\* What HomeKit, a press or a closed switch turns on has just been asked for.
LEMMA EnvironmentPhantom ==
    ASSUME TypeInv, PhantomInv, Environment  PROVE PhantomInv'
<1> USE ThreadFacts DEF TypeInv, TypeOK, PhantomInv
<1>1. CASE \E g \in HkClients, io \in (Devices \cup Switches) \ HkDisabled,
              v \in BOOLEAN : HkWrite(g, io, v)
  <2> SUFFICES ASSUME NEW g \in HkClients,
                      NEW io \in (Devices \cup Switches) \ HkDisabled,
                      NEW v \in BOOLEAN, HkWrite(g, io, v)
               PROVE  PhantomInv'
    BY <1>1
  <2>1. /\ UNCHANGED <<State, level>> /\ Cur' = Cur
        /\ pc'[g] = "store" /\ todo'[g] = <<io>> /\ val'[g] = v
        /\ \A h \in Threads : h # g =>
               pc'[h] = pc[h] /\ todo'[h] = todo[h] /\ val'[h] = val[h]
        /\ \A i \in Ios : hk'[i] = IF i = io THEN v ELSE hk[i]
    BY DEF HkWrite, Goto, Cur, Ios
  <2>2. /\ asked \subseteq asked'
        /\ v /\ io \in Switches => Controlled(io) \subseteq asked'
        /\ v /\ io \in Devices => io \in asked'
    BY KindsAssumption DEF HkWrite, Devices
  <2>3. ValuesAsked'
    BY <2>1, <2>2 DEF ValuesAsked, AskedFor, Controlled, Ios
  <2>4. ReadingAsked'
    BY <2>1, <2>2 DEF ReadingAsked, AskedFor, Controlled
  <2>5. HandsAsked'
    BY <2>1, <2>2 DEF HandsAsked, AskedFor, Controlled
  <2>6. Len(<<io>>) =< 1
    OBVIOUS
  <2>7. CallsAsked'
    BY <2>1, <2>2, <2>6 DEF CallsAsked, InCall, Controlled
  <2> QED BY <2>3, <2>4, <2>5, <2>7
<1>2. CASE \E g \in Pushers, b \in Buttons, e \in PushEvents : FireEvent(g, b, e)
  <2> SUFFICES ASSUME NEW g \in Pushers, NEW b \in Buttons,
                      NEW e \in PushEvents, FireEvent(g, b, e)
               PROVE  PhantomInv'
    BY <1>2
  <2>1. /\ UNCHANGED <<State, level, hk, val>> /\ Cur' = Cur
        /\ pc'[g] = "read" /\ todo'[g] = ToggleMap[b][e]
        /\ \A h \in Threads : h # g => pc'[h] = pc[h] /\ todo'[h] = todo[h]
        /\ asked' = asked \cup Range(ToggleMap[b][e])
    BY DEF FireEvent, Goto, Cur
  <2>2. ValuesAsked'
    BY <2>1 DEF ValuesAsked, AskedFor, Controlled
  <2>3. ReadingAsked'
    BY <2>1 DEF ReadingAsked, AskedFor, Controlled
  <2>4. HandsAsked'
    BY <2>1 DEF HandsAsked, AskedFor, Controlled
  <2>5. CallsAsked'
    BY <2>1 DEF CallsAsked, InCall, Controlled
  <2> QED BY <2>2, <2>3, <2>4, <2>5
<1>3. CASE \E i \in Switches \cup Motions : InputChange(i)
  <2> SUFFICES ASSUME NEW i \in Switches \cup Motions, InputChange(i)
               PROVE  PhantomInv'
    BY <1>3
  <2>1. /\ UNCHANGED <<State, hk, pc, todo, val>> /\ Cur' = Cur
        /\ \A j \in Ios : level'[j] = IF j = i THEN ~level[j] ELSE level[j]
        /\ asked \subseteq asked'
        /\ i \in Switches /\ ~level[i] => Controlled(i) \subseteq asked'
    BY DEF InputChange, calls, Cur
  <2>2. i \notin Devices
    BY KindsAssumption DEF Devices
  <2>3. ValuesAsked'
    BY <2>1, <2>2 DEF ValuesAsked, AskedFor, Controlled
  <2>4. ReadingAsked'
    BY <2>1 DEF ReadingAsked, AskedFor, Controlled
  <2>5. HandsAsked'
    BY <2>1 DEF HandsAsked, AskedFor, Controlled
  <2>6. CallsAsked'
    BY <2>1 DEF CallsAsked, InCall, Controlled
  <2> QED BY <2>3, <2>4, <2>5, <2>6
<1> QED BY <1>1, <1>2, <1>3 DEF Environment

\* At the start only the pins are on, and what they bring counts as asked for.
LEMMA InitPhantom == Init => PhantomInv
<1> SUFFICES ASSUME Init PROVE PhantomInv
  OBVIOUS
<1>1. \A s \in Switches : level[s] => Controlled(s) \subseteq asked
  BY DEF Init
<1>2. \A d \in Devices : level[d] => d \in asked
  BY DEF Init
<1>3. \A d \in Devices : ~hk[d]
  BY KindsAssumption DEF Init, Ios, Devices
<1>4. ValuesAsked
  BY <1>1, <1>2, <1>3 DEF Init, ValuesAsked, AskedFor
<1>5. \A g \in Threads : pc[g] = "idle" /\ todo[g] = <<>>
  BY DEF Init
<1>6. ReadingAsked /\ HandsAsked
  BY <1>5, ThreadFacts DEF ReadingAsked, HandsAsked
<1>7. \A g \in Threads : Range(todo[g]) = {} /\ Len(todo[g]) =< 1
  BY <1>5, EmptyRange
<1>8. CallsAsked
  BY <1>5, <1>7, ThreadFacts DEF CallsAsked, InCall
<1> QED BY <1>4, <1>6, <1>8 DEF PhantomInv

\* Every step keeps the invariant.
LEMMA PhantomInvStep == TypeInv /\ PhantomInv /\ [Next]_vars => PhantomInv'
<1> SUFFICES ASSUME TypeInv, PhantomInv, [Next]_vars PROVE PhantomInv'
  OBVIOUS
<1>1. CASE TickerStep
  BY <1>1, ThreadFacts, SyncStepPhantom, CallStepPhantom DEF TickerStep
<1>2. CASE \E g \in HkClients \cup Pushers : ~crashed /\ CallStep(g)
  BY <1>2, CallStepPhantom DEF Threads
<1>3. CASE ~crashed /\ Environment
  BY <1>3, EnvironmentPhantom
<1>4. CASE UNCHANGED vars
  BY <1>4 DEF vars, calls, ghosts, PhantomInv, ValuesAsked, ReadingAsked,
              HandsAsked, CallsAsked, AskedFor, Controlled, Cur
<1> QED BY <1>1, <1>2, <1>3, <1>4 DEF Next

\* In every installation, a light or an outlet that is on, or shown as on, was
\* on at the start or was asked for: by HomeKit, a button or a wall switch.
THEOREM NoPhantomOnHolds == Spec => []NoPhantomOn
<1>1. PhantomInv => NoPhantomOn
  <2> SUFFICES ASSUME PhantomInv, NEW d \in Devices, level[d] \/ State[d] \/ hk[d]
               PROVE  d \in asked
    BY DEF NoPhantomOn
  <2> QED BY DEF PhantomInv, ValuesAsked, AskedFor, Ios
<1> QED BY <1>1, PhantomInvStep, InitPhantom, TypeInvCorrect, PTL DEF Spec

-----------------------------------------------------------------------------
(* What is settled stays.  The ticker reads and writes every State and sets *)
(* every device of a switch on each round, and the values it carries are    *)
(* the ones that are there: PhantomInv says for which switch it calls.      *)

\* A step that writes nothing new leaves fields, pins and HomeKit agreeing,
\* and the devices as their switches are.
LEMMA QuietStep ==
    ASSUME Agreed, Ruled,
           \A i \in Ios : /\ State'[i] = State[i] /\ level'[i] = level[i]
                          /\ fault'[i] = fault[i]
                          /\ i \in (Lights \cup Motions) \ HkDisabled =>
                                 hk'[i] = hk[i]
    PROVE  Agreed' /\ Ruled'
<1>1. Agreed'
  BY DEF Agreed, AgreedOn
<1>2. \A s \in Switches : s \in Ios /\ Controlled(s) \subseteq Ios
  BY WiringFacts DEF Ios
<1>3. Ruled'
  BY <1>2 DEF Ruled, Controlled
<1> QED BY <1>1, <1>3

\* What the end of a Sync and the start of a switch's calls do to the ticker.
LEMMA AfterPublishSettled ==
    ASSUME TypeInv, ~failed, AfterPublish \/ EndSync
    PROVE  /\ pc'[Ticker] \in {"idle", "read"} /\ ~failed'
           /\ \A g \in Threads : g # Ticker => pc'[g] = pc[g]
BY ThreadFacts DEF AfterPublish, PushToDevices, EndSync, Goto, TypeInv, TypeOK

\* What the end of a call does to it.
LEMMA ReturnSettled ==
    ASSUME TypeInv, ~failed, Return(Ticker)
    PROVE  /\ pc'[Ticker] \in {"idle", "read"} /\ ~failed'
           /\ \A g \in Threads : g # Ticker => pc'[g] = pc[g]
BY ThreadFacts, AfterPublishSettled DEF Return, Goto, TypeInv, TypeOK

\* A Sync finds what is there already, and shows what is shown already.
LEMMA SyncStepSettled ==
    ASSUME TypeInv, Settled, SyncStep, faults' = faults
    PROVE  Settled'
<1> USE ThreadFacts DEF TypeInv, TypeOK, ghosts
<1>1. Cur \in Ios
  BY WiringFacts DEF Cur
<1>2. State[Cur] = level[Cur] /\ ~failed
  BY <1>1 DEF Settled, Agreed, AgreedOn
<1>3. ASSUME /\ \A i \in Ios : /\ State'[i] = State[i] /\ level'[i] = level[i]
                               /\ fault'[i] = fault[i]
                               /\ i \in (Lights \cup Motions) \ HkDisabled =>
                                      hk'[i] = hk[i],
             ~failed', pc'[Ticker] \notin {"store", "set"},
             pc'[Ticker] \in {"assign", "publish"} => val'[Ticker] = level'[Cur'],
             \A g \in Threads : g # Ticker => pc'[g] = pc[g]
      PROVE  Settled'
  BY <1>3, QuietStep DEF Settled
<1>4. CASE BeginSync
  BY <1>2, <1>3, <1>4 DEF BeginSync, Goto, Cur
<1>5. CASE GetState
  <2>1. val'[Ticker] = level[Cur] /\ failed' = failed
    BY <1>5 DEF GetState
  <2> QED BY <1>2, <1>3, <1>5, <2>1 DEF GetState, Goto, Cur
<1>6. CASE Assign
  <2>1. val[Ticker] = level[Cur]
    BY <1>6 DEF Assign, Settled
  <2>2. \A i \in Ios : State'[i] = State[i] /\ fault'[i] = fault[i]
    BY <1>1, <1>2, <1>6, <2>1 DEF Assign, Settled, Agreed, AgreedOn
  <2>3. /\ pc'[Ticker] \in {"readHk", "compare", "show"} /\ ~failed'
        /\ \A g \in Threads : g # Ticker => pc'[g] = pc[g]
    BY <1>1, <1>2, <1>6, AfterAssignLabel DEF Assign, Goto
  <2> QED BY <1>3, <1>6, <2>2, <2>3 DEF Assign
<1>7. CASE ReadHk
  <2>1. /\ pc'[Ticker] \in {"readHk", "compare"} /\ ~failed'
        /\ \A g \in Threads : g # Ticker => pc'[g] = pc[g]
    BY <1>2, <1>7 DEF ReadHk, Goto
  <2> QED BY <1>3, <1>7, <2>1 DEF ReadHk
<1>8. CASE Compare
  <2>1. /\ pc'[Ticker] \in {"idle", "read", "show"} /\ ~failed'
        /\ \A g \in Threads : g # Ticker => pc'[g] = pc[g]
    BY <1>2, <1>8, AfterPublishSettled DEF Compare, Goto
  <2> QED BY <1>3, <1>8, <2>1 DEF Compare
<1>9. CASE Show
  <2>1. /\ pc'[Ticker] = "publish" /\ val'[Ticker] = level[Cur]
        /\ \A g \in Threads : g # Ticker => pc'[g] = pc[g]
    BY <1>2, <1>9 DEF Show, Goto
  <2> QED BY <1>2, <1>3, <1>9, <2>1 DEF Show, Cur
<1>10. CASE Publish
  <2>1. /\ pc'[Ticker] \in {"idle", "read"} /\ ~failed'
        /\ \A g \in Threads : g # Ticker => pc'[g] = pc[g]
    BY <1>2, <1>10, AfterPublishSettled DEF Publish
  <2>2. val[Ticker] = State[Cur]
    BY <1>2, <1>10 DEF Publish, Settled
  <2>3. \A i \in (Lights \cup Motions) \ HkDisabled : hk'[i] = hk[i]
    BY <1>1, <1>10, <2>2 DEF Publish, Settled, Agreed, AgreedOn, Ios, Devices
  <2> QED BY <1>3, <1>10, <2>1, <2>3 DEF Publish
<1> QED BY <1>4, <1>5, <1>6, <1>7, <1>8, <1>9, <1>10 DEF SyncStep

\* The calls of a switch's Sync set its devices to what they are.
LEMMA CallStepSettled ==
    ASSUME TypeInv, PhantomInv, Settled, CallStep(Ticker), faults' = faults
    PROVE  Settled'
<1> USE ThreadFacts DEF TypeInv, TypeOK, ghosts
<1>1. pc[Ticker] \in InCall
  BY DEF CallStep, Read, Store, Load, SetOutput, InCall
<1>2. /\ Cur \in Switches /\ Target(Ticker) \in Controlled(Cur)
      /\ Target(Ticker) \in Devices /\ Cur \in Ios /\ Target(Ticker) \in Ios
  BY <1>1, TargetFacts, WiringFacts DEF PhantomInv, CallsAsked, Ios
<1>3. /\ State[Target(Ticker)] = level[Target(Ticker)]
      /\ State[Cur] = level[Target(Ticker)] /\ ~failed
  BY <1>2 DEF Settled, Agreed, AgreedOn, Ruled
<1>4. ASSUME \A i \in Ios : State'[i] = State[i] /\ level'[i] = level[i],
             fault' = fault, hk' = hk, ~failed',
             pc'[Ticker] \notin {"assign", "publish"},
             pc'[Ticker] \in {"store", "set"} =>
                 val'[Ticker] = level[Target(Ticker)] /\ todo' = todo,
             \A g \in Threads : g # Ticker => pc'[g] = pc[g]
      PROVE  Settled'
  <2>1. Agreed' /\ Ruled'
    BY <1>4, QuietStep DEF Settled
  <2>2. pc'[Ticker] \in {"store", "set"} => val'[Ticker] = level'[Target(Ticker)']
    BY <1>2, <1>4 DEF Target
  <2> QED BY <1>4, <2>1, <2>2 DEF Settled
<1>5. CASE Read(Ticker)
  BY <1>3, <1>4, <1>5 DEF Read, Argument, Goto
<1>6. CASE Store(Ticker)
  <2>1. val[Ticker] = level[Target(Ticker)]
    BY <1>6 DEF Store, Settled
  <2>2. \A i \in Ios : State'[i] = State[i]
    BY <1>2, <1>3, <1>6, <2>1 DEF Store
  <2> QED BY <1>2, <1>3, <1>4, <1>6, <2>2 DEF Store, Goto
<1>7. CASE Load(Ticker)
  BY <1>3, <1>4, <1>7 DEF Load, Goto
<1>8. CASE SetOutput(Ticker)
  <2>1. val[Ticker] = level[Target(Ticker)]
    BY <1>8 DEF SetOutput, Settled
  <2>2. \A i \in Ios : level'[i] = level[i]
    BY <1>2, <1>8, <2>1 DEF SetOutput
  <2>3. /\ pc'[Ticker] \in {"idle", "read"} /\ ~failed'
        /\ \A g \in Threads : g # Ticker => pc'[g] = pc[g]
    BY <1>3, <1>8, ReturnSettled DEF SetOutput
  <2> QED BY <1>4, <1>8, <2>2, <2>3 DEF SetOutput
<1> QED BY <1>5, <1>6, <1>7, <1>8 DEF CallStep

\* In every installation, with any wiring of the switches, polling disturbs
\* nothing that is settled: what it repairs stays repaired until a command, an
\* input or a driver error comes.
THEOREM SettledStaysHolds == Spec => SettledStays
<1>1. TypeInv /\ PhantomInv /\ [Next]_vars =>
          [Settled /\ UNCHANGED <<commands, faults>> => Settled']_vars
  <2> SUFFICES ASSUME TypeInv, PhantomInv, [Next]_vars, Settled,
                      UNCHANGED <<commands, faults>>, ~UNCHANGED vars
               PROVE  Settled'
    OBVIOUS
  <2>1. CASE TickerStep
    BY <2>1, SyncStepSettled, CallStepSettled DEF TickerStep
  <2>2. CASE \E g \in HkClients \cup Pushers : ~crashed /\ CallStep(g)
    BY <2>2 DEF Settled, CallStep, Read, Store, Load, SetOutput
  <2>3. CASE ~crashed /\ Environment
    <3>1. commands \in Nat /\ commands' # commands + 1
      BY DEF TypeInv, TypeOK
    <3> QED BY <2>3, <3>1
            DEF Environment, HkWrite, FireEvent, InputChange, Command
  <2> QED BY <2>1, <2>2, <2>3 DEF Next
<1> QED BY <1>1, InitPhantom, PhantomInvStep, TypeInvCorrect, PTL
        DEF Spec, SettledStays

=============================================================================

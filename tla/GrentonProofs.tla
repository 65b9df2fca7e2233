---------------------------- MODULE GrentonProofs ----------------------------
(***************************************************************************)
(* Proofs about Grenton for any outputs, users, freshness and duration of  *)
(* a call, any number of commands and faults.                              *)
(***************************************************************************)
EXTENDS Grenton, TLAPS

-----------------------------------------------------------------------------
(* Type correctness and the lock.                                          *)

\* Whoever makes a request to the gate holds the lock.
LockHeld == \A t \in Threads : pc[t] \in Requests => holder = t

\* Only a call of Set commands the gate.
SetsCommand == \A t \in Threads : pc[t] \in {"lockWrite", "command"} => call[t].kind = "set"

TypeInv == TypeOK /\ LockHeld /\ SetsCommand

LEMMA ThreadFacts == Main \in Threads /\ Users \subseteq Threads /\ NoOne \notin Threads
BY ThreadsAssumption DEF Threads

LEMMA IdleType == Idle \in Calls /\ Idle.kind = "get" /\ [Idle EXCEPT !.kind = "setup"] \in Calls
<1>1. (CHOOSE o \in Outputs : TRUE) \in Outputs
  BY OutputsAssumption
<1> QED BY <1>1 DEF Idle, Calls

LEMMA CallFacts ==
    ASSUME NEW c \in Calls
    PROVE  c.out \in Outputs /\ (c.kind = "set" => c.value \in BOOLEAN)
BY DEF Calls

\* What a step does to the goroutine that takes it.
Moved(t) ==
    /\ pc' \in [Threads -> Labels] /\ call' \in [Threads -> Calls]
    /\ ready' \in {"setup", "ready", "failed"}
    /\ \A u \in Threads \ {t} : pc'[u] = pc[u] /\ call'[u] = call[u]
    /\ pc'[t] \in {"lockWrite", "command"} => call'[t].kind = "set"

LEMMA GotoType ==
    ASSUME TypeInv, NEW t \in Threads, NEW l \in Labels, Goto(t, l), UNCHANGED ready,
           l \in {"lockWrite", "command"} => call[t].kind = "set"
    PROVE  Moved(t) /\ pc'[t] = l /\ call' = call
BY DEF TypeInv, TypeOK, Goto, Moved

LEMMA ReturnType ==
    ASSUME TypeInv, NEW t \in Threads, NEW err \in BOOLEAN, Return(t, err)
    PROVE  Moved(t) /\ pc'[t] = "idle"
BY IdleType DEF TypeInv, TypeOK, Return, Moved, Labels

LEMMA FaultType ==
    ASSUME TypeOK, UNCHANGED faults \/ Fault
    PROVE  faults' \in 0..MaxFaults
BY BoundsAssumption DEF TypeOK, Fault

\* A step that moves t and keeps the lock for whoever has it.
LEMMA MovedKeeps ==
    ASSUME TypeInv, NEW t \in Threads, Moved(t),
           pc'[t] \in Requests => holder' = t,
           holder' = holder \/ holder = t \/ holder = NoOne
    PROVE  LockHeld' /\ SetsCommand'
BY ThreadFacts DEF TypeInv, LockHeld, SetsCommand, Moved

\* GetState has its answer.
LEMMA GotType ==
    ASSUME TypeInv, NEW t \in Threads, Got(t, call[t].out)
    PROVE  /\ Moved(t) /\ pc'[t] \in {"idle", "lockWrite"}
           /\ acked' \in [Outputs -> {"none", "on", "off"}]
<1> DEFINE o == call[t].out
<1>1. o \in Outputs /\ acked \in [Outputs -> {"none", "on", "off"}]
  BY CallFacts DEF TypeInv, TypeOK
<1>2. CASE call[t].kind # "set"
  <2>1. Return(t, FALSE) /\ UNCHANGED acked
    BY <1>2 DEF Got
  <2> QED BY <1>1, <2>1, ReturnType
<1>3. CASE call[t].kind = "set" /\ state[o] = call[t].value
  <2>1. Return(t, FALSE) /\ acked' = [acked EXCEPT ![o] = Word(call[t].value)]
    BY <1>3 DEF Got
  <2> QED BY <1>1, <2>1, ReturnType DEF Word
<1>4. CASE call[t].kind = "set" /\ state[o] # call[t].value
  <2>1. Goto(t, "lockWrite") /\ UNCHANGED <<ready, acked>>
    BY <1>4 DEF Got
  <2>2. "lockWrite" \in Labels
    BY DEF Labels, Waits
  <2> QED BY <1>1, <1>4, <2>1, <2>2, GotoType
<1> QED BY <1>2, <1>3, <1>4

LEMMA CheckMoves ==
    ASSUME TypeInv, NEW t \in Threads, Check(t)
    PROVE  /\ Moved(t) /\ pc'[t] \in {"idle", "lockRead", "lockWrite"}
           /\ acked' \in [Outputs -> {"none", "on", "off"}]
<1>1. CASE Stale(call[t].out)
  <2>1. Goto(t, "lockRead") /\ UNCHANGED <<ready, acked>>
    BY <1>1 DEF Check
  <2> QED BY <2>1, GotoType DEF Labels, Waits, TypeInv, TypeOK
<1>2. CASE ~Stale(call[t].out)
  BY <1>2, GotType DEF Check
<1> QED BY <1>1, <1>2

LEMMA ApplyMoves ==
    ASSUME TypeInv, NEW t \in Threads, Apply(t)
    PROVE  Moved(t) /\ pc'[t] \in {"idle", "got"}
<1>1. CASE Goto(t, "got") /\ UNCHANGED ready
  BY <1>1, GotoType DEF Labels
<1>2. CASE \E err \in BOOLEAN : Return(t, err)
  BY <1>2, ReturnType
<1> QED BY <1>1, <1>2 DEF Apply

LEMMA CommandMoves ==
    ASSUME TypeInv, NEW t \in Threads, Command(t)
    PROVE  Moved(t) /\ pc'[t] = "idle"
<1>1. Return(t, FALSE) \/ Return(t, TRUE)
  BY DEF Command, GiveUpOnError
<1> QED BY <1>1, ReturnType

LEMMA SwitchedType ==
    ASSUME TypeOK, NEW o \in Outputs, NEW v \in BOOLEAN, Switched(o, v)
    PROVE  gate' \in [Outputs -> BOOLEAN] /\ changed' \in [Outputs -> BOOLEAN]
<1>1. (changed[o] \/ gate[o] # v) \in BOOLEAN
  OBVIOUS
<1> QED BY <1>1 DEF TypeOK, Switched

\* One step of a call keeps the types and the lock.
LEMMA CallStepType ==
    ASSUME TypeInv, NEW t \in Threads, CallStep(t)
    PROVE  TypeInv'
<1> USE DEF cache, history, budgets
<1>0. TypeOK /\ call[t] \in Calls
  BY DEF TypeInv, TypeOK
<1>1. CASE Check(t)
  <2>1. Moved(t) /\ pc'[t] \in {"idle", "lockRead", "lockWrite"}
        /\ acked' \in [Outputs -> {"none", "on", "off"}]
    BY <1>1, CheckMoves
  <2>2. LockHeld' /\ SetsCommand'
    BY <1>1, <2>1, MovedKeeps DEF Check, Requests
  <2> QED BY <1>0, <1>1, <2>1, <2>2 DEF Check, TypeInv, TypeOK, Moved
<1>2. CASE LockRead(t)
  <2>1. Moved(t) /\ pc'[t] = "query"
    BY <1>2, GotoType DEF LockRead, Locked, Labels, Requests
  <2>2. LockHeld' /\ SetsCommand'
    BY <1>2, <2>1, MovedKeeps DEF LockRead, Locked
  <2> QED BY <1>0, <1>2, <2>1, <2>2, TimesAssumption
          DEF LockRead, Locked, TypeInv, TypeOK, Moved
<1>3. CASE Query(t)
  <2>0. holder = t
    BY <1>3 DEF Query, TypeInv, LockHeld, Requests
  <2>1. faults' \in 0..MaxFaults
    <3>1. UNCHANGED faults \/ Fault
      BY <1>3 DEF Query
    <3> QED BY <1>0, <3>1, FaultType
  <2>2. CASE \E covers \in SUBSET Outputs, good \in BOOLEAN :
               /\ answer' = [lights |-> gate, covers |-> covers, good |-> good]
               /\ overtaken' = [o \in Outputs |-> FALSE]
               /\ Goto(t, "apply")
               /\ UNCHANGED <<holder, elapsed, ready>>
    <3>1. Moved(t) /\ pc'[t] = "apply"
      BY <2>2, GotoType DEF Labels, Requests
    <3>2. LockHeld' /\ SetsCommand'
      BY <2>0, <2>2, <3>1, MovedKeeps
    <3>3. /\ answer' \in [lights : [Outputs -> BOOLEAN], covers : SUBSET Outputs,
                          good : BOOLEAN]
          /\ overtaken' \in [Outputs -> BOOLEAN]
          /\ UNCHANGED <<holder, elapsed, ready>>
      BY <1>0, <2>2 DEF TypeOK
    <3> QED BY <1>0, <1>3, <2>1, <3>1, <3>2, <3>3 DEF Query, TypeInv, TypeOK, Moved
  <2>3. CASE Unlocked /\ Return(t, TRUE) /\ UNCHANGED <<answer, overtaken>>
    <3>1. Moved(t) /\ pc'[t] = "idle"
      BY <2>3, ReturnType
    <3>2. LockHeld' /\ SetsCommand'
      BY <2>0, <2>3, <3>1, MovedKeeps DEF Unlocked, Requests
    <3> QED BY <1>0, <1>3, <2>1, <2>3, <3>1, <3>2, TimesAssumption
            DEF Query, Unlocked, TypeInv, TypeOK, Moved
  <2> QED BY <1>3, <2>2, <2>3 DEF Query
<1>4. CASE Apply(t)
  <2>0. holder = t
    BY <1>4 DEF Apply, TypeInv, LockHeld, Requests
  <2>1. Moved(t) /\ pc'[t] \in {"idle", "got"}
    BY <1>4, ApplyMoves
  <2>2. LockHeld' /\ SetsCommand'
    BY <1>4, <2>0, <2>1, MovedKeeps DEF Apply, Unlocked, Requests
  <2>3. /\ state' \in [Outputs -> BOOLEAN] /\ changed' \in [Outputs -> BOOLEAN]
        /\ overtaken' \in [Outputs -> BOOLEAN] /\ omitted' \in [Outputs -> BOOLEAN]
    BY <1>0, <1>4 DEF Apply, TypeOK
  <2>4. age' \in [Outputs -> 0..Never] /\ asked' \in [Outputs -> 0..Stalest]
    BY <1>0, <1>4, TimesAssumption DEF Apply, Stamped, TypeOK, Never, Stalest
  <2>5. NoAnswer \in [lights : [Outputs -> BOOLEAN], covers : SUBSET Outputs,
                      good : BOOLEAN]
    BY DEF NoAnswer
  <2> QED BY <1>0, <1>4, <2>1, <2>2, <2>3, <2>4, <2>5, TimesAssumption
          DEF Apply, Unlocked, TypeInv, TypeOK, Moved
<1>5. CASE ReturnState(t)
  <2>1. Moved(t) /\ pc'[t] \in {"idle", "lockWrite"}
        /\ acked' \in [Outputs -> {"none", "on", "off"}]
    BY <1>5, GotType DEF ReturnState
  <2>2. LockHeld' /\ SetsCommand'
    BY <1>5, <2>1, MovedKeeps DEF ReturnState, Requests
  <2> QED BY <1>0, <1>5, <2>1, <2>2 DEF ReturnState, TypeInv, TypeOK, Moved
<1>6. CASE LockWrite(t)
  <2>1. Moved(t) /\ pc'[t] = "command"
    BY <1>6, GotoType DEF LockWrite, Locked, Labels, Requests, TypeInv, SetsCommand
  <2>2. LockHeld' /\ SetsCommand'
    BY <1>6, <2>1, MovedKeeps DEF LockWrite, Locked
  <2> QED BY <1>0, <1>6, <2>1, <2>2, TimesAssumption
          DEF LockWrite, Locked, TypeInv, TypeOK, Moved
<1>7. CASE Command(t)
  <2>0. holder = t /\ call[t].out \in Outputs /\ call[t].value \in BOOLEAN
    BY <1>0, <1>7, CallFacts DEF Command, TypeInv, LockHeld, SetsCommand, Requests
  <2>1. Moved(t) /\ pc'[t] = "idle"
    BY <1>7, CommandMoves
  <2>2. LockHeld' /\ SetsCommand'
    BY <1>7, <2>0, <2>1, MovedKeeps DEF Command, Unlocked, Requests
  <2>3. faults' \in 0..MaxFaults
    <3>1. UNCHANGED faults \/ Fault
      BY <1>7 DEF Command
    <3> QED BY <1>0, <3>1, FaultType
  <2>4. /\ gate' \in [Outputs -> BOOLEAN] /\ changed' \in [Outputs -> BOOLEAN]
        /\ late' \in [Outputs \X BOOLEAN -> Nat]
        /\ acked' \in [Outputs -> {"none", "on", "off"}]
    <3>1. Switched(call[t].out, call[t].value) \/ UNCHANGED <<gate, changed>>
      BY <1>7 DEF Command
    <3>2. /\ UNCHANGED late \/ late' = [late EXCEPT ![<<call[t].out, call[t].value>>] = @ + 1]
          /\ UNCHANGED acked
             \/ acked' = [acked EXCEPT ![call[t].out] = Word(call[t].value)]
      BY <1>7 DEF Command
    <3>3. gate' \in [Outputs -> BOOLEAN] /\ changed' \in [Outputs -> BOOLEAN]
      BY <1>0, <2>0, <3>1, SwitchedType DEF TypeOK
    <3> QED BY <1>0, <2>0, <3>2, <3>3 DEF TypeOK, Word
  <2> QED BY <1>0, <1>7, <2>1, <2>2, <2>3, <2>4, TimesAssumption
          DEF Command, Unlocked, TypeInv, TypeOK, Moved
<1> QED BY <1>1, <1>2, <1>3, <1>4, <1>5, <1>6, <1>7 DEF CallStep

\* A call starts, the lights are switched, time passes.
LEMMA OtherStepsType ==
    ASSUME TypeInv,
           \/ \E o \in Outputs : CallGetState(o)
           \/ \E t \in Users, o \in Outputs, v \in BOOLEAN : CallSet(t, o, v)
           \/ Environment
           \/ Tick
           \/ UNCHANGED vars
    PROVE  TypeInv'
<1> USE DEF cache, history, budgets
<1>0. TypeOK
  BY DEF TypeInv
<1>1. CASE \E o \in Outputs : CallGetState(o)
  <2>1. PICK o \in Outputs : CallGetState(o)
    BY <1>1
  <2>2. [kind |-> "get", out |-> o] \in Calls
    BY DEF Calls
  <2>3. Moved(Main) /\ pc'[Main] = "check"
    BY <1>0, <2>1, <2>2, ThreadFacts DEF CallGetState, TypeOK, Moved, Labels
  <2>4. LockHeld' /\ SetsCommand'
    BY <2>1, <2>3, ThreadFacts, MovedKeeps DEF CallGetState, Requests
  <2> QED BY <1>0, <2>1, <2>3, <2>4 DEF CallGetState, TypeInv, TypeOK, Moved
<1>2. CASE \E t \in Users, o \in Outputs, v \in BOOLEAN : CallSet(t, o, v)
  <2>1. PICK t \in Users, o \in Outputs, v \in BOOLEAN : CallSet(t, o, v)
    BY <1>2
  <2>2. [kind |-> "set", out |-> o, value |-> v] \in Calls
    BY DEF Calls
  <2>3. t \in Threads /\ Moved(t) /\ pc'[t] = "check"
    BY <1>0, <2>1, <2>2, ThreadFacts DEF CallSet, TypeOK, Moved, Labels
  <2>4. LockHeld' /\ SetsCommand'
    BY <2>1, <2>3, MovedKeeps DEF CallSet, Requests
  <2>5. commands' \in 0..MaxCommands /\ acked' \in [Outputs -> {"none", "on", "off"}]
    BY <1>0, <2>1, BoundsAssumption DEF CallSet, TypeOK
  <2> QED BY <1>0, <2>1, <2>3, <2>4, <2>5 DEF CallSet, TypeInv, TypeOK, Moved
<1>3. CASE Environment
  <2>1. PICK o \in Outputs, v \in BOOLEAN : SwitchedByOthers(o, v)
    BY <1>0, <1>3 DEF Environment, LateCommand, OtherSwitches, TypeOK
  <2>2. gate' \in [Outputs -> BOOLEAN] /\ changed' \in [Outputs -> BOOLEAN]
    BY <1>0, <2>1, SwitchedType DEF SwitchedByOthers
  <2>3. /\ overtaken' \in [Outputs -> BOOLEAN]
        /\ acked' \in [Outputs -> {"none", "on", "off"}]
    BY <1>0, <2>1 DEF SwitchedByOthers, TypeOK
  <2>4. /\ late' \in [Outputs \X BOOLEAN -> Nat] /\ changes' \in 0..MaxChanges
        /\ UNCHANGED <<cache, todo, holder, elapsed, answer, pc, call, ready, asked,
                       omitted, commands, faults>>
    <3>1. CASE \E p \in Outputs, w \in BOOLEAN : LateCommand(p, w)
      BY <1>0, <3>1 DEF LateCommand, TypeOK
    <3>2. CASE \E p \in Outputs : OtherSwitches(p)
      BY <1>0, <3>2, BoundsAssumption DEF OtherSwitches, TypeOK
    <3> QED BY <1>3, <3>1, <3>2 DEF Environment
  <2> QED BY <1>0, <2>2, <2>3, <2>4 DEF TypeInv, TypeOK, LockHeld, SetsCommand
<1>4. CASE Tick
  <2>1. age' \in [Outputs -> 0..Never] /\ asked' \in [Outputs -> 0..Stalest]
    BY <1>0, <1>4, TimesAssumption DEF Tick, Older, TypeOK, Never, Expired, Stalest
  <2>2. elapsed' \in 0..CallTime
    BY <1>0, <1>4, TimesAssumption DEF Tick, CutOff, TypeOK
  <2>3. todo' \subseteq Outputs
    BY <1>0, <1>4 DEF Tick, TypeOK
  <2> QED BY <1>0, <1>4, <2>1, <2>2, <2>3 DEF Tick, TypeInv, TypeOK, LockHeld, SetsCommand
<1>5. CASE UNCHANGED vars
  BY <1>0, <1>5 DEF vars, TypeInv, TypeOK, LockHeld, SetsCommand
<1> QED BY <1>1, <1>2, <1>3, <1>4, <1>5

LEMMA TypeInvCorrect == Spec => []TypeInv
<1>1. Init => TypeInv
  <2> SUFFICES ASSUME Init PROVE TypeInv
    OBVIOUS
  <2>1. pc \in [Threads -> Labels] /\ call \in [Threads -> Calls]
    BY IdleType DEF Init, Labels, Waits
  <2>2. NoAnswer \in [lights : [Outputs -> BOOLEAN], covers : SUBSET Outputs,
                      good : BOOLEAN]
    BY DEF NoAnswer
  <2>3. TypeOK
    BY <2>1, <2>2, TimesAssumption, BoundsAssumption, ThreadFacts
       DEF Init, TypeOK, Never, Stalest
  <2> QED BY <2>3 DEF Init, TypeInv, LockHeld, SetsCommand, Requests
<1>2. TypeInv /\ [Next]_vars => TypeInv'
  BY CallStepType, OtherStepsType DEF Next
<1> QED BY <1>1, <1>2, PTL DEF Spec

\* TypeOK is what the states of the driver look like: a request is cut off after
\* CallTime, answers are about outputs, calls are of the kinds of the code.
THEOREM TypeCorrect == Spec => []TypeOK
<1>1. TypeInv => TypeOK
  BY DEF TypeInv
<1> QED BY <1>1, TypeInvCorrect, PTL

-----------------------------------------------------------------------------
(* The driver keeps its promise: every step is one of Output, or none.     *)

\* A goroutine that is not in a call has no Set under way.
IdleAsksNothing == \A t \in Threads : pc[t] = "idle" => call[t].kind # "set"

LEMMA IdleInvCorrect == Spec => []IdleAsksNothing
<1>1. Init => IdleAsksNothing
  BY IdleType DEF Init, IdleAsksNothing
<1>2. TypeInv /\ IdleAsksNothing /\ [Next]_vars => IdleAsksNothing'
  <2> SUFFICES ASSUME TypeInv, IdleAsksNothing, [Next]_vars
               PROVE  IdleAsksNothing'
    OBVIOUS
  <2>0. pc \in [Threads -> Labels] /\ call \in [Threads -> Calls]
    BY DEF TypeInv, TypeOK
  <2>1. ASSUME NEW t \in Threads, CallStep(t)
        PROVE  IdleAsksNothing'
    <3>1. CASE \E err \in BOOLEAN : Return(t, err)
      BY <2>0, <3>1, IdleType DEF Return, IdleAsksNothing
    <3>2. CASE \E l \in Labels \ {"idle"} : Goto(t, l)
      BY <2>0, <3>2 DEF Goto, IdleAsksNothing
    <3>3. \/ \E err \in BOOLEAN : Return(t, err)
          \/ \E l \in {"lockRead", "lockWrite", "query", "apply", "got", "command"} :
                Goto(t, l)
      BY <2>1 DEF CallStep, Check, LockRead, Query, Apply, ReturnState, LockWrite, Command,
                  GiveUpOnError, Got, Locked
    <3> QED BY <3>1, <3>2, <3>3 DEF Labels, Requests, Waits
  <2>2. ASSUME NEW o \in Outputs, CallGetState(o)
        PROVE  IdleAsksNothing'
    BY <2>0, <2>2, ThreadFacts DEF CallGetState, IdleAsksNothing
  <2>3. ASSUME NEW t \in Users, NEW o \in Outputs, NEW v \in BOOLEAN, CallSet(t, o, v)
        PROVE  IdleAsksNothing'
    BY <2>0, <2>3, ThreadFacts DEF CallSet, IdleAsksNothing
  <2>4. CASE Environment \/ Tick \/ UNCHANGED vars
    BY <2>4 DEF Environment, LateCommand, OtherSwitches, Tick, vars, IdleAsksNothing
  <2> QED BY <2>1, <2>2, <2>3, <2>4 DEF Next
<1> QED BY <1>1, <1>2, TypeInvCorrect, PTL DEF Spec

\* A step that leaves the calls and the lights alone is none of Output.
LEMMA Stutters ==
    ASSUME UNCHANGED <<gate, call, late, changes>>
    PROVE  UNCHANGED Promise!vars
BY DEF Promise!vars, OpenSets

\* A call that returns closes its Set, if it is one.
LEMMA ReturnCloses ==
    ASSUME TypeInv, NEW t \in Threads, NEW err \in BOOLEAN, Return(t, err)
    PROVE  /\ OpenSets' = [OpenSets EXCEPT ![t] = {}]
           /\ call[t].kind # "set" => UNCHANGED OpenSets
BY IdleType DEF TypeInv, TypeOK, Return, OpenSets

LEMMA ReturnPromised ==
    ASSUME TypeInv, NEW t \in Threads, NEW err \in BOOLEAN, Return(t, err),
           UNCHANGED <<gate, late, changes>>
    PROVE  Promise!Drop(t) \/ UNCHANGED Promise!vars
<1>1. CASE call[t].kind = "set"
  <2>1. OpenSets[t] # {}
    BY <1>1 DEF OpenSets
  <2> QED BY <2>1, ReturnCloses DEF Promise!Drop, Promise!Done
<1>2. CASE call[t].kind # "set"
  BY <1>2, ReturnCloses DEF Promise!vars
<1> QED BY <1>1, <1>2

LEMMA GotPromised ==
    ASSUME TypeInv, NEW t \in Threads, NEW o, Got(t, o), UNCHANGED <<gate, late, changes>>
    PROVE  Promise!Drop(t) \/ UNCHANGED Promise!vars
<1>1. CASE Return(t, FALSE)
  BY <1>1, ReturnPromised
<1>2. CASE Goto(t, "lockWrite")
  BY <1>2, Stutters DEF Goto
<1> QED BY <1>1, <1>2 DEF Got

LEMMA CommandPromised ==
    ASSUME TypeInv, NEW t \in Threads, Command(t)
    PROVE  Promise!Obey(t) \/ Promise!Drop(t) \/ Promise!TimeOut(t)
<1> DEFINE cmd == <<call[t].out, call[t].value>>
<1>1. call[t].kind = "set" /\ OpenSets[t] = {cmd} /\ cmd \in Outputs \X BOOLEAN
  BY CallFacts DEF Command, TypeInv, TypeOK, SetsCommand, OpenSets
<1>2. \E err \in BOOLEAN : Return(t, err)
  BY DEF Command, GiveUpOnError
<1>3. Promise!Done(t) /\ UNCHANGED changes
  BY <1>1, <1>2, ReturnCloses DEF Promise!Done, Command
<1>4. CASE Switched(call[t].out, call[t].value) /\ UNCHANGED late
  <2>1. gate' = [gate EXCEPT ![cmd[1]] = cmd[2]]
    BY <1>4 DEF Switched
  <2> QED BY <1>1, <1>3, <1>4, <2>1 DEF Promise!Obey
<1>5. CASE UNCHANGED <<gate, late>>
  BY <1>3, <1>5 DEF Promise!Drop
<1>6. CASE UNCHANGED gate /\ late' = [late EXCEPT ![cmd] = @ + 1]
  BY <1>1, <1>3, <1>6 DEF Promise!TimeOut
<1> QED BY <1>4, <1>5, <1>6 DEF Command

LEMMA StepPromised ==
    ASSUME TypeInv, IdleAsksNothing, [Next]_vars
    PROVE  [Promise!Next]_Promise!vars
<1> USE DEF cache, history, budgets
<1>0. TypeOK
  BY DEF TypeInv
<1>1. ASSUME NEW t \in Threads, CallStep(t)
      PROVE  [Promise!Next]_Promise!vars
  <2>1. CASE Check(t)
    <3>1. Goto(t, "lockRead") \/ Got(t, call[t].out)
      BY <2>1 DEF Check
    <3> QED BY <2>1, <3>1, Stutters, GotPromised DEF Check, Goto, Promise!Next
  <2>2. CASE LockRead(t) \/ LockWrite(t)
    BY <2>2, Stutters DEF LockRead, LockWrite, Locked, Goto
  <2>3. CASE Query(t)
    <3>1. Goto(t, "apply") \/ Return(t, TRUE)
      BY <2>3 DEF Query
    <3> QED BY <2>3, <3>1, Stutters, ReturnPromised DEF Query, Goto, Promise!Next
  <2>4. CASE Apply(t)
    <3>1. Goto(t, "got") \/ \E err \in BOOLEAN : Return(t, err)
      BY <2>4 DEF Apply
    <3> QED BY <2>4, <3>1, Stutters, ReturnPromised DEF Apply, Goto, Promise!Next
  <2>5. CASE ReturnState(t)
    BY <2>5, GotPromised DEF ReturnState, Promise!Next
  <2>6. CASE Command(t)
    BY <2>6, CommandPromised DEF Promise!Next
  <2> QED BY <1>1, <2>1, <2>2, <2>3, <2>4, <2>5, <2>6 DEF CallStep
<1>2. CASE \E o \in Outputs : CallGetState(o)
  <2>1. PICK o \in Outputs : CallGetState(o)
    BY <1>2
  <2>2. call[Main].kind # "set" /\ call'[Main].kind # "set"
    BY <1>0, <2>1, ThreadFacts DEF CallGetState, TypeOK, IdleAsksNothing
  <2>3. \A t \in Threads \ {Main} : call'[t] = call[t]
    BY <1>0, <2>1 DEF CallGetState, TypeOK
  <2>4. UNCHANGED OpenSets
    BY <2>2, <2>3 DEF OpenSets
  <2> QED BY <2>1, <2>4 DEF CallGetState, Promise!vars
<1>3. ASSUME NEW t \in Users, NEW o \in Outputs, NEW v \in BOOLEAN, CallSet(t, o, v)
      PROVE  [Promise!Next]_Promise!vars
  <2>1. OpenSets' = [OpenSets EXCEPT ![t] = {<<o, v>>}]
    BY <1>0, <1>3, ThreadFacts DEF CallSet, TypeOK, OpenSets
  <2>2. OpenSets[t] = {}
    BY <1>3, ThreadFacts DEF CallSet, IdleAsksNothing, OpenSets
  <2>3. Promise!Begin(t)
    BY <1>3, <2>1, <2>2 DEF CallSet, Promise!Begin, Promise!Commands
  <2> QED BY <2>3, ThreadFacts DEF Promise!Next
<1>4. ASSUME NEW o \in Outputs, NEW v \in BOOLEAN, LateCommand(o, v)
      PROVE  [Promise!Next]_Promise!vars
  <2>1. /\ late[<<o, v>>] > 0 /\ late' = [late EXCEPT ![<<o, v>>] = @ - 1]
        /\ <<o, v>> \in Outputs \X BOOLEAN
    BY <1>4 DEF LateCommand
  <2>2. gate' = [gate EXCEPT ![<<o, v>>[1]] = <<o, v>>[2]]
    BY <1>4 DEF LateCommand, SwitchedByOthers, Switched
  <2>3. UNCHANGED <<OpenSets, changes>>
    BY <1>4 DEF LateCommand, OpenSets
  <2> QED BY <2>1, <2>2, <2>3 DEF Promise!ObeyLate, Promise!Next, Promise!Commands
<1>5. ASSUME NEW o \in Outputs, OtherSwitches(o)
      PROVE  [Promise!Next]_Promise!vars
  <2>1. gate' = [gate EXCEPT ![o] = ~@] /\ changes' = changes + 1
    BY <1>5 DEF OtherSwitches, SwitchedByOthers, Switched
  <2>2. UNCHANGED <<OpenSets, late>>
    BY <1>5 DEF OtherSwitches, OpenSets
  <2> QED BY <2>1, <2>2 DEF Promise!ByHand, Promise!Next
<1>6. CASE Tick \/ UNCHANGED vars
  BY <1>6, Stutters DEF Tick, vars
<1> QED BY <1>1, <1>2, <1>3, <1>4, <1>5, <1>6 DEF Next, Environment

\* The Grenton driver implements Output: every change of a light is one that
\* somebody made by hand, or the one effect of one command.
THEOREM OutputImplemented == Spec => ImplementsOutput
<1>1. Init => Promise!Init
  BY ThreadFacts, IdleType DEF Init, Promise!Init, Promise!Commands, OpenSets
<1> QED BY <1>1, StepPromised, TypeInvCorrect, IdleInvCorrect, PTL DEF Spec, ImplementsOutput, Promise!Spec

-----------------------------------------------------------------------------
(* The cache tells the truth.                                              *)

\* The answer under way tells the truth about every light that nobody else has
\* switched since the gate gave it: this program cannot have.
AnswerTruth ==
    \A t \in Threads : pc[t] = "apply" =>
        \A o \in Outputs : overtaken[o] \/ answer.lights[o] = gate[o]

TruthInv == CacheTruth /\ AnswerTruth

LEMMA TruthKept ==
    ASSUME TruthInv, UNCHANGED <<gate, state, changed, overtaken, answer>>,
           \A t \in Threads : pc'[t] = "apply" => pc[t] = "apply"
    PROVE  TruthInv'
BY DEF TruthInv, CacheTruth, AnswerTruth

\* The holder of the lock is the only one with an answer under way.
LEMMA OneAnswer ==
    ASSUME TypeInv, NEW t \in Threads, holder = t, Moved(t), pc'[t] # "apply"
    PROVE  \A u \in Threads : pc'[u] # "apply"
BY DEF TypeInv, LockHeld, Requests, Moved

LEMMA CallStepTruth ==
    ASSUME TypeInv, TruthInv, NEW t \in Threads, CallStep(t)
    PROVE  TruthInv'
<1> USE DEF cache, history, budgets
<1>0. TypeOK /\ call[t] \in Calls
  BY DEF TypeInv, TypeOK
<1>1. CASE Check(t)
  <2>1. Moved(t) /\ pc'[t] # "apply"
    BY <1>1, CheckMoves
  <2> QED BY <1>1, <2>1, TruthKept DEF Check, Moved
<1>2. CASE LockRead(t)
  <2>1. Moved(t) /\ pc'[t] = "query"
    BY <1>2, GotoType DEF LockRead, Locked, Labels, Requests
  <2> QED BY <1>2, <2>1, TruthKept DEF LockRead, Moved
<1>3. CASE Query(t)
  <2>0. holder = t
    BY <1>3 DEF Query, TypeInv, LockHeld, Requests
  <2>1. UNCHANGED <<gate, state, changed>>
    BY <1>3 DEF Query
  <2>2. CASE \E covers \in SUBSET Outputs, good \in BOOLEAN :
               answer' = [lights |-> gate, covers |-> covers, good |-> good]
    <3>1. answer'.lights = gate
      BY <2>2
    <3> QED BY <2>1, <3>1 DEF TruthInv, CacheTruth, AnswerTruth
  <2>3. CASE Return(t, TRUE)
    <3>1. Moved(t) /\ pc'[t] = "idle"
      BY <2>3, ReturnType
    <3> QED BY <2>0, <2>1, <3>1, OneAnswer DEF TruthInv, CacheTruth, AnswerTruth
  <2> QED BY <1>3, <2>2, <2>3 DEF Query
<1>4. CASE Apply(t)
  <2>0. holder = t
    BY <1>4 DEF Apply, TypeInv, LockHeld, Requests
  <2>1. Moved(t) /\ pc'[t] \in {"idle", "got"}
    BY <1>4, ApplyMoves
  <2>2. \A o \in Outputs : overtaken[o] \/ answer.lights[o] = gate[o]
    BY <1>4 DEF Apply, TruthInv, AnswerTruth
  <2>3. CacheTruth'
    BY <1>4, <2>2 DEF Apply, TruthInv, CacheTruth
  <2> QED BY <2>0, <2>1, <2>3, OneAnswer DEF TruthInv, AnswerTruth
<1>5. CASE ReturnState(t)
  <2>1. Moved(t) /\ pc'[t] # "apply"
    BY <1>5, GotType DEF ReturnState
  <2> QED BY <1>5, <2>1, TruthKept DEF ReturnState, Moved
<1>6. CASE LockWrite(t)
  <2>1. Moved(t) /\ pc'[t] = "command"
    BY <1>6, GotoType DEF LockWrite, Locked, Labels, Requests, TypeInv, SetsCommand
  <2> QED BY <1>6, <2>1, TruthKept DEF LockWrite, Moved
<1>7. CASE Command(t)
  <2>0. holder = t /\ call[t].out \in Outputs
    BY <1>0, <1>7, CallFacts DEF Command, TypeInv, LockHeld, Requests
  <2>1. Moved(t) /\ pc'[t] = "idle"
    BY <1>7, CommandMoves
  <2>2. Switched(call[t].out, call[t].value) \/ UNCHANGED <<gate, changed>>
    BY <1>7 DEF Command
  <2>3. CacheTruth'
    BY <1>0, <1>7, <2>0, <2>2 DEF Command, Switched, TruthInv, CacheTruth, TypeOK
  <2> QED BY <2>0, <2>1, <2>3, OneAnswer DEF TruthInv, AnswerTruth
<1> QED BY <1>1, <1>2, <1>3, <1>4, <1>5, <1>6, <1>7 DEF CallStep

LEMMA OtherStepsTruth ==
    ASSUME TypeInv, TruthInv,
           \/ \E o \in Outputs : CallGetState(o)
           \/ \E t \in Users, o \in Outputs, v \in BOOLEAN : CallSet(t, o, v)
           \/ Environment
           \/ Tick
           \/ UNCHANGED vars
    PROVE  TruthInv'
<1> USE DEF cache, history, budgets
<1>0. TypeOK
  BY DEF TypeInv
<1>1. CASE \E o \in Outputs : CallGetState(o)
  BY <1>0, <1>1, TruthKept, ThreadFacts DEF CallGetState, TypeOK
<1>2. CASE \E t \in Users, o \in Outputs, v \in BOOLEAN : CallSet(t, o, v)
  BY <1>0, <1>2, TruthKept, ThreadFacts DEF CallSet, TypeOK
<1>3. CASE Environment
  <2>1. PICK o \in Outputs, v \in BOOLEAN :
          SwitchedByOthers(o, v) /\ UNCHANGED <<state, answer, pc>>
    BY <1>0, <1>3 DEF Environment, LateCommand, OtherSwitches, TypeOK
  <2> QED BY <1>0, <2>1
          DEF SwitchedByOthers, Switched, TruthInv, CacheTruth, AnswerTruth, TypeOK
<1>4. CASE Tick
  BY <1>4, TruthKept DEF Tick
<1>5. CASE UNCHANGED vars
  BY <1>5, TruthKept DEF vars
<1> QED BY <1>1, <1>2, <1>3, <1>4, <1>5

\* The cache never says of a light what the gate does not, unless somebody has
\* switched it since the answer: a query and its storage are one under gateLock.
THEOREM CacheTruthHolds == Spec => []CacheTruth
<1>1. Init => TruthInv
  BY DEF Init, TruthInv, CacheTruth, AnswerTruth
<1>2. TypeInv /\ TruthInv /\ [Next]_vars => TruthInv'
  BY CallStepTruth, OtherStepsTruth DEF Next
<1>3. TruthInv => CacheTruth
  BY DEF TruthInv
<1> QED BY <1>1, <1>2, <1>3, TypeInvCorrect, PTL DEF Spec

-----------------------------------------------------------------------------
(* The cache is not too old.                                               *)

\* What is fresh was asked for at most one call before it was stored.
FreshWasAsked ==
    \A o \in Outputs : age[o] =< Freshness => asked[o] =< age[o] + CallTime

\* After a refresh the output is fresh, or the last answer left it out.
GotFresh ==
    \A t \in Threads : pc[t] = "got" =>
        age[call[t].out] =< Freshness \/ omitted[call[t].out]

AgeInv == FreshWasAsked /\ GotFresh

LEMMA AgeKept ==
    ASSUME AgeInv, UNCHANGED <<age, asked, omitted>>,
           \A t \in Threads : pc'[t] = "got" => pc[t] = "got" /\ call'[t] = call[t]
    PROVE  AgeInv'
BY DEF AgeInv, FreshWasAsked, GotFresh

LEMMA CallStepAge ==
    ASSUME TypeInv, AgeInv, NEW t \in Threads, CallStep(t)
    PROVE  AgeInv'
<1> USE DEF cache, history, budgets
<1>0. TypeOK /\ call \in [Threads -> Calls]
  BY DEF TypeInv, TypeOK
<1>1. CASE Check(t)
  <2>1. Moved(t) /\ pc'[t] # "got"
    BY <1>1, CheckMoves
  <2> QED BY <1>1, <2>1, AgeKept DEF Check, Moved
<1>2. CASE LockRead(t)
  <2>1. Moved(t) /\ pc'[t] = "query"
    BY <1>2, GotoType DEF LockRead, Locked, Labels, Requests
  <2> QED BY <1>2, <2>1, AgeKept DEF LockRead, Moved
<1>3. CASE Query(t)
  <2>1. CASE Goto(t, "apply") /\ UNCHANGED ready
    <3>1. Moved(t) /\ pc'[t] = "apply"
      BY <2>1, GotoType DEF Labels, Requests
    <3> QED BY <1>3, <3>1, AgeKept DEF Query, Moved
  <2>2. CASE Return(t, TRUE)
    <3>1. Moved(t) /\ pc'[t] = "idle"
      BY <2>2, ReturnType
    <3> QED BY <1>3, <3>1, AgeKept DEF Query, Moved
  <2> QED BY <1>3, <2>1, <2>2 DEF Query
<1>4. CASE Apply(t)
  <2>1. Moved(t)
    BY <1>4, ApplyMoves
  <2>2. \A o \in Outputs : age'[o] = 0 \/ omitted'[o]
    BY <1>4 DEF Apply, Stamped
  <2>3. \A u \in Threads : call'[u].out \in Outputs
    BY <2>1, CallFacts DEF Moved
  <2>4. GotFresh'
    BY <2>2, <2>3, TimesAssumption DEF GotFresh
  <2>5. FreshWasAsked'
    BY <1>0, <1>4, TimesAssumption
       DEF Apply, Stamped, AgeInv, FreshWasAsked, TypeOK, Never, Stalest
  <2> QED BY <2>4, <2>5 DEF AgeInv
<1>5. CASE ReturnState(t)
  <2>1. Moved(t) /\ pc'[t] # "got"
    BY <1>5, GotType DEF ReturnState
  <2> QED BY <1>5, <2>1, AgeKept DEF ReturnState, Moved
<1>6. CASE LockWrite(t)
  <2>1. Moved(t) /\ pc'[t] = "command"
    BY <1>6, GotoType DEF LockWrite, Locked, Labels, Requests, TypeInv, SetsCommand
  <2> QED BY <1>6, <2>1, AgeKept DEF LockWrite, Moved
<1>7. CASE Command(t)
  <2>1. Moved(t) /\ pc'[t] = "idle"
    BY <1>7, CommandMoves
  <2> QED BY <1>7, <2>1, AgeKept DEF Command, Moved
<1> QED BY <1>1, <1>2, <1>3, <1>4, <1>5, <1>6, <1>7 DEF CallStep

LEMMA OtherStepsAge ==
    ASSUME TypeInv, AgeInv,
           \/ \E o \in Outputs : CallGetState(o)
           \/ \E t \in Users, o \in Outputs, v \in BOOLEAN : CallSet(t, o, v)
           \/ Environment
           \/ Tick
           \/ UNCHANGED vars
    PROVE  AgeInv'
<1> USE DEF cache, history, budgets
<1>0. TypeOK
  BY DEF TypeInv
<1>1. CASE \E o \in Outputs : CallGetState(o)
  BY <1>0, <1>1, AgeKept, ThreadFacts DEF CallGetState, TypeOK
<1>2. CASE \E t \in Users, o \in Outputs, v \in BOOLEAN : CallSet(t, o, v)
  BY <1>0, <1>2, AgeKept, ThreadFacts DEF CallSet, TypeOK
<1>3. CASE Environment
  BY <1>3, AgeKept DEF Environment, LateCommand, OtherSwitches
<1>4. CASE Tick
  <2>1. GotFresh'
    BY <1>4 DEF Tick, GotFresh, Waits, Requests
  <2>2. FreshWasAsked'
    BY <1>0, <1>4, TimesAssumption
       DEF Tick, Older, AgeInv, FreshWasAsked, TypeOK, Never, Expired, Stalest
  <2> QED BY <2>1, <2>2 DEF AgeInv
<1>5. CASE UNCHANGED vars
  BY <1>5, AgeKept DEF vars
<1> QED BY <1>1, <1>2, <1>3, <1>4, <1>5

LEMMA AgeInvCorrect == Spec => []AgeInv
<1>1. Init => AgeInv
  BY TimesAssumption DEF Init, AgeInv, FreshWasAsked, GotFresh, Never
<1>2. TypeInv /\ AgeInv /\ [Next]_vars => AgeInv'
  BY CallStepAge, OtherStepsAge DEF Next
<1> QED BY <1>1, <1>2, TypeInvCorrect, PTL DEF Spec

\* The only step of a call that answers without a request is one that finds the
\* output fresh.
LEMMA CheckedFresh ==
    ASSUME TypeInv, NEW t \in Threads, Next, pc[t] = "check", UsesCache(t)
    PROVE  ~Stale(call[t].out)
<1>1. CASE \E u \in Threads : CallStep(u)
  <2>1. PICK u \in Threads : CallStep(u)
    BY <1>1
  <2>2. u = t
    <3>1. CallStep(u) /\ u # t => pc'[t] = pc[t]
      BY DEF CallStep, Check, LockRead, Query, Apply, ReturnState, LockWrite, Command,
             GiveUpOnError, Locked, Got, Goto, Return, TypeInv, TypeOK
    <3> QED BY <2>1, <3>1 DEF UsesCache
  <2>3. Check(t)
    BY <2>1, <2>2 DEF CallStep, LockRead, Query, Apply, ReturnState, LockWrite, Command,
             GiveUpOnError
  <2>4. Stale(call[t].out) => pc'[t] = "lockRead"
    BY <2>3 DEF Check, Goto, TypeInv, TypeOK
  <2> QED BY <2>4 DEF UsesCache
<1>2. CASE ~\E u \in Threads : CallStep(u)
  <2>1. pc'[t] = pc[t]
    BY <1>2, ThreadFacts DEF Next, CallGetState, CallSet, Environment, LateCommand,
       OtherSwitches, Tick, TypeInv, TypeOK
  <2> QED BY <2>1 DEF UsesCache
<1> QED BY <1>1, <1>2

\* No call of GetState answers with what the gate said longer ago than a freshness
\* and a call, but for an output the gate has just left out.
THEOREM BoundedStalenessHolds == Spec => BoundedStaleness
<1>1. TypeInv /\ AgeInv /\ [Next]_vars =>
        [\A t \in Threads : UsesCache(t) =>
            LET o == call[t].out
            IN asked[o] =< Freshness + CallTime \/ (Stale(o) /\ omitted[o])]_vars
  <2> SUFFICES ASSUME TypeInv, AgeInv, Next, NEW t \in Threads, UsesCache(t)
               PROVE  \/ asked[call[t].out] =< Freshness + CallTime
                      \/ Stale(call[t].out) /\ omitted[call[t].out]
    OBVIOUS
  <2>1. call[t].out \in Outputs
    BY CallFacts DEF TypeInv, TypeOK
  <2>2. age[call[t].out] \in Nat /\ asked[call[t].out] \in Nat
    BY <2>1, TimesAssumption DEF TypeInv, TypeOK, Never, Stalest
  <2>3. ~Stale(call[t].out) => asked[call[t].out] =< Freshness + CallTime
    BY <2>1, <2>2, TimesAssumption DEF AgeInv, FreshWasAsked, Stale
  <2>4. CASE pc[t] = "check"
    BY <2>3, <2>4, CheckedFresh
  <2>5. CASE pc[t] = "got"
    BY <2>1, <2>2, <2>3, <2>5, TimesAssumption DEF AgeInv, GotFresh, Stale
  <2> QED BY <2>4, <2>5 DEF UsesCache
<1> QED BY <1>1, TypeInvCorrect, AgeInvCorrect, PTL DEF Spec, BoundedStaleness

-----------------------------------------------------------------------------
(* Calls advance: the part of CallsReturn that needs no fairness.          *)

\* Whoever holds the lock is at a request.
LockUsed == holder # NoOne => pc[holder] \in Requests

LEMMA Countdown ==
    /\ StepsLeft["check"] = 7 /\ StepsLeft["lockRead"] = 6 /\ StepsLeft["query"] = 5
    /\ StepsLeft["apply"] = 4 /\ StepsLeft["got"] = 3 /\ StepsLeft["lockWrite"] = 2
    /\ StepsLeft["command"] = 1 /\ StepsLeft["idle"] = 0
BY DEF StepsLeft, Labels, Requests, Waits

\* A step of a call leaves fewer to come, and the lock with it or with nobody,
\* or where it was.
LEMMA CallStepAdvances ==
    ASSUME TypeInv, NEW t \in Threads, CallStep(t)
    PROVE  /\ Moved(t) /\ StepsLeft[pc'[t]] < StepsLeft[pc[t]]
           /\ \/ holder' = holder /\ pc[t] \notin Requests
              \/ holder' = t /\ pc'[t] \in Requests
              \/ holder' = NoOne
<1>0. pc[t] \in Requests => holder = t
  BY DEF TypeInv, LockHeld
<1>1. CASE Check(t)
  <2>1. pc'[t] \in {"idle", "lockRead", "lockWrite"} /\ Moved(t)
    BY <1>1, CheckMoves
  <2> QED BY <1>1, <2>1, Countdown DEF Check, Requests
<1>2. CASE LockRead(t)
  <2>1. Moved(t) /\ pc'[t] = "query"
    BY <1>2, GotoType DEF LockRead, Locked, Labels, Requests
  <2> QED BY <1>2, <2>1, Countdown DEF LockRead, Locked, Requests
<1>3. CASE Query(t)
  <2>1. CASE Goto(t, "apply") /\ UNCHANGED <<holder, elapsed, ready>>
    <3>1. Moved(t) /\ pc'[t] = "apply"
      BY <2>1, GotoType DEF Labels, Requests
    <3> QED BY <1>0, <1>3, <2>1, <3>1, Countdown DEF Query, Requests
  <2>2. CASE Return(t, TRUE) /\ Unlocked
    <3>1. Moved(t) /\ pc'[t] = "idle"
      BY <2>2, ReturnType
    <3> QED BY <1>3, <2>2, <3>1, Countdown DEF Query, Unlocked
  <2> QED BY <1>3, <2>1, <2>2 DEF Query
<1>4. CASE Apply(t)
  <2>1. Moved(t) /\ pc'[t] \in {"idle", "got"}
    BY <1>4, ApplyMoves
  <2> QED BY <1>4, <2>1, Countdown DEF Apply, Unlocked
<1>5. CASE ReturnState(t)
  <2>1. Moved(t) /\ pc'[t] \in {"idle", "lockWrite"}
    BY <1>5, GotType DEF ReturnState
  <2> QED BY <1>5, <2>1, Countdown DEF ReturnState, Requests
<1>6. CASE LockWrite(t)
  <2>1. Moved(t) /\ pc'[t] = "command"
    BY <1>6, GotoType DEF LockWrite, Locked, Labels, Requests, TypeInv, SetsCommand
  <2> QED BY <1>6, <2>1, Countdown DEF LockWrite, Locked, Requests
<1>7. CASE Command(t)
  <2>1. Moved(t) /\ pc'[t] = "idle"
    BY <1>7, CommandMoves
  <2> QED BY <1>7, <2>1, Countdown DEF Command, Unlocked
<1> QED BY <1>1, <1>2, <1>3, <1>4, <1>5, <1>6, <1>7 DEF CallStep

\* What is not a step of a call moves no call but one that starts, and no lock.
LEMMA OtherStepsAdvance ==
    ASSUME TypeInv,
           \/ \E o \in Outputs : CallGetState(o)
           \/ \E t \in Users, o \in Outputs, v \in BOOLEAN : CallSet(t, o, v)
           \/ Environment
           \/ Tick
           \/ UNCHANGED vars
    PROVE  /\ holder' = holder
           /\ \A t \in Threads : pc'[t] = pc[t] \/ (pc[t] = "idle" /\ pc'[t] = "check")
BY ThreadFacts DEF CallGetState, CallSet, Environment, LateCommand, OtherSwitches, Tick,
   vars, TypeInv, TypeOK

LEMMA LockUsedCorrect == Spec => []LockUsed
<1>1. Init => LockUsed
  BY DEF Init, LockUsed
<1>2. TypeInv /\ LockUsed /\ [Next]_vars => LockUsed'
  <2> SUFFICES ASSUME TypeInv, LockUsed, [Next]_vars PROVE LockUsed'
    OBVIOUS
  <2>0. holder \in Threads \cup {NoOne}
    BY DEF TypeInv, TypeOK
  <2>1. ASSUME NEW t \in Threads, CallStep(t) PROVE LockUsed'
    BY <2>0, <2>1, CallStepAdvances DEF LockUsed, Moved
  <2>2. CASE ~\E t \in Threads : CallStep(t)
    BY <2>0, <2>2, OtherStepsAdvance DEF LockUsed, Next, Requests
  <2> QED BY <2>1, <2>2
<1> QED BY <1>1, <1>2, TypeInvCorrect, PTL DEF Spec

\* Each step of a call brings its return nearer, also after a request that went
\* wrong, and a goroutine waits for gateLock only while one makes a request: with
\* a client that times out, no call of the driver can hang or wait in a circle.
THEOREM CallsAdvanceHolds == Spec => CallsAdvance
<1>1. TypeInv /\ LockUsed' /\ [Next]_vars =>
        [\A t \in Threads :
            /\ pc[t] \notin {"idle", pc'[t]} => StepsLeft[pc'[t]] < StepsLeft[pc[t]]
            /\ pc'[t] \in Waits /\ holder' # NoOne => pc'[holder'] \in Requests]_vars
  <2> SUFFICES ASSUME TypeInv, Next, NEW t \in Threads, pc[t] \notin {"idle", pc'[t]}
               PROVE  StepsLeft[pc'[t]] < StepsLeft[pc[t]]
    BY DEF LockUsed
  <2>1. PICK u \in Threads : CallStep(u)
    BY OtherStepsAdvance DEF Next
  <2>2. u = t
    BY <2>1, CallStepAdvances DEF Moved
  <2> QED BY <2>1, <2>2, CallStepAdvances
<1> QED BY <1>1, TypeInvCorrect, LockUsedCorrect, PTL DEF Spec, CallsAdvance

=============================================================================

------------------------------ MODULE Grenton ------------------------------
(***************************************************************************)
(* The Grenton driver: outputs behind an HTTP gate, cached for a while.    *)
(*                                                                         *)
(* GetState answers from the cache while it is fresh, and refreshes the    *)
(* cache of every output otherwise; Set asks GetState first and commands   *)
(* the gate only if the output differs.  Requests to the gate are made     *)
(* under gateLock and last at most CallTime; code between two requests     *)
(* takes no time.  The gate, its lights and the network are external.      *)
(***************************************************************************)
EXTENDS Integers, FiniteSets

CONSTANTS
    Outputs,        \* the ids of the outputs, GrentonIO.outputs
    Main,           \* the goroutine of Setup, and then of the ticker
    Users,          \* the goroutines that command outputs
    NoOne,          \* the holder of gateLock when it is free
    Freshness,      \* grentonObjectFreshness, in ticks
    CallTime,       \* grentonNetClientTimeout, in ticks
    MaxCommands,    \* bound: calls of Set in a run
    MaxFaults,      \* bound: requests that go wrong in a run
    MaxChanges      \* bound: lights somebody else switches in a run

Threads == {Main} \cup Users

ASSUME ThreadsAssumption == Main \notin Users /\ NoOne \notin Threads
ASSUME OutputsAssumption == Outputs # {}     \* or else Setup fails
ASSUME TimesAssumption == Freshness \in Nat /\ CallTime \in Nat
ASSUME BoundsAssumption ==
    MaxCommands \in Nat /\ MaxFaults \in Nat /\ MaxChanges \in Nat

Expired == Freshness + 1        \* any age beyond Freshness
Never == Freshness + 2          \* the age of a zero refreshedAt
Stalest == Freshness + CallTime + 1

VARIABLES
    gate,           \* the lights, as the gate knows them
    state, age,     \* the cache: state, and how long ago refreshedAt is
    holder,         \* who holds gateLock
    elapsed,        \* since the holder sent its request
    answer,         \* what the gate answered to a query, under way
    late,           \* how many of a command the gate may still get, timed out
    pc, call,       \* what every goroutine does next, and in which call
    todo,           \* the outputs the ticker has yet to poll in this tick
    ready,          \* "setup", "ready" or "failed"
    asked,          \* history: how long ago the query behind the cache was sent
    changed,        \* history: the light changed since the cache was filled
    overtaken,      \* history: others switched the light since the answer under way
    omitted,        \* history: the last answer left the output out
    acked,          \* history: what the last Set commanded, while it should hold
    commands, faults, changes

cache == <<state, age>>
history == <<asked, changed, overtaken, omitted, acked>>
budgets == <<commands, faults, changes>>
vars == <<gate, cache, holder, elapsed, answer, late, pc, call, todo, ready,
          history, budgets>>

Requests == {"query", "apply", "command"}
Waits == {"lockRead", "lockWrite"}
Labels == {"idle", "check", "got"} \cup Requests \cup Waits
Calls == [kind : {"setup", "get"}, out : Outputs]
         \cup [kind : {"set"}, out : Outputs, value : BOOLEAN]

TypeOK ==
    /\ gate \in [Outputs -> BOOLEAN] /\ state \in [Outputs -> BOOLEAN]
    /\ age \in [Outputs -> 0..Never]
    /\ holder \in Threads \cup {NoOne}
    /\ elapsed \in 0..CallTime
    /\ answer \in [lights : [Outputs -> BOOLEAN], covers : SUBSET Outputs,
                   good : BOOLEAN]
    /\ late \in [Outputs \X BOOLEAN -> Nat]
    /\ pc \in [Threads -> Labels] /\ call \in [Threads -> Calls]
    /\ todo \subseteq Outputs
    /\ ready \in {"setup", "ready", "failed"}
    /\ asked \in [Outputs -> 0..Stalest]
    /\ changed \in [Outputs -> BOOLEAN] /\ overtaken \in [Outputs -> BOOLEAN]
    /\ omitted \in [Outputs -> BOOLEAN]
    /\ acked \in [Outputs -> {"none", "on", "off"}]
    /\ commands \in 0..MaxCommands /\ faults \in 0..MaxFaults
    /\ changes \in 0..MaxChanges

-----------------------------------------------------------------------------

NoAnswer == [lights |-> [o \in Outputs |-> FALSE], covers |-> {}, good |-> TRUE]
Idle == [kind |-> "get", out |-> CHOOSE o \in Outputs : TRUE]
Word(v) == IF v THEN "on" ELSE "off"

\* Setup has created the outputs and calls updateState.
Init ==
    /\ gate \in [Outputs -> BOOLEAN]
    /\ state = [o \in Outputs |-> FALSE] /\ age = [o \in Outputs |-> Never]
    /\ holder = NoOne /\ elapsed = 0 /\ answer = NoAnswer
    /\ late = [cmd \in Outputs \X BOOLEAN |-> 0]
    /\ pc = [t \in Threads |-> IF t = Main THEN "lockRead" ELSE "idle"]
    /\ call = [t \in Threads |-> IF t = Main THEN [Idle EXCEPT !.kind = "setup"]
                                             ELSE Idle]
    /\ todo = {} /\ ready = "setup"
    /\ asked = [o \in Outputs |-> 0] /\ changed = [o \in Outputs |-> TRUE]
    /\ overtaken = [o \in Outputs |-> FALSE] /\ omitted = [o \in Outputs |-> FALSE]
    /\ acked = [o \in Outputs |-> "none"]
    /\ commands = 0 /\ faults = 0 /\ changes = 0

Goto(t, label) == pc' = [pc EXCEPT ![t] = label] /\ UNCHANGED call

\* The call returns.  An error of Setup is the end of the program.
Return(t, err) ==
    /\ pc' = [pc EXCEPT ![t] = "idle"]
    /\ call' = [call EXCEPT ![t] = Idle]
    /\ ready' = IF call[t].kind # "setup" THEN ready
                ELSE IF err THEN "failed" ELSE "ready"

Locked(t, label) ==
    /\ holder = NoOne /\ holder' = t /\ elapsed' = 0
    /\ Goto(t, label)

\* A faulty driver that forgets to unlock.
StillLocked == UNCHANGED <<holder, elapsed>>

\* The deferred Unlock.
Unlocked == holder' = NoOne /\ elapsed' = 0

\* A light becomes v: what the cache holds of it is out of date.
Switched(o, v) ==
    /\ gate' = [gate EXCEPT ![o] = v]
    /\ changed' = [changed EXCEPT ![o] = @ \/ gate[o] # v]

Fault == faults < MaxFaults /\ faults' = faults + 1

-----------------------------------------------------------------------------
(* GetState and updateState.                                               *)

\* The ticker syncs the IOs of the outputs, once in a tick.
CallGetState(o) ==
    /\ ready = "ready" /\ pc[Main] = "idle"
    /\ o \in todo /\ todo' = todo \ {o}
    /\ pc' = [pc EXCEPT ![Main] = "check"]
    /\ call' = [call EXCEPT ![Main] = [kind |-> "get", out |-> o]]
    /\ UNCHANGED <<gate, cache, holder, elapsed, answer, late, ready, history,
                   budgets>>

\* GetState has the state of the output: Set compares it with what it wants.
Got(t, o) ==
    \/ /\ call[t].kind # "set"
       /\ Return(t, FALSE) /\ UNCHANGED acked
    \/ /\ call[t].kind = "set" /\ state[o] = call[t].value
       /\ Return(t, FALSE)
       /\ acked' = [acked EXCEPT ![o] = Word(call[t].value)]
    \/ /\ call[t].kind = "set" /\ state[o] # call[t].value
       /\ Goto(t, "lockWrite") /\ UNCHANGED <<ready, acked>>

\* A faulty check that only asks the gate once.
StaleUntilRead(o) == age[o] = Never

Stale(o) == age[o] > Freshness

Check(t) ==
    /\ pc[t] = "check"
    /\ IF Stale(call[t].out)
       THEN Goto(t, "lockRead") /\ UNCHANGED <<ready, acked>>
       ELSE Got(t, call[t].out)
    /\ UNCHANGED <<gate, cache, holder, elapsed, answer, late, todo, asked, changed,
                   overtaken, omitted, budgets>>

LockRead(t) ==
    /\ pc[t] = "lockRead"
    /\ Locked(t, "query")
    /\ UNCHANGED <<gate, cache, answer, late, todo, ready, history, budgets>>

\* The gate answers for some of the outputs, possibly with an id that does not
\* parse after them, or the request fails.
Query(t) ==
    /\ pc[t] = "query"
    /\ \/ \E covers \in SUBSET Outputs, good \in BOOLEAN :
            /\ IF covers = Outputs /\ good THEN UNCHANGED faults ELSE Fault
            /\ answer' = [lights |-> gate, covers |-> covers, good |-> good]
            /\ overtaken' = [o \in Outputs |-> FALSE]
            /\ Goto(t, "apply")
            /\ UNCHANGED <<holder, elapsed, ready>>
       \/ /\ Fault
          /\ Unlocked /\ Return(t, TRUE)
          /\ UNCHANGED <<answer, overtaken>>
    /\ UNCHANGED <<gate, cache, late, todo, asked, changed, omitted, acked, commands,
                   changes>>

\* A faulty loop that stamps every output, in the answer or not.
StampedAll(f, covers, v) == [o \in Outputs |-> v]

\* The loop over the answer stamps the outputs that are in it.
Stamped(f, covers, v) == [o \in Outputs |-> IF o \in covers THEN v ELSE f[o]]

\* The answer is stored.  Only an output that was never refreshed is an error.
Apply(t) ==
    /\ pc[t] = "apply"
    /\ state' = [o \in Outputs |-> IF o \in answer.covers THEN answer.lights[o]
                                   ELSE state[o]]
    /\ age' = Stamped(age, answer.covers, 0)
    /\ asked' = [o \in Outputs |-> IF o \in answer.covers THEN elapsed ELSE asked[o]]
    /\ changed' = [o \in Outputs |-> IF o \in answer.covers THEN overtaken[o]
                                     ELSE changed[o]]
    /\ omitted' = [o \in Outputs |-> o \notin answer.covers]
    /\ IF ~answer.good \/ \E o \in Outputs : age'[o] = Never
       THEN Return(t, TRUE)
       ELSE IF call[t].kind = "setup"
       THEN Return(t, FALSE)
       ELSE Goto(t, "got") /\ UNCHANGED ready
    /\ Unlocked
    /\ answer' = NoAnswer /\ overtaken' = [o \in Outputs |-> FALSE]
    /\ UNCHANGED <<gate, late, todo, acked, budgets>>

\* return gro.state, after the lock is given back.
ReturnState(t) ==
    /\ pc[t] = "got"
    /\ Got(t, call[t].out)
    /\ UNCHANGED <<gate, cache, holder, elapsed, answer, late, todo, asked, changed,
                   overtaken, omitted, budgets>>

-----------------------------------------------------------------------------
(* Set and setState.                                                       *)

CallSet(t, o, v) ==
    /\ ready = "ready" /\ t \in Users /\ pc[t] = "idle"
    /\ commands < MaxCommands /\ commands' = commands + 1
    /\ pc' = [pc EXCEPT ![t] = "check"]
    /\ call' = [call EXCEPT ![t] = [kind |-> "set", out |-> o, value |-> v]]
    /\ acked' = [acked EXCEPT ![o] = "none"]
    /\ UNCHANGED <<gate, cache, holder, elapsed, answer, late, todo, ready, asked,
                   changed, overtaken, omitted, faults, changes>>

\* A faulty setState that does not take the lock.
LockWriteUnlocked(t) ==
    /\ pc[t] = "lockWrite"
    /\ holder' = t /\ elapsed' = 0
    /\ Goto(t, "command")
    /\ UNCHANGED <<gate, cache, answer, late, todo, ready, history, budgets>>

LockWrite(t) ==
    /\ pc[t] = "lockWrite"
    /\ Locked(t, "command")
    /\ UNCHANGED <<gate, cache, answer, late, todo, ready, history, budgets>>

\* A faulty setState that tries again.
RetryOnError(t) == Goto(t, "lockWrite") /\ UNCHANGED ready

GiveUpOnError(t) == Return(t, TRUE)

\* The gate obeys; it refuses, which setState takes for success; or there is no
\* response in time, and the command is lost or the gate gets it later.  The
\* cache keeps the state it had.
Command(t) ==
    /\ pc[t] = "command"
    /\ LET o == call[t].out
           v == call[t].value
       IN \/ /\ \/ Switched(o, v) /\ UNCHANGED faults
                \/ Fault /\ UNCHANGED <<gate, changed>>
             /\ acked' = [acked EXCEPT ![o] = Word(v)]
             /\ Return(t, FALSE) /\ UNCHANGED late
          \/ /\ Fault
             /\ late' \in {late, [late EXCEPT ![<<o, v>>] = @ + 1]}
             /\ GiveUpOnError(t) /\ UNCHANGED <<gate, changed, acked>>
    /\ Unlocked
    /\ UNCHANGED <<cache, todo, answer, asked, overtaken, omitted, commands, changes>>

-----------------------------------------------------------------------------
(* The gate and time.                                                      *)

SwitchedByOthers(o, v) ==
    /\ Switched(o, v)
    /\ overtaken' = [overtaken EXCEPT ![o] = @ \/ gate[o] # v]
    /\ acked' = [acked EXCEPT ![o] = "none"]

LateCommand(o, v) ==
    /\ late[<<o, v>>] > 0 /\ late' = [late EXCEPT ![<<o, v>>] = @ - 1]
    /\ SwitchedByOthers(o, v)
    /\ UNCHANGED <<cache, todo, holder, elapsed, answer, pc, call, ready, asked, omitted,
                   budgets>>

\* A wall switch or another application.
OtherSwitches(o) ==
    /\ changes < MaxChanges /\ changes' = changes + 1
    /\ SwitchedByOthers(o, ~gate[o])
    /\ UNCHANGED <<cache, holder, elapsed, answer, late, todo, pc, call, ready, asked,
                   omitted, commands, faults>>

Older(a, oldest) == IF a < oldest THEN a + 1 ELSE a

\* A faulty http.Client without a Timeout.
NotCutOff == TRUE

\* A request under way is cut off after CallTime.
CutOff == holder # NoOne => elapsed < CallTime

Tick ==
    /\ \A t \in Threads : pc[t] \in {"idle"} \cup Waits \cup Requests
    /\ pc[Main] = "idle" => todo = {}
    /\ \A t \in Threads : pc[t] \in Waits => holder # NoOne
    /\ CutOff
    /\ todo' = IF ready = "ready" /\ pc[Main] = "idle" THEN Outputs ELSE todo
    /\ elapsed' = IF holder = NoOne THEN 0 ELSE elapsed + 1
    /\ age' = [o \in Outputs |-> IF age[o] = Never THEN Never ELSE Older(age[o], Expired)]
    /\ asked' = [o \in Outputs |-> Older(asked[o], Stalest)]
    /\ UNCHANGED <<gate, state, holder, answer, late, pc, call, ready, changed,
                   overtaken, omitted, acked, budgets>>

-----------------------------------------------------------------------------

CallStep(t) ==
    \/ Check(t) \/ LockRead(t) \/ Query(t) \/ Apply(t) \/ ReturnState(t)
    \/ LockWrite(t) \/ Command(t)

Environment ==
    \/ \E o \in Outputs, v \in BOOLEAN : LateCommand(o, v)
    \/ \E o \in Outputs : OtherSwitches(o)

Next ==
    \/ \E t \in Threads : CallStep(t)
    \/ \E o \in Outputs : CallGetState(o)
    \/ \E t \in Users, o \in Outputs, v \in BOOLEAN : CallSet(t, o, v)
    \/ Environment
    \/ Tick

\* Go runs every goroutine, requests end by their timeout, and time passes.
Fairness ==
    /\ \A t \in Threads : WF_vars(CallStep(t))
    /\ WF_vars(\E o \in Outputs : CallGetState(o))
    /\ WF_vars(Tick)

Spec == Init /\ [][Next]_vars
FairSpec == Spec /\ Fairness

-----------------------------------------------------------------------------
(* Safety.                                                                 *)

\* Once the cache is filled it tells the truth about every light nobody has
\* switched since: a command of this program cannot come between the answer of
\* the gate and its storage, which the lock around both requests rules out.
CacheTruth == \A o \in Outputs : changed[o] \/ state[o] = gate[o]

\* A call to GetState is about to use the cache.
UsesCache(t) == pc[t] \in {"check", "got"} /\ pc'[t] \notin {pc[t], "lockRead"}

\* GetState never answers with what the gate said more than Freshness and one
\* call ago, unless the gate has just left the output out of its answer, which
\* updateState lets pass.
BoundedStaleness ==
    [][\A t \in Threads : UsesCache(t) =>
          LET o == call[t].out
          IN asked[o] =< Freshness + CallTime \/ (Stale(o) /\ omitted[o])]_vars

\* What the last Set of an output returned success for is in force, as long as
\* nobody else switches the output.
SetTakesEffect ==
    \A o \in Outputs :
        (\A t \in Threads : pc[t] # "idle" => call[t].out # o)
            => acked[o] \in {"none", Word(gate[o])}

\* How many steps of its own a call has left at most, at each label.
StepsLeft ==
    [l \in Labels |-> CASE l = "check" -> 7 [] l = "lockRead" -> 6 [] l = "query" -> 5
                        [] l = "apply" -> 4 [] l = "got" -> 3 [] l = "lockWrite" -> 2
                        [] l = "command" -> 1 [] l = "idle" -> 0]

\* Nothing keeps a call going round or waiting for another: every step of it,
\* the errors of the gate included, leaves fewer to come, though a Set locks
\* twice, and who waits for gateLock waits for a goroutine at a request, which
\* waits for nothing but the gate and the timeout of the client.
CallsAdvance ==
    [][\A t \in Threads :
          /\ pc[t] \notin {"idle", pc'[t]} => StepsLeft[pc'[t]] < StepsLeft[pc[t]]
          /\ pc'[t] \in Waits /\ holder' # NoOne => pc'[holder'] \in Requests]_vars

-----------------------------------------------------------------------------
(* What the driver promises.                                               *)

\* A light only changes when somebody else switches it or when the gate carries
\* out the command of a Set, once: one of a Set under way, or of one that timed
\* out.  In particular no refresh, and no call of GetState, switches a light.
OpenSets ==
    [t \in Threads |-> IF call[t].kind = "set" THEN {<<call[t].out, call[t].value>>} ELSE {}]

Promise == INSTANCE Output WITH
    Callers <- Threads, light <- gate, hands <- changes,
    open <- OpenSets

ImplementsOutput == Promise!Spec

-----------------------------------------------------------------------------
(* Liveness.                                                               *)

\* Every call of the driver returns, whatever goes wrong with its requests.
CallsReturn == \A t \in Threads : pc[t] # "idle" ~> pc[t] = "idle"

\* When the lights are left alone the cache comes to agree with all of them.
CacheConverges == <>[](ready = "ready" => \A o \in Outputs : state[o] = gate[o])

=============================================================================

------------------------------- MODULE Output -------------------------------
(***************************************************************************)
(* What a driver promises of its outputs (DigitalOutput in io_driver.go):  *)
(* a light is only switched by hand or by the Set of somebody who asked    *)
(* for just that.  A Set works at most once; it may work after it has      *)
(* returned, with an error or without, or never; and nothing keeps two     *)
(* Sets of an output apart.                                                *)
(***************************************************************************)
EXTENDS Naturals

CONSTANTS
    Outputs,
    Callers         \* who may be in a call of Set

VARIABLES
    light,          \* what every output is
    open,           \* the command of a caller's Set under way, or nothing
    late,           \* how many of a command are on their way without their Set
    hands           \* how often somebody else has switched a light

vars == <<light, open, late, hands>>

Commands == Outputs \X BOOLEAN

Init ==
    /\ light \in [Outputs -> BOOLEAN]
    /\ open = [c \in Callers |-> {}]
    /\ late = [cmd \in Commands |-> 0]
    /\ hands = 0

Begin(c) ==
    /\ open[c] = {}
    /\ \E cmd \in Commands : open' = [open EXCEPT ![c] = {cmd}]
    /\ UNCHANGED <<light, late, hands>>

Done(c) == open[c] # {} /\ open' = [open EXCEPT ![c] = {}]

\* The output obeys the command and the call is over.
Obey(c) ==
    /\ \E cmd \in open[c] : light' = [light EXCEPT ![cmd[1]] = cmd[2]]
    /\ Done(c)
    /\ UNCHANGED <<late, hands>>

\* The call ends and the command is lost, or was not needed.
Drop(c) == Done(c) /\ UNCHANGED <<light, late, hands>>

\* The call goes on without the command, which is still on its way.
TimeOut(c) ==
    /\ \E cmd \in open[c] : late' = [late EXCEPT ![cmd] = @ + 1]
    /\ Done(c)
    /\ UNCHANGED <<light, hands>>

ObeyLate(cmd) ==
    /\ late[cmd] > 0 /\ late' = [late EXCEPT ![cmd] = @ - 1]
    /\ light' = [light EXCEPT ![cmd[1]] = cmd[2]]
    /\ UNCHANGED <<open, hands>>

\* Commands on their way get lost.
Lose ==
    /\ late' \in [Commands -> Nat] /\ \A cmd \in Commands : late'[cmd] =< late[cmd]
    /\ UNCHANGED <<light, open, hands>>

ByHand(o) ==
    /\ light' = [light EXCEPT ![o] = ~@]
    /\ hands' = hands + 1
    /\ UNCHANGED <<open, late>>

Next ==
    \/ \E c \in Callers : Begin(c) \/ Obey(c) \/ Drop(c) \/ TimeOut(c)
    \/ \E cmd \in Commands : ObeyLate(cmd)
    \/ Lose
    \/ \E o \in Outputs : ByHand(o)

Spec == Init /\ [][Next]_vars

=============================================================================

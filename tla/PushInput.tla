------------------------------ MODULE PushInput ------------------------------
(***************************************************************************)
(* The goroutine that McpInput.SubscribeToPushEvent starts: it samples a   *)
(* contact and turns it into single presses, in the presence of bounces,   *)
(* failed reads, late wake-ups and listeners that take their time.         *)
(***************************************************************************)
EXTENDS Integers

CONSTANTS
    Listen, Confirm, Dead,  \* listenInterval, pushConfirmationInterval, deadTime
    FireTime,               \* how long FireEvent may take: it sets the outputs
    Late                    \* how late a timer or a Sleep may end

ASSUME IntervalsAssumption ==
    /\ Listen \in Nat \ {0} /\ Confirm \in Nat \ {0} /\ Dead \in Nat \ {0}
    /\ FireTime \in Nat /\ Late \in Nat

\* The least time between two events, the longest a press may last unseen, and
\* the bound of the clocks.
Period == Dead + Listen + Confirm
Unseen == FireTime + Period + 3 * Late
Longest == Unseen + 1

VARIABLES
    closed,         \* the contact
    held,           \* how long it has been closed, and how long it was open
    gap,            \* before that: the clocks of the contact
    failed, seen,   \* a read failed, an event was fired since it closed
    pc,             \* what the goroutine waits for
    waited,         \* since when
    sinceEvent      \* since the last FireEvent

contact == <<closed, held, gap>>
vars == <<contact, failed, seen, pc, waited, sinceEvent>>

\* The longest the goroutine stays at a place.
Limit(at) ==
    CASE at = "listen" -> Listen + Late
      [] at = "confirm" -> Confirm + Late
      [] at = "fire" -> FireTime
      [] at = "dead" -> Dead + Late

TypeOK ==
    /\ closed \in BOOLEAN /\ failed \in BOOLEAN /\ seen \in BOOLEAN
    /\ held \in 0..Longest /\ gap \in 0..Longest /\ sinceEvent \in 0..Longest
    /\ pc \in {"listen", "confirm", "fire", "dead"}
    /\ waited \in 0..Limit(pc)

-----------------------------------------------------------------------------

\* time.NewTimer(listenInterval).
Init ==
    /\ closed = FALSE /\ held = 0 /\ gap = Longest
    /\ failed = FALSE /\ seen = FALSE
    /\ pc = "listen" /\ waited = 0
    /\ sinceEvent = Longest

Await(at) == pc' = at /\ waited' = 0

\* A faulty goroutine that returns after its first sample or event.
Return == pc' = "returned" /\ waited' = 0

\* min.timer.Reset(listenInterval).
Rearm == Await("listen")

\* A faulty GetState that leaves the inversion out.
RawState == ~closed

GetState == closed

\* The goroutine takes a failed read for an open contact: it drops the error.
Read(state) ==
    \/ state = GetState /\ UNCHANGED failed
    \/ state = FALSE /\ failed' = TRUE

Sample ==
    /\ pc = "listen" /\ waited >= Listen
    /\ \/ Read(TRUE) /\ Await("confirm")
       \/ Read(FALSE) /\ Rearm
    /\ UNCHANGED <<contact, seen, sinceEvent>>

\* A faulty confirmation that sleeps the listenInterval once more.
ConfirmedSoon == waited >= Listen

\* The end of the Sleep(pushConfirmationInterval).
Confirmed == waited >= Confirm

SampleAgain ==
    /\ pc = "confirm" /\ Confirmed
    /\ \/ Read(TRUE) /\ Await("fire") /\ sinceEvent' = 0 /\ seen' = TRUE
       \/ Read(FALSE) /\ Rearm /\ UNCHANGED <<seen, sinceEvent>>
    /\ UNCHANGED contact

\* A faulty loop without the Sleep(deadTime).
NoSleep == Rearm

SleepDead == Await("dead")

\* FireEvent returns.
Fired ==
    /\ pc = "fire"
    /\ SleepDead
    /\ UNCHANGED <<contact, failed, seen, sinceEvent>>

DeadTimeOver ==
    /\ pc = "dead" /\ waited >= Dead
    /\ Rearm
    /\ UNCHANGED <<contact, failed, seen, sinceEvent>>

-----------------------------------------------------------------------------
(* The contact and time.                                                   *)

Close ==
    /\ ~closed
    /\ closed' = TRUE /\ held' = 0 /\ failed' = FALSE /\ seen' = FALSE
    /\ UNCHANGED <<gap, pc, waited, sinceEvent>>

Open ==
    /\ closed
    /\ closed' = FALSE /\ gap' = 0
    /\ UNCHANGED <<held, failed, seen, pc, waited, sinceEvent>>

Later(clock) == IF clock < Longest THEN clock + 1 ELSE clock

Tick ==
    /\ waited < Limit(pc) /\ waited' = waited + 1
    /\ held' = IF closed THEN Later(held) ELSE held
    /\ gap' = IF closed THEN gap ELSE Later(gap)
    /\ sinceEvent' = Later(sinceEvent)
    /\ UNCHANGED <<closed, failed, seen, pc>>

Next == Sample \/ SampleAgain \/ Fired \/ DeadTimeOver \/ Close \/ Open \/ Tick

Spec == Init /\ [][Next]_vars

-----------------------------------------------------------------------------

\* A press longer than Unseen is not lost, whatever the goroutine was doing when
\* the contact closed, unless a read failed meanwhile.
PressIsSeen == closed /\ ~failed /\ held > Unseen => seen

FiresEvent == pc # "fire" /\ pc' = "fire"

\* Contacts that bounce and buttons that are held do not toggle a light all the
\* time: events keep their distance.  So no press shorter than Period, however
\* it bounces, is two single presses.
EventsSpaced == [][FiresEvent => sinceEvent >= Period]_vars

\* A lone closing shorter than the confirmation is no press: an event is fired
\* for a contact closed that long, or else for one that was closed when the
\* confirmation began and has opened and closed again since.
NoGhostPress == [][FiresEvent => held >= Confirm \/ held + gap =< Confirm + Late]_vars

=============================================================================

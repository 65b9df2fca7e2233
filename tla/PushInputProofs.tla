--------------------------- MODULE PushInputProofs ---------------------------
(***************************************************************************)
(* What PushInput promises of presses, for all intervals and delays.  The  *)
(* invariants say how the clocks of the contact and of the last event      *)
(* compare with the place of the goroutine and how long it has been there. *)
(***************************************************************************)
EXTENDS PushInput, TLAPS

\* The goroutine has at most so much behind it since a contact closed that it has
\* not seen, and at least so much since the last event, when it comes to a place.
AtMost(at) ==
    CASE at = "fire" -> 0
      [] at = "dead" -> FireTime
      [] at = "listen" -> FireTime + Dead + Late
      [] at = "confirm" -> FireTime + Dead + Listen + 2 * Late

AtLeast(at) ==
    CASE at = "fire" -> 0
      [] at = "dead" -> 0
      [] at = "listen" -> Dead
      [] at = "confirm" -> Dead + Listen

UnseenInv == closed /\ ~failed /\ ~seen => held =< AtMost(pc) + waited

SpacedInv == sinceEvent >= AtLeast(pc) + waited

\* Since the first sample the contact has been closed, or it opened after it.
ConfirmInv ==
    pc = "confirm" => IF closed THEN held >= waited \/ held + gap =< waited
                                ELSE gap =< waited

Inv == TypeOK /\ UnseenInv /\ SpacedInv /\ ConfirmInv

\* TypeOK, its flags and its clocks apart.
Flags == closed \in BOOLEAN /\ failed \in BOOLEAN /\ seen \in BOOLEAN

Clocks ==
    /\ held \in 0..Longest /\ gap \in 0..Longest /\ sinceEvent \in 0..Longest
    /\ pc \in {"listen", "confirm", "fire", "dead"}
    /\ waited \in 0..Limit(pc)

\* A sample that does not lead on has found the contact open, or it failed.
LEMMA SampleStep ==
    ASSUME Sample
    PROVE  /\ pc = "listen" /\ waited >= Listen /\ waited' = 0
           /\ held' = held /\ gap' = gap /\ sinceEvent' = sinceEvent
           /\ closed' = closed /\ seen' = seen
           /\ \/ pc' = "confirm" /\ closed' /\ failed' = failed
              \/ pc' = "listen" /\ failed' = failed /\ ~closed
              \/ pc' = "listen" /\ failed' = TRUE
    BY Zenon DEF Sample, Read, GetState, Rearm, Await, contact

LEMMA SampleAgainStep ==
    ASSUME SampleAgain
    PROVE  /\ pc = "confirm" /\ waited >= Confirm /\ waited' = 0
           /\ held' = held /\ gap' = gap /\ closed' = closed
           /\ \/ pc' = "fire" /\ closed /\ failed' = failed /\ sinceEvent' = 0 /\ seen' = TRUE
              \/ /\ pc' = "listen" /\ sinceEvent' = sinceEvent /\ seen' = seen
                 /\ \/ failed' = failed /\ ~closed
                    \/ failed' = TRUE
    BY Zenon DEF SampleAgain, Confirmed, Read, GetState, Rearm, Await, contact

\* The clocks do not go back, and go on by a tick as long as they matter.
LEMMA LaterClock ==
    ASSUME NEW clock \in 0..Longest
    PROVE  /\ Later(clock) \in 0..Longest
           /\ clock =< Later(clock) /\ Later(clock) =< clock + 1
           /\ \A n \in 0..Longest : n =< clock + 1 => n =< Later(clock)
    BY IntervalsAssumption DEF Later, Longest, Unseen, Period

LEMMA InitInv == Init => Inv
<1> SUFFICES ASSUME Init PROVE Inv
    OBVIOUS
<1> USE IntervalsAssumption DEF Init
<1>1. Flags
    BY DEF Flags
<1>2. Clocks
    BY DEF Clocks, Limit, Longest, Unseen, Period
<1>3. UnseenInv /\ ConfirmInv
    BY DEF UnseenInv, ConfirmInv
<1>4. SpacedInv
    BY DEF SpacedInv, AtLeast, Longest, Unseen, Period
<1> QED
    BY <1>1, <1>2, <1>3, <1>4 DEF Inv, TypeOK, Flags, Clocks

LEMMA StepInv == Inv /\ [Next]_vars => Inv'
<1> SUFFICES ASSUME Inv, [Next]_vars PROVE Inv'
    OBVIOUS
<1> USE IntervalsAssumption DEF contact, Await
<1>a. Flags /\ Clocks
    BY DEF Inv, TypeOK, Flags, Clocks
<1>1. CASE Sample
  <2>1. /\ pc = "listen" /\ waited' = 0 /\ pc' \in {"listen", "confirm"}
        /\ held' = held /\ gap' = gap /\ sinceEvent' = sinceEvent
    BY <1>1, SampleStep
  <2>2. waited >= Listen
    BY <1>1, SampleStep
  <2>3. pc' = "confirm" => closed'
    BY <1>1, SampleStep
  <2>4. pc' = "listen" => failed' \/ ~closed'
    BY <1>1, SampleStep
  <2>5. closed' /\ ~failed' /\ ~seen' => closed /\ ~failed /\ ~seen
    BY <1>1, SampleStep
  <2>6. Flags'
    BY <1>1, <1>a, SampleStep DEF Flags
  <2>7. Clocks'
    BY <1>a, <2>1 DEF Clocks, Limit
  <2>8. UnseenInv'
    BY <1>a, <2>1, <2>4, <2>5 DEF Clocks, Limit, Inv, UnseenInv, AtMost
  <2>9. SpacedInv'
    BY <1>a, <2>1, <2>2 DEF Clocks, Limit, Inv, SpacedInv, AtLeast
  <2>10. ConfirmInv'
    BY <1>a, <2>1, <2>3 DEF Clocks, ConfirmInv
  <2> QED
    BY <2>6, <2>7, <2>8, <2>9, <2>10 DEF Inv, TypeOK, Flags, Clocks
<1>2. CASE SampleAgain
  <2>1. pc = "confirm" /\ waited >= Confirm /\ waited' = 0 /\ held' = held /\ gap' = gap
    BY <1>2, SampleAgainStep
  <2>2. \/ pc' = "fire" /\ sinceEvent' = 0
        \/ pc' = "listen" /\ sinceEvent' = sinceEvent
    BY <1>2, SampleAgainStep
  <2>3. failed' \/ ~closed' \/ seen'
    BY <1>2, SampleAgainStep
  <2>4. Flags'
    BY <1>2, <1>a, SampleAgainStep DEF Flags
  <2>5. Clocks'
    BY <1>a, <2>1, <2>2 DEF Clocks, Limit, Longest, Unseen, Period
  <2>6. UnseenInv'
    BY <2>3 DEF UnseenInv
  <2>7. SpacedInv'
    BY <1>a, <2>1, <2>2 DEF Clocks, Limit, Inv, SpacedInv, AtLeast
  <2>8. ConfirmInv'
    BY <2>2 DEF ConfirmInv
  <2> QED
    BY <2>4, <2>5, <2>6, <2>7, <2>8 DEF Inv, TypeOK, Flags, Clocks
<1>3. CASE Fired
  <2>1. Flags'
    BY <1>3, <1>a DEF Fired, SleepDead, Flags
  <2>2. Clocks'
    BY <1>3, <1>a DEF Fired, SleepDead, Clocks, Limit
  <2>3. UnseenInv'
    BY <1>3, <1>a DEF Fired, SleepDead, Flags, Clocks, Inv, UnseenInv, AtMost, Limit
  <2>4. SpacedInv'
    BY <1>3, <1>a DEF Fired, SleepDead, Flags, Clocks, Inv, SpacedInv, AtLeast, Limit
  <2>5. ConfirmInv'
    BY <1>3, <1>a DEF Fired, SleepDead, Flags, Clocks, Inv, ConfirmInv, Limit
  <2> QED
    BY <2>1, <2>2, <2>3, <2>4, <2>5 DEF Inv, TypeOK, Flags, Clocks
<1>4. CASE DeadTimeOver
  <2>1. Flags'
    BY <1>4, <1>a DEF DeadTimeOver, Rearm, Flags
  <2>2. Clocks'
    BY <1>4, <1>a DEF DeadTimeOver, Rearm, Clocks, Limit
  <2>3. UnseenInv'
    BY <1>4, <1>a DEF DeadTimeOver, Rearm, Flags, Clocks, Inv, UnseenInv, AtMost, Limit
  <2>4. SpacedInv'
    BY <1>4, <1>a DEF DeadTimeOver, Rearm, Flags, Clocks, Inv, SpacedInv, AtLeast, Limit
  <2>5. ConfirmInv'
    BY <1>4, <1>a DEF DeadTimeOver, Rearm, Flags, Clocks, Inv, ConfirmInv, Limit
  <2> QED
    BY <2>1, <2>2, <2>3, <2>4, <2>5 DEF Inv, TypeOK, Flags, Clocks
<1>5. CASE Close
  <2>1. Flags'
    BY <1>5, <1>a DEF Close, Flags
  <2>2. Clocks'
    BY <1>5, <1>a DEF Close, Clocks, Limit, Longest, Unseen, Period
  <2>3. UnseenInv'
    BY <1>5, <1>a DEF Close, Flags, Clocks, Inv, UnseenInv, AtMost, Limit
  <2>4. SpacedInv'
    BY <1>5, <1>a DEF Close, Flags, Clocks, Inv, SpacedInv, AtLeast, Limit
  <2>5. ConfirmInv'
    BY <1>5, <1>a DEF Close, Flags, Clocks, Inv, ConfirmInv, Limit
  <2> QED
    BY <2>1, <2>2, <2>3, <2>4, <2>5 DEF Inv, TypeOK, Flags, Clocks
<1>6. CASE Open
  <2>1. Flags'
    BY <1>6, <1>a DEF Open, Flags
  <2>2. Clocks'
    BY <1>6, <1>a DEF Open, Clocks, Limit, Longest, Unseen, Period
  <2>3. UnseenInv'
    BY <1>6, <1>a DEF Open, Flags, Clocks, Inv, UnseenInv, AtMost, Limit
  <2>4. SpacedInv'
    BY <1>6, <1>a DEF Open, Flags, Clocks, Inv, SpacedInv, AtLeast, Limit
  <2>5. ConfirmInv'
    BY <1>6, <1>a DEF Open, Flags, Clocks, Inv, ConfirmInv, Limit
  <2> QED
    BY <2>1, <2>2, <2>3, <2>4, <2>5 DEF Inv, TypeOK, Flags, Clocks
<1>7. CASE Tick
  <2>1. Flags'
    BY <1>7, <1>a DEF Tick, Flags
  <2>2. Clocks'
    BY <1>7, <1>a, LaterClock DEF Tick, Clocks, Limit, Longest, Unseen, Period
  <2>3. UnseenInv'
    BY <1>7, <1>a, LaterClock DEF Tick, Flags, Clocks, Inv, UnseenInv, AtMost, Limit
  <2>4. SpacedInv'
    BY <1>7, <1>a, LaterClock DEF Tick, Clocks, Inv, SpacedInv, AtLeast, Limit, Longest,
        Unseen, Period
  <2>5. ConfirmInv'
    BY <1>7, <1>a, LaterClock
    DEF Tick, Flags, Clocks, Inv, ConfirmInv, Limit, Longest, Unseen, Period
  <2> QED
    BY <2>1, <2>2, <2>3, <2>4, <2>5 DEF Inv, TypeOK, Flags, Clocks
<1>8. CASE UNCHANGED vars
  <2>1. Flags'
    BY <1>8, <1>a DEF vars, Flags
  <2>2. Clocks'
    BY <1>8, <1>a DEF vars, Clocks, Limit
  <2>3. UnseenInv'
    BY <1>8, <1>a DEF vars, Flags, Clocks, Inv, UnseenInv, AtMost, Limit
  <2>4. SpacedInv'
    BY <1>8, <1>a DEF vars, Flags, Clocks, Inv, SpacedInv, AtLeast, Limit
  <2>5. ConfirmInv'
    BY <1>8, <1>a DEF vars, Flags, Clocks, Inv, ConfirmInv, Limit
  <2> QED
    BY <2>1, <2>2, <2>3, <2>4, <2>5 DEF Inv, TypeOK, Flags, Clocks
<1> QED
    BY <1>1, <1>2, <1>3, <1>4, <1>5, <1>6, <1>7, <1>8 DEF Next

LEMMA InvAlways == Spec => []Inv
    BY InitInv, StepInv, PTL DEF Spec

\* The goroutine is always at one of its four places, within the time it may stay.
THEOREM TypeCorrect == Spec => []TypeOK
<1>1. Inv => TypeOK
    BY DEF Inv
<1> QED
    BY <1>1, InvAlways, PTL

\* No press longer than Unseen is lost.
THEOREM PressesAreSeen == Spec => []PressIsSeen
<1>1. Inv => PressIsSeen
    BY IntervalsAssumption
    DEF Inv, TypeOK, UnseenInv, PressIsSeen, AtMost, Limit, Unseen, Period
<1> QED
    BY <1>1, InvAlways, PTL

\* The one step that fires an event, with what the goroutine has made sure of.
LEMMA FiringStep ==
    ASSUME Inv, [Next]_vars, FiresEvent
    PROVE  pc = "confirm" /\ Confirmed /\ closed
<1>1. SampleAgain
    BY DEF FiresEvent, Next, vars, Sample, Fired, DeadTimeOver, Close, Open, Tick, Rearm,
           SleepDead, Await
<1> QED
    BY <1>1, SampleAgainStep DEF FiresEvent, Confirmed

\* Events keep a distance of Period, whoever plays with the contact.
THEOREM Spaced == Spec => EventsSpaced
<1>1. Inv /\ [Next]_vars => [FiresEvent => sinceEvent >= Period]_vars
    BY FiringStep, IntervalsAssumption
    DEF Inv, TypeOK, SpacedInv, AtLeast, Confirmed, Period, Limit
<1> QED
    BY <1>1, InvAlways, PTL DEF Spec, EventsSpaced

\* A lone closing shorter than the confirmation fires nothing.
THEOREM NoGhosts == Spec => NoGhostPress
<1>1. Inv /\ [Next]_vars => [FiresEvent => held >= Confirm \/ held + gap =< Confirm + Late]_vars
    BY FiringStep, IntervalsAssumption
    DEF Inv, TypeOK, ConfirmInv, Confirmed, Limit
<1> QED
    BY <1>1, InvAlways, PTL DEF Spec, NoGhostPress

=============================================================================

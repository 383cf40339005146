---------------------------- MODULE ScheduleProofs ----------------------------
(***************************************************************************)
(* The schedule for a day of any length, any quiet hours and any waits:    *)
(* what NextAllowedTime computes, and the invariants of the steps.         *)
(***************************************************************************)
EXTENDS Schedule, TLAPS

USE ScheduleConstants

Waits == [days : Nat, minutes : Minutes]

\* An instant plus a wait is an instant, no earlier than the first.
LEMMA AfterIsLater ==
    ASSUME NEW t \in Instant, NEW wait \in Waits
    PROVE  After(t, wait) \in Instant /\ AtOrBefore(t, After(t, wait))
BY DEF Instant, Minutes, Waits, After, AtOrBefore

LEMMA OrderIsTransitive ==
    ASSUME NEW t \in Instant, NEW u \in Instant, NEW v \in Instant,
           AtOrBefore(t, u), AtOrBefore(u, v)
    PROVE  AtOrBefore(t, v)
BY DEF Instant, Minutes, AtOrBefore

-----------------------------------------------------------------------------
(* NextAllowedTime *)

\* The two comparisons of NextAllowedTime are the window as the clock runs through it,
\* also past midnight and when it ends where it starts.
THEOREM QuietHoursAreDisturbed ==
    ASSUME NEW q \in Hours, NEW m \in Minutes
    PROVE  InQuietHours(q, m) <=> m \in Disturbed(q)
<1> DEFINE k == IF q.start <= m THEN m - q.start ELSE m - q.start + DayLength
<1>1. k \in 0..DayLength - 1 /\ (m = q.start + k \/ m = q.start + k - DayLength)
  BY DEF Hours, Minutes
<1>2. InQuietHours(q, m) => k < Passed(q)
  BY DEF Hours, Minutes, InQuietHours, Passed
<1>3. ASSUME NEW n \in 0..DayLength - 1, n < Passed(q), m = q.start + n \/ m = q.start + n - DayLength
      PROVE  InQuietHours(q, m)
  BY <1>3 DEF Hours, Minutes, InQuietHours, Passed
<1>4. QED BY <1>1, <1>2, <1>3 DEF Disturbed

\* The result is an instant outside the quiet hours, unless they are the whole day, and
\* lies at most a day after the candidate.
THEOREM NextAllowedIsAllowed ==
    ASSUME NEW q \in Hours, NEW t \in Instant
    PROVE  /\ NextAllowedTime(q, t) \in Instant
           /\ AtOrBefore(t, NextAllowedTime(q, t))
           /\ AtOrBefore(NextAllowedTime(q, t), [t EXCEPT !.day = @ + 1])
           /\ q.start # q.end => ~InQuietHours(q, NextAllowedTime(q, t).minute)
BY DEF Hours, Instant, Minutes, NextAllowedTime, EndOfQuiet, InQuietHours, AtOrBefore

\* No allowed minute is passed over: whatever lies between is in the quiet hours.
THEOREM NextAllowedIsFirst ==
    ASSUME NEW q \in Hours, NEW t \in Instant, NEW u \in Instant,
           AtOrBefore(t, u), ~AtOrBefore(NextAllowedTime(q, t), u)
    PROVE  InQuietHours(q, u.minute)
BY DEF Hours, Instant, Minutes, NextAllowedTime, EndOfQuiet, InQuietHours, AtOrBefore

\* An earlier candidate is not allowed later.
THEOREM NextAllowedIsMonotone ==
    ASSUME NEW q \in Hours, NEW t \in Instant, NEW u \in Instant, AtOrBefore(t, u)
    PROVE  AtOrBefore(NextAllowedTime(q, t), NextAllowedTime(q, u))
BY DEF Hours, Instant, Minutes, NextAllowedTime, EndOfQuiet, InQuietHours, AtOrBefore

-----------------------------------------------------------------------------
(* The invariants.  Placed: the time of a step is its planned one until it is tried,  *)
(* and no earlier ever after; it is what the simulation told.                         *)

Placed ==
    \A s \in Sends :
        /\ send[s].state # "none" => AtOrBefore(Planned(s, trigger), send[s].at)
        /\ send[s].state = "waiting" /\ s \notin tried => send[s].at = Planned(s, trigger)
        /\ plan[s].told => plan[s].at = Planned(s, trigger)

IInv == ScheduleTypeOK /\ Placed /\ SentOutsideQuietHours

LEMMA PlannedIsInstant ==
    ASSUME quiet \in Hours, NEW t \in Instant, NEW s \in Sends
    PROVE  Planned(s, t) \in Instant
<1>1. WaitOf[s] \in Waits
  BY DEF Waits, Minutes
<1>2. QED BY <1>1, AfterIsLater, NextAllowedIsAllowed DEF Planned

LEMMA InitEstablishes == ScheduleInit => IInv
BY DEF ScheduleInit, IInv, ScheduleTypeOK, Placed, SentOutsideQuietHours, Instant, Hours, Minutes, Unknown

LEMMA TypeStep ==
    ASSUME ScheduleTypeOK, [ScheduleNext]_scheduleVars
    PROVE  ScheduleTypeOK'
<1> USE DEF ScheduleTypeOK
<1>1. CASE SimulateWorkflow
  BY <1>1, PlannedIsInstant DEF SimulateWorkflow
<1>2. ASSUME NEW s \in Sends, ScheduleStep(s)
      PROVE  ScheduleTypeOK'
  <2>1. Planned(s, trigger) \in Instant
    BY PlannedIsInstant
  <2>2. QED BY <1>2, <2>1 DEF ScheduleStep
<1>3. ASSUME NEW s \in Sends, Defer(s)
      PROVE  ScheduleTypeOK'
  <2>1. NextAllowedTime(quiet, clock) \in Instant
    BY NextAllowedIsAllowed
  <2>2. QED BY <1>3, <2>1 DEF Defer
<1>4. ASSUME NEW s \in Sends, AttemptFails(s)
      PROVE  ScheduleTypeOK'
  <2>1. PICK b \in Backoffs :
            send' = [send EXCEPT ![s].at = After(clock, [days |-> 0, minutes |-> b])]
    BY <1>4 DEF AttemptFails
  <2>2. [days |-> 0, minutes |-> b] \in Waits
    BY DEF Waits, Minutes
  <2>3. After(clock, [days |-> 0, minutes |-> b]) \in Instant
    BY <2>2, AfterIsLater
  <2>4. QED BY <1>4, <2>1, <2>3 DEF AttemptFails
<1>5. ASSUME NEW s \in Sends, SendNow(s)
      PROVE  ScheduleTypeOK'
  BY <1>5 DEF SendNow
<1>6. CASE MinutePasses
  BY <1>6 DEF MinutePasses, After, Instant, Minutes
<1>7. CASE UNCHANGED scheduleVars
  BY <1>7 DEF scheduleVars
<1>8. QED BY <1>1, <1>2, <1>3, <1>4, <1>5, <1>6, <1>7 DEF ScheduleNext

\* A step that is tried moves to a later time, and the planned one does not move.
LEMMA PlacedStep ==
    ASSUME ScheduleTypeOK, Placed, [ScheduleNext]_scheduleVars
    PROVE  Placed'
<1> USE DEF ScheduleTypeOK, Placed
<1>1. \A s \in Sends : Planned(s, trigger) \in Instant
  BY PlannedIsInstant
<1>2. (quiet' = quiet /\ trigger' = trigger) => \A s \in Sends : Planned(s, trigger)' = Planned(s, trigger)
  BY DEF Planned
<1>3. \A s \in Sends : AtOrBefore(Planned(s, trigger), Planned(s, trigger))
  BY <1>1 DEF AtOrBefore, Instant, Minutes
<1>4. CASE SimulateWorkflow
  BY <1>2, <1>4 DEF SimulateWorkflow
<1>5. ASSUME NEW s \in Sends, ScheduleStep(s)
      PROVE  Placed'
  BY <1>2, <1>3, <1>5 DEF ScheduleStep
<1>6. ASSUME NEW s \in Sends, NEW at \in Instant, Claimable(s), AtOrBefore(clock, at)
      PROVE  AtOrBefore(Planned(s, trigger), at)
  <2>1. AtOrBefore(Planned(s, trigger), clock)
    BY <1>1, <1>6, OrderIsTransitive DEF Claimable
  <2>2. QED BY <1>1, <1>6, <2>1, OrderIsTransitive
<1>7. ASSUME NEW s \in Sends, Defer(s)
      PROVE  Placed'
  <2>1. AtOrBefore(Planned(s, trigger), NextAllowedTime(quiet, clock))
    BY <1>6, <1>7, NextAllowedIsAllowed DEF Defer
  <2>2. QED BY <1>2, <1>7, <2>1 DEF Defer
<1>8. ASSUME NEW s \in Sends, AttemptFails(s)
      PROVE  Placed'
  <2>1. PICK b \in Backoffs :
            send' = [send EXCEPT ![s].at = After(clock, [days |-> 0, minutes |-> b])]
    BY <1>8 DEF AttemptFails
  <2>2. [days |-> 0, minutes |-> b] \in Waits
    BY DEF Waits, Minutes
  <2>3. AtOrBefore(Planned(s, trigger), After(clock, [days |-> 0, minutes |-> b]))
    BY <1>6, <1>8, <2>2, AfterIsLater DEF AttemptFails
  <2>4. QED BY <1>2, <1>8, <2>1, <2>3 DEF AttemptFails
<1>9. ASSUME NEW s \in Sends, SendNow(s)
      PROVE  Placed'
  <2>1. AtOrBefore(clock, clock)
    BY DEF AtOrBefore, Instant, Minutes
  <2>2. AtOrBefore(Planned(s, trigger), clock)
    BY <1>6, <1>9, <2>1 DEF SendNow
  <2>3. QED BY <1>2, <1>9, <2>2 DEF SendNow
<1>10. CASE MinutePasses
  BY <1>2, <1>10 DEF MinutePasses
<1>11. CASE UNCHANGED scheduleVars
  BY <1>2, <1>11 DEF scheduleVars
<1>12. QED BY <1>4, <1>5, <1>7, <1>8, <1>9, <1>10, <1>11 DEF ScheduleNext

LEMMA SentStep ==
    ASSUME ScheduleTypeOK, SentOutsideQuietHours, [ScheduleNext]_scheduleVars
    PROVE  SentOutsideQuietHours'
<1> USE DEF ScheduleTypeOK
<1>1. quiet' = quiet /\ Disturbed(quiet)' = Disturbed(quiet)
  BY DEF ScheduleNext, SimulateWorkflow, ScheduleStep, Defer, AttemptFails, SendNow, MinutePasses,
         scheduleVars, Disturbed, Passed
<1>2. ASSUME NEW s \in Sends, send'[s].state = "sent", ~SendNow(s)
      PROVE  send'[s] = send[s]
  <2>1. ASSUME NEW u \in Sends, ScheduleStep(u)
        PROVE  send'[s] = send[s]
    BY <1>2, <2>1 DEF ScheduleStep
  <2>2. ASSUME NEW u \in Sends, Defer(u)
        PROVE  send'[s] = send[s]
    BY <1>2, <2>2 DEF Defer, Claimable
  <2>3. ASSUME NEW u \in Sends, AttemptFails(u)
        PROVE  send'[s] = send[s]
    BY <1>2, <2>3 DEF AttemptFails, Claimable
  <2>4. ASSUME NEW u \in Sends, SendNow(u)
        PROVE  send'[s] = send[s]
    <3>1. u # s
      BY <1>2, <2>4
    <3>2. QED BY <2>4, <3>1 DEF SendNow
  <2>5. CASE SimulateWorkflow \/ MinutePasses \/ UNCHANGED scheduleVars
    BY <2>5 DEF SimulateWorkflow, MinutePasses, scheduleVars
  <2>6. QED BY <2>1, <2>2, <2>3, <2>4, <2>5 DEF ScheduleNext
<1>3. \A s \in Sends : SendNow(s) => send'[s].at.minute \notin Disturbed(quiet)
  BY QuietHoursAreDisturbed DEF SendNow, Instant
<1>4. QED BY <1>1, <1>2, <1>3 DEF SentOutsideQuietHours

THEOREM ScheduleInvariant == ScheduleSpec => []IInv
<1>1. IInv /\ [ScheduleNext]_scheduleVars => IInv'
  BY TypeStep, PlacedStep, SentStep DEF IInv
<1>2. QED BY <1>1, InitEstablishes, PTL DEF ScheduleSpec

-----------------------------------------------------------------------------
(* The properties *)

\* Type correctness.
THEOREM ScheduleTypeCorrect == ScheduleSpec => []ScheduleTypeOK
BY ScheduleInvariant, PTL DEF IInv

\* The sender sends nothing in the quiet hours.
THEOREM NothingSentInQuietHours == ScheduleSpec => []SentOutsideQuietHours
BY ScheduleInvariant, PTL DEF IInv

\* A step is due when it may be sent, no earlier and no later than it must.
THEOREM DueOnTime == ScheduleSpec => []DueWhenAllowed
<1>1. IInv => DueWhenAllowed
  <2> SUFFICES ASSUME IInv, NEW s \in Sends, send[s].state = "waiting", s \notin tried
               PROVE  LET candidate == After(trigger, WaitOf[s]) IN
                      /\ quiet.start # quiet.end => send[s].at.minute \notin Disturbed(quiet)
                      /\ candidate.minute \notin Disturbed(quiet) => send[s].at = candidate
                      /\ AtOrBefore(candidate, send[s].at)
                      /\ AtOrBefore(send[s].at, [candidate EXCEPT !.day = @ + 1])
    BY DEF DueWhenAllowed
  <2> DEFINE candidate == After(trigger, WaitOf[s])
  <2>1. quiet \in Hours /\ trigger \in Instant /\ send[s].at = NextAllowedTime(quiet, candidate)
    BY DEF IInv, ScheduleTypeOK, Placed, Planned
  <2>2. WaitOf[s] \in Waits
    BY DEF Waits, Minutes
  <2>3. candidate \in Instant
    BY <2>1, <2>2, AfterIsLater
  <2>4. candidate.minute \in Minutes /\ NextAllowedTime(quiet, candidate).minute \in Minutes
    BY <2>1, <2>3, NextAllowedIsAllowed DEF Instant
  <2>5. QED BY <2>1, <2>3, <2>4, NextAllowedIsAllowed, QuietHoursAreDisturbed DEF NextAllowedTime
<1>2. QED BY <1>1, ScheduleInvariant, PTL

\* The simulated times are lower bounds of the real ones.
THEOREM SimulationIsALowerBound == ScheduleSpec => []NeverBeforeSimulated
<1>1. IInv => NeverBeforeSimulated
  BY DEF IInv, Placed, NeverBeforeSimulated
<1>2. QED BY <1>1, ScheduleInvariant, PTL

\* Steps are due in the order of their waits.
THEOREM OrderOfSteps == ScheduleSpec => []StepsKeepTheirOrder
<1>1. IInv => StepsKeepTheirOrder
  <2> SUFFICES ASSUME IInv, NEW s \in Sends, NEW u \in Sends,
                      send[s].state = "waiting", s \notin tried,
                      send[u].state = "waiting", u \notin tried,
                      AtOrBefore(After(trigger, WaitOf[s]), After(trigger, WaitOf[u]))
               PROVE  AtOrBefore(send[s].at, send[u].at)
    BY DEF StepsKeepTheirOrder
  <2>1. quiet \in Hours /\ trigger \in Instant
    BY DEF IInv, ScheduleTypeOK
  <2>2. WaitOf[s] \in Waits /\ WaitOf[u] \in Waits
    BY DEF Waits, Minutes
  <2>3. After(trigger, WaitOf[s]) \in Instant /\ After(trigger, WaitOf[u]) \in Instant
    BY <2>1, <2>2, AfterIsLater
  <2>4. send[s].at = Planned(s, trigger) /\ send[u].at = Planned(u, trigger)
    BY DEF IInv, Placed
  <2>5. QED BY <2>1, <2>3, <2>4, NextAllowedIsMonotone DEF Planned
<1>2. QED BY <1>1, ScheduleInvariant, PTL

=============================================================================

------------------------------- MODULE Schedule -------------------------------
(***************************************************************************)
(* When the steps of a workflow run are sent: the wait of each step, the   *)
(* quiet hours of the definition (NextAllowedTime), what simulateWorkflow  *)
(* tells the operator beforehand, and the sender that looks at the clock   *)
(* once more before it sends.                                              *)
(*                                                                         *)
(* An instant is a day and a minute of it in the definition's time zone,   *)
(* which is taken to have no daylight saving.  The last second of the      *)
(* quiet hours, in which the sender already sends, is not told apart.      *)
(***************************************************************************)
EXTENDS Integers

CONSTANTS
    DayLength,      \* minutes in a day
    Sends,          \* the steps of the definition
    WaitOf,         \* steps.wait, in days and minutes
    Backoffs,       \* minutes after which a failed attempt is repeated
    MaxDay          \* bound on the clock

ASSUME ScheduleConstants ==
    /\ DayLength \in Nat \ {0}
    /\ WaitOf \in [Sends -> [days : Nat, minutes : 0..DayLength - 1]]
    /\ Backoffs \subseteq 0..DayLength - 1
    /\ MaxDay \in Nat

VARIABLES
    clock,
    quiet,          \* quiet_hours: minutes of the day
    trigger,        \* when the order was delivered, or the stock replenished
    send,           \* scheduled_jobs by step: its state and available_at, then the time sent
    tried,          \* steps that were attempted before they were sent
    plan            \* the last answer of simulateWorkflow

scheduleVars == <<clock, quiet, trigger, send, tried, plan>>

Minutes == 0..DayLength - 1
Instant == [day : Nat, minute : Minutes]
Hours   == [start : Minutes, end : Minutes]
Unknown == [day |-> 0, minute |-> 0]

AtOrBefore(t, u) == t.day < u.day \/ (t.day = u.day /\ t.minute <= u.minute)

After(t, wait) ==
    IF t.minute + wait.minutes < DayLength
    THEN [day |-> t.day + wait.days,     minute |-> t.minute + wait.minutes]
    ELSE [day |-> t.day + wait.days + 1, minute |-> t.minute + wait.minutes - DayLength]

ScheduleTypeOK ==
    /\ clock \in Instant
    /\ quiet \in Hours
    /\ trigger \in Instant
    /\ send \in [Sends -> [state : {"none", "waiting", "sent"}, at : Instant]]
    /\ tried \subseteq Sends
    /\ plan \in [Sends -> [told : BOOLEAN, at : Instant]]

ScheduleInit ==
    /\ clock = Unknown
    /\ quiet \in Hours
    /\ trigger \in {[day |-> 0, minute |-> m] : m \in Minutes}
    /\ send = [s \in Sends |-> [state |-> "none", at |-> Unknown]]
    /\ tried = {}
    /\ plan = [s \in Sends |-> [told |-> FALSE, at |-> Unknown]]

-----------------------------------------------------------------------------
(* NextAllowedTime *)

\* Mutants of InQuietHours: either end of the window is off by one.
QuietAfterStart(q, m) == IF q.start < q.end THEN q.start < m /\ m < q.end
                                            ELSE q.start < m \/ m < q.end

QuietThroughEnd(q, m) == IF q.start < q.end THEN q.start <= m /\ m <= q.end
                                            ELSE q.start <= m \/ m <= q.end

\* A window whose start is not before its end goes past midnight; Validate accepts one
\* that ends where it starts, too.
InQuietHours(q, m) == IF q.start < q.end THEN q.start <= m /\ m < q.end
                                         ELSE q.start <= m \/ m < q.end

\* Mutant of EndOfQuiet: always on the next day.
EndTomorrow(q, t) == [day |-> t.day + 1, minute |-> q.end]

EndOfQuiet(q, t) == [day |-> IF t.minute < q.end THEN t.day ELSE t.day + 1, minute |-> q.end]

NextAllowedTime(q, t) == IF InQuietHours(q, t.minute) THEN EndOfQuiet(q, t) ELSE t

-----------------------------------------------------------------------------
(* Actions *)

Planned(s, t) == NextAllowedTime(quiet, After(t, WaitOf[s]))

\* Mutant of SimulateWorkflow: from the present on.
SimulateFromNow ==
    /\ plan' = [s \in Sends |-> [told |-> TRUE, at |-> Planned(s, clock)]]
    /\ UNCHANGED <<clock, quiet, trigger, send, tried>>

\* The operator asks for the trigger's time, before or after it.
SimulateWorkflow ==
    /\ plan' = [s \in Sends |-> [told |-> TRUE, at |-> Planned(s, trigger)]]
    /\ UNCHANGED <<clock, quiet, trigger, send, tried>>

\* The loops over the steps in startDeliveredWorkflows and startInventoryWorkflows,
\* some time after the trigger; that they may break off is the subject of Orders.
ScheduleStep(s) ==
    /\ AtOrBefore(trigger, clock)
    /\ send[s].state = "none"
    /\ send' = [send EXCEPT ![s] = [state |-> "waiting", at |-> Planned(s, trigger)]]
    /\ UNCHANGED <<clock, quiet, trigger, tried, plan>>

Claimable(s) == send[s].state = "waiting" /\ AtOrBefore(send[s].at, clock)

\* The sender finds the quiet hours begun and calls DeferJob.
Defer(s) ==
    /\ Claimable(s)
    /\ InQuietHours(quiet, clock.minute)
    /\ send' = [send EXCEPT ![s].at = NextAllowedTime(quiet, clock)]
    /\ tried' = tried \cup {s}
    /\ UNCHANGED <<clock, quiet, trigger, plan>>

\* FailJob: the attempt is repeated after a while.
AttemptFails(s) ==
    /\ Claimable(s)
    /\ \E b \in Backoffs :
        send' = [send EXCEPT ![s].at = After(clock, [days |-> 0, minutes |-> b])]
    /\ tried' = tried \cup {s}
    /\ UNCHANGED <<clock, quiet, trigger, plan>>

SendNow(s) ==
    /\ Claimable(s)
    /\ ~InQuietHours(quiet, clock.minute)
    /\ send' = [send EXCEPT ![s] = [state |-> "sent", at |-> clock]]
    /\ UNCHANGED <<clock, quiet, trigger, tried, plan>>

MinutePasses ==
    /\ clock.day < MaxDay
    /\ clock' = After(clock, [days |-> IF DayLength = 1 THEN 1 ELSE 0,
                              minutes |-> IF DayLength = 1 THEN 0 ELSE 1])
    /\ UNCHANGED <<quiet, trigger, send, tried, plan>>

ScheduleNext ==
    \/ SimulateWorkflow
    \/ \E s \in Sends : ScheduleStep(s) \/ Defer(s) \/ AttemptFails(s) \/ SendNow(s)
    \/ MinutePasses

ScheduleSpec == ScheduleInit /\ [][ScheduleNext]_scheduleVars

-----------------------------------------------------------------------------
(* Properties *)

\* The quiet hours as the operator understands them: the minutes passed when the clock
\* runs from the start to the end, round midnight if need be.
Passed(q) == IF q.start < q.end THEN q.end - q.start ELSE q.end - q.start + DayLength
Disturbed(q) ==
    {m \in Minutes : \E k \in 0..DayLength - 1 :
        k < Passed(q) /\ (m = q.start + k \/ m = q.start + k - DayLength)}

\* Nothing is sent in the quiet hours, wherever the wait, a retry or a queue that
\* lags behind puts the attempt.
SentOutsideQuietHours ==
    \A s \in Sends : send[s].state = "sent" => send[s].at.minute \notin Disturbed(quiet)

\* One deferral is enough, and none is made without need or for more than a day: a step
\* that never failed is due after its wait or, if that is in the quiet hours, when
\* they end.  Only quiet hours that end where they start are a whole day, for ever.
DueWhenAllowed ==
    \A s \in Sends :
        LET candidate == After(trigger, WaitOf[s]) IN
        send[s].state = "waiting" /\ s \notin tried =>
            /\ quiet.start # quiet.end => send[s].at.minute \notin Disturbed(quiet)
            /\ candidate.minute \notin Disturbed(quiet) => send[s].at = candidate
            /\ AtOrBefore(candidate, send[s].at)
            /\ AtOrBefore(send[s].at, [candidate EXCEPT !.day = @ + 1])

\* README.md:320: the simulation gives the times at which the sender can send at the
\* earliest.
NeverBeforeSimulated ==
    \A s \in Sends : send[s].state = "sent" /\ plan[s].told => AtOrBefore(plan[s].at, send[s].at)

\* The quiet hours do not make a step overtake one with a shorter wait; retries may.
StepsKeepTheirOrder ==
    \A s, u \in Sends :
        /\ send[s].state = "waiting" /\ s \notin tried
        /\ send[u].state = "waiting" /\ u \notin tried
        /\ AtOrBefore(After(trigger, WaitOf[s]), After(trigger, WaitOf[u]))
        => AtOrBefore(send[s].at, send[u].at)

=============================================================================

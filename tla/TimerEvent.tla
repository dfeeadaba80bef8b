----------------------------- MODULE TimerEvent -----------------------------
(***************************************************************************)
(* One timer of timerd (class CTimerEvent and its subclasses in            *)
(* timermanager.h / timermanager.cpp) and what one iteration of the timer  *)
(* thread does to it.  Times are integers; a time of 0 means "none".       *)
(*                                                                         *)
(* The payload of a timer (channel, EPG id, message, plugin name) is one   *)
(* value, its "info", which only tells timers apart.  The types are        *)
(* reduced to those that timerd treats differently: RECORD has a stopEvent *)
(* of its own, RECORD and ZAPTO have audio pids, OTHER has neither.  The   *)
(* calendar repetitions (daily .. monthly, weekdays) are reduced to DAILY, *)
(* a period of Day time units.  The calendar loop cannot advance the other *)
(* values: WEEKDAYS, the one with no day set, which timerd takes for ONCE, *)
(* and those it keeps, for which BYEVENTDESCRIPTION stands: that value     *)
(* ("todo !!"), the unknown ones, and weekdays whose bits name no day.     *)
(***************************************************************************)
EXTENDS Integers

CONSTANT Day

ASSUME DayAssumption == Day \in Nat \ {0}

Types   == {"RECORD", "ZAPTO", "OTHER"}
Repeats == {"ONCE", "DAILY", "WEEKDAYS", "BYEVENTDESCRIPTION"}
States  == {"SCHEDULED", "PREANNOUNCE", "ISRUNNING", "HASFINISHED", "TERMINATED"}

\* The set of all timers whose payloads are taken from infos.
Event(infos) ==
    [info : infos, type : Types, state : States, repeat : Repeats, count : Nat,
     apids : BOOLEAN, announce : Int, alarm : Int, stop : Int]

-----------------------------------------------------------------------------
\* CTimerEvent::Reschedule loops forever on a repetition it cannot advance.
Diverges(e, t) == e.repeat \in {"WEEKDAYS", "BYEVENTDESCRIPTION"} /\ e.alarm <= t

\* What the loop of CTimerEvent::Reschedule adds to the alarm time: the
\* least number of periods that brings it beyond t.
Advance(e, t) == IF e.alarm > t THEN 0 ELSE ((t - e.alarm) \div Day + 1) * Day

\* A time of 0 is "none" and is never moved.
Shifted(time, diff) == IF time > 0 THEN time + diff ELSE time

Reschedule(e, t) ==
    IF e.repeat = "ONCE"
    THEN [e EXCEPT !.state = "TERMINATED"]
    ELSE [e EXCEPT !.announce = Shifted(@, Advance(e, t)),
                   !.alarm    = @ + Advance(e, t),
                   !.stop     = Shifted(@, Advance(e, t)),
                   !.state    = "SCHEDULED",
                   !.count    = IF @ > 0 THEN @ - 1 ELSE @]

-----------------------------------------------------------------------------
\* The tests and the state changes of one iteration of the timer thread's
\* loop, in the order the loop makes them; t is the time the pass began.
MustAnnounce(e, t) == e.announce > 0 /\ e.state = "SCHEDULED" /\ e.announce <= t

Announced(e, t) ==
    IF MustAnnounce(e, t) THEN [e EXCEPT !.state = "PREANNOUNCE"] ELSE e

\* Mutant: an announced timer is no longer looked at.
MustFireUnannounced(e, t) == e.alarm > 0 /\ e.state = "SCHEDULED" /\ e.alarm <= t

MustFire(e, t) ==
    e.alarm > 0 /\ e.state \in {"SCHEDULED", "PREANNOUNCE"} /\ e.alarm <= t

\* Mutant: the test for "needs no stop event" is the wrong way round.
FiredFinished(e, t) ==
    IF MustFire(e, t)
    THEN [e EXCEPT !.state = IF e.stop > 0 THEN "HASFINISHED" ELSE "ISRUNNING"]
    ELSE e

Fired(e, t) ==
    IF MustFire(e, t)
    THEN [e EXCEPT !.state = IF e.stop = 0 THEN "HASFINISHED" ELSE "ISRUNNING"]
    ELSE e

MustStop(e, t) == e.stop > 0 /\ e.state = "ISRUNNING" /\ e.stop <= t

Stopped(e, t) == IF MustStop(e, t) THEN [e EXCEPT !.state = "HASFINISHED"] ELSE e

\* Mutant: the last repetition is the one numbered 0.
MustRescheduleOnceMore(e) == e.state = "HASFINISHED" /\ e.repeat # "ONCE"

\* A finished timer is rescheduled when it repeats and is not in its last
\* repetition, and terminated otherwise.
MustReschedule(e) == e.state = "HASFINISHED" /\ e.repeat # "ONCE" /\ e.count # 1

Settled(e, now) ==
    IF MustReschedule(e) THEN Reschedule(e, now)
    ELSE IF e.state = "HASFINISHED" THEN [e EXCEPT !.state = "TERMINATED"]
    ELSE e

-----------------------------------------------------------------------------
\* Mutant: the reduction is forgotten.
RepetitionAsGiven(r) == r

\* "Weekdays without weekday specified reduce to once": what addEvent and
\* modifyEvent do to the repetition they are given.
Repetition(r) == IF r = "WEEKDAYS" THEN "ONCE" ELSE r

\* The test that loadEventsFromConfig makes of a timer it read from the file,
\* and the state it adds it with: an old periodic timer has to be rescheduled.
StillDue(e, now) == e.alarm >= now \/ e.stop > now

TooOld(e, now) == ~StillDue(e, now) /\ e.repeat = "ONCE"

Restored(e, now) ==
    IF StillDue(e, now) THEN e ELSE [e EXCEPT !.state = "HASFINISHED"]
=============================================================================

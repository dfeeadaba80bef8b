--------------------------- MODULE MCTimerManager ---------------------------
(***************************************************************************)
(* Instances of TimerManager for TLC: the timers clients ask for, the      *)
(* changes they make, and what a behaviour has met.                        *)
(***************************************************************************)
EXTENDS TimerManager

Ask(type, immediate, secure, repeat, count, announce, alarm, stop) ==
    [type |-> type, immediate |-> immediate, safety |-> secure, repeat |-> repeat,
     count |-> count, announce |-> announce, alarm |-> alarm, stop |-> stop]

\* A single recording with safety times, a repeating zap, a repeating recording, a
\* recording the user started by hand, and a recording on weekdays without a weekday.
MCRequest ==
    [i \in Timers |->
        CASE i = "single" -> Ask("RECORD", FALSE, TRUE,  "ONCE",     1, 1, 2, 3)
          [] i = "daily"  -> Ask("ZAPTO",  FALSE, FALSE, "DAILY",    2, 0, 1, 0)
          [] i = "series" -> Ask("RECORD", FALSE, FALSE, "DAILY",    0, 1, 2, 3)
          [] i = "manual" -> Ask("RECORD", TRUE,  FALSE, "ONCE",     1, 0, 0, 2)
          [] i = "nodays" -> Ask("RECORD", FALSE, FALSE, "WEEKDAYS", 0, 0, 1, 2)]

MCChanges ==
    {[repeat |-> "ONCE",  count |-> 1, announce |-> 2, alarm |-> 3, stop |-> 4],
     [repeat |-> "WEEKDAYS", count |-> 0, announce |-> 0, alarm |-> 1, stop |-> 4]}

\* A client may also give a timer the repetition that nothing implements.
MCChangesUndefined ==
    MCChanges \cup
        {[repeat |-> "BYEVENTDESCRIPTION", count |-> 0, announce |-> 0, alarm |-> 1, stop |-> 4]}

MCDiffs == {-1, 1}

\* What clients ask for: only a recording begins at once, a recording has a stop time, a change
\* keeps it one (timerlist.cpp:107-121, :940-943; timers without a stop time, which are modified
\* with 0, own no recording), and the safety times are not negative.
StopTimesGiven ==
    /\ \A i \in Timers : /\ Request[i].immediate => Request[i].type = "RECORD"
                         /\ Request[i].type = "RECORD" => Request[i].stop > 0
    /\ \A c \in Changes : c.stop > 0
    /\ Margins \subseteq Nat
ASSUME StopTimesAssumption == StopTimesGiven

-----------------------------------------------------------------------------
(* Some promises do not survive some faults or commands: a history variable tells which have *)
(* been met, and each promise names the ones it excludes.                                    *)

\* What a behaviour has seen that some of the promises do not survive: a save that was cut
\* off, a power failure, a shutdown before the timers were loaded, a rescheduled timer.
VARIABLE trouble

MaxTrouble == 1 \* bound: the kinds of trouble in one behaviour

Happens(what) ==
    \/ what = "tear" /\ disk' \notin {disk, buf}
    \/ what = "poweroff" /\ boots' # boots /\ pc["server"] # "down" /\ disk' = disk
    \/ what = "early" /\ pc["server"] = "join" /\ pc["timer"] = "wait" /\ pc'["timer"] = "gone"
    \/ what = "reschedule" /\ \E id \in DOMAIN events, d \in Diffs : RescheduleTimer(id, d)

MCInit == Init /\ trouble = {}
MCNext ==
    /\ Next
    /\ trouble' = trouble \cup {what \in {"tear", "poweroff", "early", "reschedule"} : Happens(what)}
    /\ Cardinality(trouble') <= MaxTrouble
MCSpec     == MCInit /\ [][MCNext]_<<vars, trouble>>
MCFairSpec == MCSpec /\ Fairness

\* RecordingIsOwned, unless a file that was cut off has lost stop times, or a client
\* rescheduled a timer, a running one included.
IntactRecordingIsOwned == trouble \cap {"tear", "reschedule"} # {} \/ RecordingIsOwned

\* StartsBounded, unless the power failed, so that timerd has forgotten a start, or a client
\* rescheduled a timer.
UndisturbedStartsBounded == trouble \cap {"poweroff", "tear", "reschedule"} # {} \/ StartsBounded

\* StoredTimersSurvive, unless a save is cut off or a shutdown comes before the file was read.
IntactTimersSurvive ==
    [][\/ trouble' \cap {"tear", "early"} # {}
       \/ \A i \in Stored(disk) \ Stored(disk') : life[i] \in {"removed", "ended"}]_vars
=============================================================================

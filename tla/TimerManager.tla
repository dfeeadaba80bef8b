---------------------------- MODULE TimerManager ----------------------------
(***************************************************************************)
(* timerd: the timer list of class CTimerManager (timermanager.cpp), the   *)
(* timer thread that announces, starts, stops and deletes timers and saves *)
(* them to timerd.conf, and the server thread (timerd.cpp) that handles    *)
(* one client command at a time.  The two threads share the list under     *)
(* tm_eventsMutex; some members are read and written without it.           *)
(*                                                                         *)
(* A step is what a thread does between two points where the other thread, *)
(* a reader of the file or a power failure could tell the difference.      *)
(***************************************************************************)
EXTENDS TimerEvent, FiniteSets

CONSTANTS
    Timers,     \* the payloads of the timers clients may ask for
    Request,    \* what a client asks for: [Timers -> RequestType]
    Changes,    \* the new times and repetitions a MODIFYTIMER may carry
    Diffs,      \* the time differences a RESCHEDULETIMER may carry
    Margins,    \* the recording safety times a SETRECSAFETY may carry
    Cmds,       \* the commands clients use
    Faults,     \* what may go wrong: "poweroff", and "tear" a file being written
    MaxTime,    \* bound: the clock stops here
    MaxCmds,    \* bound: commands handled
    MaxBoots    \* bound: restarts after a shutdown or a power failure

RequestType == [type : Types, immediate : BOOLEAN, safety : BOOLEAN, repeat : Repeats,
                count : Nat, announce : Int, alarm : Int, stop : Int]
ChangeType  == [repeat : Repeats, count : Nat, announce : Int, alarm : Int, stop : Int]

ASSUME ConstantsAssumption ==
    /\ Request \in [Timers -> RequestType]
    /\ Changes \subseteq ChangeType
    /\ Diffs \subseteq Int
    /\ Margins \subseteq Int
    /\ MaxTime \in Nat /\ MaxCmds \in Nat /\ MaxBoots \in Nat

VARIABLES
    now,        \* time(NULL)
    timeset,    \* the flag sectionsd sets when it has seen the broadcast time
    events,     \* CTimerManager::events, a function from ids to timers
    eventID,    \* CTimerManager::eventID, the id given last
    saveEvents, \* CTimerManager::m_saveEvents
    isTimeSet,  \* CTimerManager::m_isTimeSet
    safety,     \* CTimerManager::m_extraTimeStart and m_extraTimeEnd, as one value
    mutex,      \* the owner of tm_eventsMutex
    pc,         \* where each thread is
    loading,    \* the timer thread is inside loadEventsFromConfig
    toLoad,     \* loadEventsFromConfig: the timers of the file not yet looked at
    passNow,    \* timerThread: its local "now"
    cursor,     \* timerThread: its iterator, an id or 0 for the end
    buf,        \* saveEventsToConfig: the CConfigFile it fills
    disk,       \* the file timerd.conf
    recording,  \* history: timers whose RECORD_START clients got and no RECORD_STOP
    starts,     \* history: how often clients got the start of a timer
    life,       \* history: what clients asked and timerd did with a timer
    cmds, boots \* the counters that MaxCmds and MaxBoots bound

lists   == <<events, eventID>>
locals  == <<loading, toLoad, passNow, cursor, buf>>
history == <<recording, starts, life>>
bounds  == <<cmds, boots>>
vars == <<now, timeset, lists, saveEvents, isTimeSet, safety, mutex, pc, locals,
          disk, history, bounds>>

Threads == {"timer", "server"}
TimerPcs  == {"wait", "load", "pass", "check", "test", "collect", "write", "clear",
              "sleep", "hung", "gone"}
ServerPcs == {"idle", "flag", "join", "collect", "write", "clear", "down"}

EmptyList == [i \in {} |-> 0]
NoFile    == [exists |-> FALSE, timers |-> EmptyList, safety |-> 0]

With(f, i, e)  == [j \in DOMAIN f \cup {i} |-> IF j = i THEN e ELSE f[j]]
Without(f, i)  == [j \in DOMAIN f \ {i} |-> f[j]]
At(thread, at) == pc' = [pc EXCEPT ![thread] = at]

\* c is the least id of S after i, or 0 (the end) when there is none.
IsNext(c, i, S) ==
    \/ c \in S /\ c > i /\ \A j \in S : j > i => c <= j
    \/ c = 0 /\ \A j \in S : j <= i

-----------------------------------------------------------------------------
\* The process starts: Init() and loadRecordingSafety().  Without a file the
\* safety times are uninitialised.
Init ==
    /\ now = 0 /\ timeset = FALSE
    /\ events = EmptyList /\ eventID = 0
    /\ saveEvents = FALSE /\ isTimeSet = FALSE
    /\ safety \in Margins
    /\ mutex = "free"
    /\ pc = [t \in Threads |-> IF t = "timer" THEN "wait" ELSE "idle"]
    /\ loading = FALSE /\ toLoad = EmptyList /\ passNow = 0 /\ cursor = 0 /\ buf = NoFile
    /\ disk = NoFile
    /\ recording = {}
    /\ starts = [i \in Timers |-> 0]
    /\ life = [i \in Timers |-> "new"]
    /\ cmds = 0 /\ boots = 0

Restart(d) ==
    /\ boots < MaxBoots /\ boots' = boots + 1
    /\ timeset' = FALSE
    /\ events' = EmptyList /\ eventID' = 0
    /\ saveEvents' = FALSE /\ isTimeSet' = FALSE
    /\ disk' = d
    /\ IF d.exists THEN safety' = d.safety ELSE safety' \in Margins
    /\ mutex' = "free"
    /\ pc' = [t \in Threads |-> IF t = "timer" THEN "wait" ELSE "idle"]
    /\ loading' = FALSE /\ toLoad' = EmptyList /\ passNow' = 0 /\ cursor' = 0 /\ buf' = NoFile
    /\ recording' = {}
    /\ UNCHANGED <<now, starts, life, cmds>>

\* A list of which the repeat counts after the c-th and the stop times after the
\* s-th are missing, and so read as 0.
Truncated(list, c, s) ==
    [i \in DOMAIN list |-> [list[i] EXCEPT !.count = IF i <= c THEN @ ELSE 0,
                                           !.stop  = IF i <= s THEN @ ELSE 0]]

\* saveConfig truncates the file and writes it line by line, the keys in
\* alphabetical order: nothing, then the safety times, then IDS, the repeat
\* counts and the stop times.
Torn(b) ==
    LET written(timers, s) == [exists |-> TRUE, timers |-> timers, safety |-> s]
    IN  {written(EmptyList, 0), written(EmptyList, b.safety)}
          \cup {written(Truncated(b.timers, c, 0), b.safety) : c \in 0..eventID}
          \cup {written(Truncated(b.timers, eventID, s), b.safety) : s \in 0..eventID}

Writing == \E t \in Threads : pc[t] = "write"

PowerFailure ==
    /\ "poweroff" \in Faults
    /\ \E d \in {disk} \cup (IF Writing /\ "tear" \in Faults THEN Torn(buf) ELSE {}) : Restart(d)

ColdStart == pc["server"] = "down" /\ Restart(disk)

-----------------------------------------------------------------------------
Tick ==
    /\ now < MaxTime /\ now' = now + 1
    /\ UNCHANGED <<timeset, lists, saveEvents, isTimeSet, safety, mutex, pc, locals, disk,
                   history, bounds>>

SetTime ==
    /\ ~timeset /\ timeset' = TRUE
    /\ UNCHANGED <<now, lists, saveEvents, isTimeSet, safety, mutex, pc, locals, disk,
                   history, bounds>>

-----------------------------------------------------------------------------
\* The timer thread: loadEventsFromConfig, once the time is known.
TimeIsSet ==
    /\ pc["timer"] = "wait" /\ timeset
    /\ isTimeSet' = TRUE
    /\ loading' = TRUE
    /\ toLoad' = disk.timers
    /\ At("timer", "load")
    /\ UNCHANGED <<now, timeset, lists, saveEvents, safety, mutex, passNow, cursor, buf, disk,
                   history, bounds>>

\* Mutant: the id is used but not counted.
InsertUncounted(e) ==
    /\ events' = With(events, eventID + 1, [e EXCEPT !.repeat = Repetition(@)])
    /\ UNCHANGED eventID

\* addEvent
Insert(e) ==
    /\ eventID' = eventID + 1
    /\ events' = With(events, eventID + 1, [e EXCEPT !.repeat = Repetition(@)])

LoadEvent ==
    /\ pc["timer"] = "load" /\ mutex = "free"
    /\ \E i \in DOMAIN toLoad :
          /\ \A j \in DOMAIN toLoad : i <= j
          /\ toLoad' = Without(toLoad, i)
          /\ \/ /\ TooOld(toLoad[i], now)
                /\ life' = [life EXCEPT ![toLoad[i].info] = IF @ = "removed" THEN @ ELSE "ended"]
                /\ UNCHANGED lists
             \/ /\ ~TooOld(toLoad[i], now)
                /\ Insert(Restored(toLoad[i], now))
                /\ UNCHANGED life
    /\ UNCHANGED <<now, timeset, saveEvents, isTimeSet, safety, mutex, pc, loading, passNow,
                   cursor, buf, disk, recording, starts, bounds>>

\* Mutant: the loop ends with the first timer.
LoadDoneEarly ==
    /\ pc["timer"] = "load" /\ (DOMAIN toLoad = {} \/ eventID > 0)
    /\ At("timer", "collect")
    /\ UNCHANGED <<now, timeset, lists, saveEvents, isTimeSet, safety, mutex, locals, disk,
                   history, bounds>>

LoadDone ==
    /\ pc["timer"] = "load" /\ DOMAIN toLoad = {}
    /\ At("timer", "collect")
    /\ UNCHANGED <<now, timeset, lists, saveEvents, isTimeSet, safety, mutex, locals, disk,
                   history, bounds>>

-----------------------------------------------------------------------------
\* The timer thread: one pass over the list, with the mutex held.
BeginPass ==
    /\ pc["timer"] \in {"pass", "sleep"} /\ mutex = "free"
    /\ mutex' = "timer"
    /\ passNow' = now
    /\ cursor' \in DOMAIN events \cup {0} /\ IsNext(cursor', 0, DOMAIN events)
    /\ At("timer", "check")
    /\ UNCHANGED <<now, timeset, lists, saveEvents, isTimeSet, safety, loading, toLoad, buf,
                   disk, history, bounds>>

\* What clients learn from an iteration that fires and stops as told.
Notify(e, fires, stops) ==
    /\ starts' = [starts EXCEPT ![e.info] = IF fires THEN @ + 1 ELSE @]
    /\ recording' = IF e.type # "RECORD" THEN recording
                    ELSE IF stops THEN recording \ {e.info}
                    ELSE IF fires THEN recording \cup {e.info}
                    ELSE recording

\* m_saveEvents is set in every branch that changes the timer.
NeedsSave(e, result) == result # e \/ result.state = "TERMINATED"

\* After erasing the element it points to, the loop increments the dangling
\* iterator: it goes on anywhere, or ends.
CheckEvent ==
    /\ pc["timer"] = "check" /\ cursor # 0
    /\ LET e      == events[cursor]
           fired  == Fired(Announced(e, passNow), passNow)
           ended  == Stopped(fired, passNow)
           result == Settled(ended, now)
       IN  /\ ~(MustReschedule(ended) /\ Diverges(ended, now))
           /\ Notify(e, MustFire(Announced(e, passNow), passNow), MustStop(fired, passNow))
           /\ saveEvents' = (saveEvents \/ NeedsSave(e, result))
           /\ \/ /\ result.state # "TERMINATED"
                 /\ events' = [events EXCEPT ![cursor] = result]
                 /\ cursor' \in DOMAIN events \cup {0} /\ IsNext(cursor', cursor, DOMAIN events)
                 /\ UNCHANGED life
              \/ /\ result.state = "TERMINATED"
                 /\ events' = Without(events, cursor)
                 /\ cursor' \in (DOMAIN events \ {cursor}) \cup {0}
                 /\ life' = [life EXCEPT ![e.info] = IF @ = "removed" THEN @ ELSE "ended"]
    /\ UNCHANGED <<now, timeset, eventID, isTimeSet, safety, mutex, pc, loading, toLoad, passNow,
                   buf, disk, bounds>>

\* The iteration that reschedules a timer it cannot advance announces, fires
\* and stops it, and never ends; the mutex stays locked.
HangInReschedule ==
    /\ pc["timer"] = "check" /\ cursor # 0
    /\ LET e     == events[cursor]
           fired == Fired(Announced(e, passNow), passNow)
           ended == Stopped(fired, passNow)
       IN  /\ MustReschedule(ended) /\ Diverges(ended, now)
           /\ Notify(e, MustFire(Announced(e, passNow), passNow), MustStop(fired, passNow))
           /\ saveEvents' = (saveEvents \/ ended # e)
           /\ events' = [events EXCEPT ![cursor] = ended]
    /\ At("timer", "hung")
    /\ UNCHANGED <<now, timeset, eventID, isTimeSet, safety, mutex, locals, disk, life, bounds>>

EndPass ==
    /\ pc["timer"] = "check" /\ cursor = 0
    /\ mutex' = "free"
    /\ At("timer", "test")
    /\ UNCHANGED <<now, timeset, lists, saveEvents, isTimeSet, safety, locals, disk, history,
                   bounds>>

\* "save events if requested": the flag is read after the mutex was released.
TestSave ==
    /\ pc["timer"] = "test"
    /\ At("timer", IF saveEvents THEN "collect" ELSE "sleep")
    /\ UNCHANGED <<now, timeset, lists, saveEvents, isTimeSet, safety, mutex, locals, disk,
                   history, bounds>>

-----------------------------------------------------------------------------
\* Mutant: the file is written without the mutex.
CollectUnlocked(self) ==
    /\ pc[self] = "collect" /\ mutex = "free"
    /\ buf' = [exists |-> TRUE, timers |-> events, safety |-> safety]
    /\ At(self, "write")
    /\ UNCHANGED <<now, timeset, lists, saveEvents, isTimeSet, safety, mutex, loading, toLoad,
                   passNow, cursor, disk, history, bounds>>

\* saveEventsToConfig, run by the timer thread or by shutdown(): fill the
\* CConfigFile, write the file, clear the flag.
Collect(self) ==
    /\ pc[self] = "collect" /\ mutex = "free"
    /\ mutex' = self
    /\ buf' = [exists |-> TRUE, timers |-> events, safety |-> safety]
    /\ At(self, "write")
    /\ UNCHANGED <<now, timeset, lists, saveEvents, isTimeSet, safety, loading, toLoad, passNow,
                   cursor, disk, history, bounds>>

WriteFile(self) ==
    /\ pc[self] = "write"
    /\ disk' = buf
    /\ At(self, "clear")
    /\ UNCHANGED <<now, timeset, lists, saveEvents, isTimeSet, safety, mutex, locals, history,
                   bounds>>

ClearFlag(self) ==
    /\ pc[self] = "clear"
    /\ saveEvents' = FALSE
    /\ mutex' = "free"
    /\ At(self, IF self = "server" THEN "down" ELSE IF loading THEN "pass" ELSE "sleep")
    /\ loading' = (loading /\ self # "timer")
    /\ UNCHANGED <<now, timeset, lists, isTimeSet, safety, toLoad, passNow, cursor, buf, disk,
                   history, bounds>>

-----------------------------------------------------------------------------
\* The server thread handles one command at a time.
Command(c) == pc["server"] = "idle" /\ c \in Cmds /\ cmds < MaxCmds /\ cmds' = cmds + 1

\* A command that runs under the mutex changes the list and nothing else.
ListCommand(c) ==
    /\ Command(c) /\ mutex = "free"
    /\ UNCHANGED <<now, timeset, isTimeSet, safety, mutex, pc, locals, disk, starts, boots>>

Requested(i) ==
    LET r == Request[i]
        m == IF r.type = "RECORD" /\ r.safety THEN safety ELSE 0
    IN  [info |-> i, type |-> r.type, apids |-> FALSE,
         state |-> IF r.immediate THEN "ISRUNNING" ELSE "SCHEDULED",
         repeat |-> r.repeat, count |-> r.count,
         announce |-> r.announce - m, alarm |-> r.alarm - m,
         stop |-> IF r.type = "RECORD" THEN r.stop + m ELSE 0]

AddTimer(i) ==
    /\ ListCommand("add")
    /\ life[i] = "new" /\ life' = [life EXCEPT ![i] = "active"]
    /\ Insert(Requested(i))
    /\ saveEvents' = TRUE
    /\ recording' = recording \cup (IF Request[i].immediate THEN {i} ELSE {})

\* Mutant: clients are not told.
StopIfRunningSilently(e) == UNCHANGED recording

\* What removeEvent and stopEvent tell clients first.
StopIfRunning(e) ==
    recording' = IF e.type = "RECORD" /\ e.state = "ISRUNNING" /\ e.stop > 0
                 THEN recording \ {e.info} ELSE recording

\* Mutant: a removed timer is treated as a finished one.
RemoveTimerAsFinished(id) ==
    /\ ListCommand("remove")
    /\ StopIfRunning(events[id])
    /\ events' = [events EXCEPT ![id].state = "HASFINISHED"]
    /\ life' = [life EXCEPT ![events[id].info] = "removed"]
    /\ UNCHANGED <<eventID, saveEvents>>

RemoveTimer(id) ==
    /\ ListCommand("remove")
    /\ StopIfRunning(events[id])
    /\ events' = [events EXCEPT ![id].state = "TERMINATED"]
    /\ life' = [life EXCEPT ![events[id].info] = "removed"]
    /\ UNCHANGED <<eventID, saveEvents>>

StopTimer(id) ==
    /\ ListCommand("stop")
    /\ StopIfRunning(events[id])
    /\ events' = [events EXCEPT ![id].state = "HASFINISHED"]
    /\ UNCHANGED <<eventID, saveEvents, life>>

ModifyTimer(id, c) ==
    /\ ListCommand("modify")
    /\ events' = [events EXCEPT ![id].announce = c.announce, ![id].alarm = c.alarm,
                                ![id].stop = c.stop, ![id].count = c.count,
                                ![id].repeat = Repetition(c.repeat),
                                ![id].state = IF @ = "PREANNOUNCE" THEN "SCHEDULED" ELSE @]
    /\ saveEvents' = TRUE
    /\ UNCHANGED <<eventID, recording, life>>

SetAPid(id) ==
    /\ ListCommand("apids")
    /\ events[id].type \in {"RECORD", "ZAPTO"}
    /\ events' = [events EXCEPT ![id].apids = TRUE]
    /\ saveEvents' = TRUE
    /\ UNCHANGED <<eventID, recording, life>>

RescheduleTimer(id, d) ==
    /\ ListCommand("reschedule")
    /\ events' = [events EXCEPT ![id].announce = Shifted(@, d), ![id].alarm = Shifted(@, d),
                                ![id].stop = Shifted(@, d), ![id].state = "SCHEDULED"]
    /\ saveEvents' = TRUE
    /\ UNCHANGED <<eventID, recording, life>>

\* setRecordingSafety takes no mutex: first the times, then the flag.
SetSafetyTimes(m) ==
    /\ Command("safety")
    /\ safety' = m
    /\ At("server", "flag")
    /\ UNCHANGED <<now, timeset, lists, saveEvents, isTimeSet, mutex, locals, disk, history, boots>>

SetSafetyFlag ==
    /\ pc["server"] = "flag"
    /\ saveEvents' = TRUE
    /\ At("server", "idle")
    /\ UNCHANGED <<now, timeset, lists, isTimeSet, safety, mutex, locals, disk, history, bounds>>

-----------------------------------------------------------------------------
\* CMD_SHUTDOWN: cancel the timer thread and wait for it.  Its passes run with
\* cancellation disabled, so it ends in a wait, or in the write of the save
\* that ends loadEventsFromConfig: it then dies with the mutex locked.
Shutdown ==
    /\ Command("shutdown")
    /\ At("server", "join")
    /\ UNCHANGED <<now, timeset, lists, saveEvents, isTimeSet, safety, mutex, locals, disk,
                   history, boots>>

Join ==
    /\ pc["server"] = "join"
    /\ \/ pc["timer"] \in {"wait", "sleep"} /\ UNCHANGED disk
       \/ /\ "tear" \in Faults
          /\ pc["timer"] = "write" /\ loading /\ disk' \in Torn(buf)
    /\ pc' = [pc EXCEPT !["timer"] = "gone",
                        !["server"] = IF saveEvents THEN "collect" ELSE "down"]
    /\ UNCHANGED <<now, timeset, lists, saveEvents, isTimeSet, safety, mutex, locals, history,
                   bounds>>

-----------------------------------------------------------------------------
Save(self) == Collect(self) \/ WriteFile(self) \/ ClearFlag(self)

TimerThread ==
    \/ TimeIsSet \/ LoadEvent \/ LoadDone
    \/ BeginPass \/ CheckEvent \/ HangInReschedule \/ EndPass \/ TestSave
    \/ Save("timer")

ServerSteps == SetSafetyFlag \/ Join \/ Save("server")

Commands ==
    \/ \E i \in Timers : AddTimer(i)
    \/ \E id \in DOMAIN events :
          \/ RemoveTimer(id) \/ StopTimer(id) \/ SetAPid(id)
          \/ \E c \in Changes : ModifyTimer(id, c)
          \/ \E d \in Diffs : RescheduleTimer(id, d)
    \/ \E m \in Margins : SetSafetyTimes(m)
    \/ Shutdown

Next == TimerThread \/ ServerSteps \/ Commands \/ Tick \/ SetTime \/ PowerFailure \/ ColdStart

Spec == Init /\ [][Next]_vars

\* The scheduler runs both threads, the clock runs, and a broadcast time
\* comes after every start.
Fairness ==
    /\ WF_vars(TimerThread) /\ WF_vars(ServerSteps)
    /\ WF_vars(Tick) /\ WF_vars(SetTime)

FairSpec == Spec /\ Fairness

-----------------------------------------------------------------------------
IsList(f) == DOMAIN f \subseteq Nat /\ f \in [DOMAIN f -> Event(Timers)]
IsFile(f) == f = [exists |-> f.exists, timers |-> f.timers, safety |-> f.safety]
             /\ f.exists \in BOOLEAN /\ IsList(f.timers) /\ f.safety \in Int

\* Every variable has its type.
TypeOK ==
    /\ now \in Nat /\ timeset \in BOOLEAN
    /\ IsList(events) /\ DOMAIN events \subseteq 1..eventID
    /\ eventID \in Nat
    /\ saveEvents \in BOOLEAN /\ isTimeSet \in BOOLEAN /\ safety \in Int
    /\ mutex \in Threads \cup {"free"}
    /\ pc \in [Threads -> TimerPcs \cup ServerPcs]
    /\ pc["timer"] \in TimerPcs /\ pc["server"] \in ServerPcs
    /\ loading \in BOOLEAN /\ passNow \in Nat
    /\ IsList(toLoad)
    /\ cursor \in DOMAIN events \cup {0}
    /\ IsFile(buf) /\ IsFile(disk)
    /\ recording \subseteq Timers
    /\ starts \in [Timers -> Nat]
    /\ life \in [Timers -> {"new", "active", "ended", "removed"}]
    /\ cmds \in Nat /\ boots \in Nat

Loaded == isTimeSet /\ ~loading

Finished == {"HASFINISHED", "TERMINATED"}

\* The flag that asks for a save is never lost for the list: once the timers
\* are loaded, a list that differs from the file in anything but the end of a
\* timer (removeEvent and stopEvent do not set m_saveEvents) has the flag set,
\* however commands, passes and saves interleave.
UnsavedIsFlagged ==
    Loaded /\ ~saveEvents =>
        /\ DOMAIN events = DOMAIN disk.timers
        /\ \A id \in DOMAIN events :
              /\ events[id] = [disk.timers[id] EXCEPT !.state = events[id].state]
              /\ events[id].state \in Finished \/ events[id].state = disk.timers[id].state

\* A recording that clients were told to start, and not to stop, belongs to a
\* timer of the list that is running and has a stop time: some later pass or
\* command will end it.
RecordingIsOwned ==
    \A i \in recording : \E id \in DOMAIN events :
        events[id].info = i /\ events[id].state = "ISRUNNING" /\ events[id].stop > 0

\* A timer starts at most once if it does not repeat, and at most as often as
\* its repeat count says if it does; shutdowns and restarts do not matter.
StartsBounded ==
    \A i \in Timers :
        /\ Repetition(Request[i].repeat) = "ONCE" => starts[i] <= 1
        /\ Request[i].count > 0 => starts[i] <= Request[i].count

\* A timer whose removal timerd acknowledged never starts again.
RemovedNeverStarts ==
    [][\A i \in Timers : life[i] = "removed" => starts'[i] = starts[i]]_vars

Stored(d) == {d.timers[id].info : id \in DOMAIN d.timers}
Listed    == {events[id].info : id \in DOMAIN events}

\* A timer that was stored stays stored until it was removed or is over.
StoredTimersSurvive ==
    [][\A i \in Stored(disk) \ Stored(disk') : life[i] \in {"removed", "ended"}]_vars

Pending(i, alarm) ==
    \E id \in DOMAIN events :
        /\ events[id].info = i /\ events[id].alarm = alarm
        /\ events[id].state \in {"SCHEDULED", "PREANNOUNCE"}

\* The timer thread never leaves the calendar loop; MutexReleased says when.
Hung == pc["timer"] = "hung"

\* A timer that waits for its alarm time does not wait beyond it for ever, unless
\* the timer thread hangs.
DueTimersStart ==
    \A i \in Timers : \A alarm \in 1..MaxTime : Pending(i, alarm) ~> ~Pending(i, alarm) \/ Hung

\* Every recording that clients were told to start they are told to stop, unless
\* the timer thread hangs.
RecordingsEnd == \A i \in Timers : i \in recording ~> i \notin recording \/ Hung

\* A removed timer leaves the list and the file, unless the timer thread hangs.
RemovedIsForgotten ==
    \A i \in Timers :
        life[i] = "removed" ~> (i \notin Listed /\ i \notin Stored(disk)) \/ Hung

\* A timer that is over and repeats in a way the calendar loop cannot advance.
Unschedulable ==
    \E id \in DOMAIN events : /\ events[id].repeat = "BYEVENTDESCRIPTION"
                              /\ MustReschedule(events[id]) /\ Diverges(events[id], now)

\* The timer thread gives the mutex back, unless it comes to a timer that repeats
\* "by event description", which clients may ask for and nothing implements: it
\* then keeps the mutex for ever.  Weekdays without a weekday, which the loop
\* cannot advance either, never reach it.
MutexReleased == mutex = "timer" ~> mutex # "timer" \/ Unschedulable
=============================================================================

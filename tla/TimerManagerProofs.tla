------------------------- MODULE TimerManagerProofs -------------------------
(***************************************************************************)
(* Theorems about TimerManager, for every set of timers, of commands and   *)
(* of faults and for every value of the bounds.                            *)
(***************************************************************************)
EXTENDS TimerManager, TLAPS

-----------------------------------------------------------------------------
(* What the operators on one timer preserve. *)

\* Rescheduling a timer gives a timer.
LEMMA RescheduleType ==
    ASSUME NEW S, NEW e \in Event(S), NEW t \in Int
    PROVE  Reschedule(e, t) \in Event(S) /\ Reschedule(e, t).info = e.info
<1>1. Advance(e, t) \in Int
  BY DayAssumption DEF Advance, Event
<1>2. /\ Shifted(e.announce, Advance(e, t)) \in Int
      /\ Shifted(e.stop, Advance(e, t)) \in Int
      /\ e.alarm + Advance(e, t) \in Int
      /\ (IF e.count > 0 THEN e.count - 1 ELSE e.count) \in Nat
  BY <1>1 DEF Shifted, Event
<1> QED
  BY <1>2 DEF Reschedule, Event, States

\* Each test of an iteration of the timer thread gives a timer.
LEMMA IterationType ==
    ASSUME NEW S, NEW e \in Event(S), NEW t \in Int
    PROVE  /\ Announced(e, t) \in Event(S) /\ Announced(e, t).info = e.info
           /\ Fired(e, t) \in Event(S)     /\ Fired(e, t).info = e.info
           /\ Stopped(e, t) \in Event(S)   /\ Stopped(e, t).info = e.info
           /\ Settled(e, t) \in Event(S)   /\ Settled(e, t).info = e.info
<1>1. Announced(e, t) \in Event(S) /\ Announced(e, t).info = e.info
  BY DEF Announced, Event, States
<1>2. Fired(e, t) \in Event(S) /\ Fired(e, t).info = e.info
  BY DEF Fired, Event, States
<1>3. Stopped(e, t) \in Event(S) /\ Stopped(e, t).info = e.info
  BY DEF Stopped, Event, States
<1>4. Settled(e, t) \in Event(S) /\ Settled(e, t).info = e.info
  <2>1. CASE MustReschedule(e)
    BY <2>1, RescheduleType DEF Settled
  <2>2. CASE ~MustReschedule(e)
    BY <2>2 DEF Settled, Event, States
  <2> QED BY <2>1, <2>2
<1> QED BY <1>1, <1>2, <1>3, <1>4

\* Whatever changes only state, repetition, times, count or audio pids of a
\* timer gives a timer.
LEMMA UpdateType ==
    ASSUME NEW S, NEW e \in Event(S)
    PROVE  /\ \A s \in States : [e EXCEPT !.state = s] \in Event(S)
           /\ \A r \in Repeats : [e EXCEPT !.repeat = Repetition(r)] \in Event(S)
           /\ [e EXCEPT !.apids = TRUE] \in Event(S)
  BY DEF Event, States, Repetition, Repeats

\* The list with one timer added, changed or removed is a list.
LEMMA ListType ==
    ASSUME NEW f, IsList(f), NEW i \in Nat, NEW e \in Event(Timers)
    PROVE  /\ IsList(With(f, i, e)) /\ DOMAIN With(f, i, e) = DOMAIN f \cup {i}
           /\ IsList(Without(f, i)) /\ DOMAIN Without(f, i) = DOMAIN f \ {i}
           /\ i \in DOMAIN f => IsList([f EXCEPT ![i] = e])
<1>1. IsList(With(f, i, e)) /\ DOMAIN With(f, i, e) = DOMAIN f \cup {i}
  BY DEF IsList, With
<1>2. IsList(Without(f, i)) /\ DOMAIN Without(f, i) = DOMAIN f \ {i}
  BY DEF IsList, Without
<1>3. i \in DOMAIN f => IsList([f EXCEPT ![i] = e])
  BY DEF IsList
<1> QED BY <1>1, <1>2, <1>3

\* The empty list is a list, and an absent file a file.
LEMMA EmptyListType == IsList(EmptyList) /\ DOMAIN EmptyList = {}
  BY DEF IsList, EmptyList

LEMMA NoFileType == IsFile(NoFile)
  BY EmptyListType DEF IsFile, NoFile

\* A file that was torn while it was written is still a file.
LEMMA TornType ==
    ASSUME NEW b, IsFile(b), eventID \in Nat, NEW d \in Torn(b)
    PROVE  IsFile(d)
<1>1. ASSUME NEW c \in Int, NEW s \in Int
      PROVE  IsList(Truncated(b.timers, c, s))
  <2>1. ASSUME NEW i \in DOMAIN b.timers
        PROVE  Truncated(b.timers, c, s)[i] \in Event(Timers)
    <3> DEFINE e == b.timers[i]
               n == IF i <= c THEN e.count ELSE 0
               x == IF i <= s THEN e.stop ELSE 0
    <3>1. e \in Event(Timers)
      BY DEF IsFile, IsList
    <3>2. n \in Nat /\ x \in Int
      BY <3>1 DEF Event
    <3>3. Truncated(b.timers, c, s)[i] = [e EXCEPT !.count = n, !.stop = x]
      BY DEF Truncated
    <3> QED
      <4> HIDE DEF e, n, x
      <4>1. [e EXCEPT !.count = n, !.stop = x] \in Event(Timers)
        BY <3>1, <3>2 DEF Event
      <4> QED BY <3>3, <4>1
  <2> QED
    BY <2>1 DEF IsFile, IsList, Truncated
<1>2. ASSUME NEW l, IsList(l)
      PROVE  IsFile([exists |-> TRUE, timers |-> l, safety |-> b.safety])
  BY <1>2 DEF IsFile
<1>3. \/ d = [exists |-> TRUE, timers |-> EmptyList, safety |-> 0]
      \/ d = [exists |-> TRUE, timers |-> EmptyList, safety |-> b.safety]
      \/ \E c, s \in Int :
            d = [exists |-> TRUE, timers |-> Truncated(b.timers, c, s), safety |-> b.safety]
  BY DEF Torn
<1>4. IsFile([exists |-> TRUE, timers |-> EmptyList, safety |-> 0])
  BY EmptyListType DEF IsFile
<1> QED
  BY <1>1, <1>2, <1>3, <1>4, EmptyListType

-----------------------------------------------------------------------------
(* Type correctness. *)

USE DEF TimerPcs, ServerPcs, Threads

LEMMA TypeInit == Init => TypeOK
<1> SUFFICES ASSUME Init PROVE TypeOK
  OBVIOUS
<1>1. IsList(events) /\ DOMAIN events \subseteq 1..eventID
  BY EmptyListType DEF Init
<1>2. IsList(toLoad) /\ IsFile(buf) /\ IsFile(disk)
  BY EmptyListType, NoFileType DEF Init
<1>3. safety \in Int
  BY ConstantsAssumption DEF Init
<1> QED
  BY <1>1, <1>2, <1>3 DEF Init, TypeOK

\* A restart with any file.
LEMMA TypeRestart ==
    ASSUME TypeOK, NEW d, IsFile(d), Restart(d)
    PROVE  TypeOK'
<1>1. /\ IsList(events') /\ DOMAIN events' \subseteq 1..eventID'
      /\ IsList(toLoad') /\ IsFile(buf') /\ IsFile(disk')
  BY EmptyListType, NoFileType DEF Restart
<1>2. safety' \in Int
  BY ConstantsAssumption DEF Restart, IsFile
<1>3. pc' \in [Threads -> TimerPcs \cup ServerPcs] /\ pc'["timer"] \in TimerPcs
      /\ pc'["server"] \in ServerPcs
  BY DEF Restart
<1>4. /\ timeset' \in BOOLEAN /\ saveEvents' \in BOOLEAN /\ isTimeSet' \in BOOLEAN
      /\ loading' \in BOOLEAN /\ eventID' \in Nat /\ passNow' \in Nat
      /\ mutex' \in Threads \cup {"free"} /\ cursor' = 0 /\ recording' = {}
  BY DEF Restart
<1>5. UNCHANGED <<now, starts, life, cmds>> /\ boots' \in Nat
  BY DEF Restart, TypeOK
<1> QED
  BY <1>1, <1>2, <1>3, <1>4, <1>5 DEF TypeOK

\* addEvent.
LEMMA TypeInsert ==
    ASSUME TypeOK, NEW e \in Event(Timers), Insert(e)
    PROVE  /\ IsList(events') /\ DOMAIN events' \subseteq 1..eventID' /\ eventID' \in Nat
           /\ DOMAIN events' = DOMAIN events \cup {eventID + 1}
<1>1. [e EXCEPT !.repeat = Repetition(@)] \in Event(Timers)
  BY UpdateType DEF Event
<1>2. eventID + 1 \in Nat
  BY DEF TypeOK
<1> DEFINE r == [e EXCEPT !.repeat = Repetition(@)]
<1>3. events' = With(events, eventID + 1, r) /\ eventID' = eventID + 1
  BY DEF Insert
<1>4. IsList(events) /\ DOMAIN events \subseteq 1..eventID /\ eventID \in Nat
  BY DEF TypeOK
<1> HIDE DEF r
<1>5. IsList(events') /\ DOMAIN events' = DOMAIN events \cup {eventID + 1}
  BY <1>1, <1>2, <1>3, <1>4, ListType DEF r
<1> QED
  BY <1>2, <1>3, <1>4, <1>5

\* One step of each thread, of a client and of the environment.
LEMMA TypeTimerThread == ASSUME TypeOK, TimerThread PROVE TypeOK'
<1> USE DEF TypeOK, At, lists, locals, history, bounds
<1>1. CASE TimeIsSet
  BY <1>1 DEF TimeIsSet, IsFile
<1>2. CASE LoadEvent
  <2>1. PICK i \in DOMAIN toLoad :
          /\ toLoad' = Without(toLoad, i)
          /\ \/ life' = [life EXCEPT ![toLoad[i].info] = IF @ = "removed" THEN @ ELSE "ended"]
                /\ UNCHANGED lists
             \/ Insert(Restored(toLoad[i], now)) /\ UNCHANGED life
    BY <1>2 DEF LoadEvent
  <2>2. i \in Nat /\ toLoad[i] \in Event(Timers)
    BY <2>1 DEF IsList
  <2>3. IsList(toLoad')
    BY <2>1, <2>2, ListType
  <2>4. Restored(toLoad[i], now) \in Event(Timers)
    BY <2>2, UpdateType DEF Restored, States
  <2>5. IsList(events') /\ DOMAIN events' \subseteq 1..eventID' /\ eventID' \in Nat
        /\ DOMAIN events \subseteq DOMAIN events'
    BY <2>1, <2>4, TypeInsert
  <2>6. life' \in [Timers -> {"new", "active", "ended", "removed"}]
    BY <2>1, <2>2 DEF Event
  <2> QED
    BY <1>2, <2>3, <2>5, <2>6 DEF LoadEvent
<1>3. CASE LoadDone
  BY <1>3 DEF LoadDone
<1>4. CASE BeginPass
  BY <1>4 DEF BeginPass
<1>5. CASE CheckEvent
  <2> DEFINE e == events[cursor]
             fired == Fired(Announced(e, passNow), passNow)
             result == Settled(Stopped(fired, passNow), now)
  <2>1. e \in Event(Timers) /\ cursor \in DOMAIN events /\ cursor \in Nat
    BY <1>5 DEF CheckEvent, IsList
  <2>2. result \in Event(Timers) /\ result.info = e.info
    <3>1. now \in Int /\ passNow \in Int
      OBVIOUS
    <3>2. Announced(e, passNow) \in Event(Timers) /\ Announced(e, passNow).info = e.info
      BY <2>1, <3>1, IterationType, ZenonT(40)
    <3>3. fired \in Event(Timers) /\ fired.info = e.info
      <4>1. fired \in Event(Timers) /\ fired.info = Announced(e, passNow).info
        BY <3>1, <3>2, IterationType
      <4> QED BY <3>2, <4>1
    <3>4. Stopped(fired, passNow) \in Event(Timers) /\ Stopped(fired, passNow).info = e.info
      <4>1. /\ Stopped(fired, passNow) \in Event(Timers)
            /\ Stopped(fired, passNow).info = fired.info
        BY <3>1, <3>3, IterationType
      <4> QED BY <3>3, <4>1
    <3>5. result \in Event(Timers) /\ result.info = Stopped(fired, passNow).info
      BY <3>1, <3>4, IterationType, ZenonT(40)
    <3> QED BY <3>4, <3>5
  <2>3. e.info \in Timers
    BY <2>1 DEF Event
  <2>4. recording' \subseteq Timers /\ starts' \in [Timers -> Nat]
    <3>1. Notify(e, MustFire(Announced(e, passNow), passNow), MustStop(fired, passNow))
      BY <1>5 DEF CheckEvent
    <3> HIDE DEF e, fired
    <3>2. recording' \subseteq Timers
      BY <2>3, <3>1 DEF Notify
    <3>3. starts' \in [Timers -> Nat]
      BY <2>3, <3>1 DEF Notify
    <3> QED BY <3>2, <3>3
  <2>5. saveEvents' \in BOOLEAN
    BY <1>5 DEF CheckEvent, NeedsSave
  <2>6. \/ /\ events' = [events EXCEPT ![cursor] = result]
           /\ cursor' \in DOMAIN events \cup {0}
           /\ UNCHANGED life
        \/ /\ events' = Without(events, cursor)
           /\ cursor' \in (DOMAIN events \ {cursor}) \cup {0}
           /\ life' = [life EXCEPT ![e.info] = IF @ = "removed" THEN @ ELSE "ended"]
    BY <1>5 DEF CheckEvent
  <2> HIDE DEF e, fired, result
  <2>7. /\ IsList(events') /\ DOMAIN events' \subseteq 1..eventID
        /\ cursor' \in DOMAIN events' \cup {0}
    <3>1. CASE events' = [events EXCEPT ![cursor] = result] /\ cursor' \in DOMAIN events \cup {0}
      <4>1. IsList(events') /\ DOMAIN events' = DOMAIN events
        BY <2>1, <2>2, <3>1, ListType
      <4> QED BY <3>1, <4>1
    <3>2. CASE /\ events' = Without(events, cursor)
               /\ cursor' \in (DOMAIN events \ {cursor}) \cup {0}
      <4>1. IsList(events') /\ DOMAIN events' = DOMAIN events \ {cursor}
        BY <2>1, <2>2, <3>2, ListType
      <4> QED BY <3>2, <4>1
    <3> QED BY <2>6, <3>1, <3>2
  <2>8. life' \in [Timers -> {"new", "active", "ended", "removed"}]
    BY <2>3, <2>6
  <2> QED
    BY <1>5, <2>4, <2>5, <2>7, <2>8 DEF CheckEvent
<1>6. CASE EndPass
  BY <1>6 DEF EndPass
<1>7. CASE TestSave
  BY <1>7 DEF TestSave
<1>8. CASE Save("timer")
  <2>1. CASE Collect("timer")
    BY <2>1 DEF Collect, IsFile
  <2>2. CASE WriteFile("timer")
    BY <2>2 DEF WriteFile
  <2>3. CASE ClearFlag("timer")
    BY <2>3 DEF ClearFlag
  <2> QED BY <1>8, <2>1, <2>2, <2>3 DEF Save
<1>9. CASE HangInReschedule
  <2> DEFINE e == events[cursor]
             fired == Fired(Announced(e, passNow), passNow)
             ended == Stopped(fired, passNow)
  <2>1. e \in Event(Timers) /\ cursor \in DOMAIN events /\ cursor \in Nat
    BY <1>9 DEF HangInReschedule, IsList
  <2>2. ended \in Event(Timers)
    <3>1. now \in Int /\ passNow \in Int
      OBVIOUS
    <3>2. Announced(e, passNow) \in Event(Timers)
      BY <2>1, <3>1, IterationType, ZenonT(40)
    <3>3. fired \in Event(Timers)
      BY <3>1, <3>2, IterationType, ZenonT(40)
    <3> QED BY <3>1, <3>3, IterationType, ZenonT(40)
  <2>3. e.info \in Timers
    BY <2>1 DEF Event
  <2>4. recording' \subseteq Timers /\ starts' \in [Timers -> Nat]
    <3>1. Notify(e, MustFire(Announced(e, passNow), passNow), MustStop(fired, passNow))
      BY <1>9 DEF HangInReschedule
    <3> HIDE DEF e, fired
    <3>2. recording' \subseteq Timers
      BY <2>3, <3>1 DEF Notify
    <3>3. starts' \in [Timers -> Nat]
      BY <2>3, <3>1 DEF Notify
    <3> QED BY <3>2, <3>3
  <2>5. events' = [events EXCEPT ![cursor] = ended] /\ saveEvents' \in BOOLEAN
    BY <1>9 DEF HangInReschedule
  <2> HIDE DEF e, fired, ended
  <2>6. IsList(events') /\ DOMAIN events' = DOMAIN events
    BY <2>1, <2>2, <2>5, ListType
  <2> QED
    BY <1>9, <2>4, <2>5, <2>6 DEF HangInReschedule
<1> QED
  BY <1>1, <1>2, <1>3, <1>4, <1>5, <1>6, <1>7, <1>8, <1>9 DEF TimerThread

LEMMA TypeServerSteps == ASSUME TypeOK, ServerSteps PROVE TypeOK'
<1> USE DEF TypeOK, At, lists, locals, history, bounds
<1>1. CASE SetSafetyFlag
  BY <1>1 DEF SetSafetyFlag
<1>2. CASE Join
  <2>1. IsFile(disk')
    BY <1>2, TornType DEF Join
  <2> QED BY <1>2, <2>1 DEF Join
<1>3. CASE Save("server")
  <2>1. CASE Collect("server")
    BY <2>1 DEF Collect, IsFile
  <2>2. CASE WriteFile("server")
    BY <2>2 DEF WriteFile
  <2>3. CASE ClearFlag("server")
    BY <2>3 DEF ClearFlag
  <2> QED BY <1>3, <2>1, <2>2, <2>3 DEF Save
<1> QED BY <1>1, <1>2, <1>3 DEF ServerSteps

\* A command that changes the list leaves the other variables well typed.
LEMMA TypeListCommand ==
    ASSUME TypeOK, NEW c, ListCommand(c),
           IsList(events'), DOMAIN events \subseteq DOMAIN events',
           DOMAIN events' \subseteq 1..eventID', eventID' \in Nat,
           saveEvents' \in BOOLEAN, recording' \subseteq Timers,
           life' \in [Timers -> {"new", "active", "ended", "removed"}]
    PROVE  TypeOK'
  BY DEF TypeOK, ListCommand, Command, locals

LEMMA TypeCommands == ASSUME TypeOK, Commands PROVE TypeOK'
<1> USE DEF lists, locals, history, bounds
<1>1. ASSUME NEW i \in Timers, AddTimer(i) PROVE TypeOK'
  <2>1. Requested(i) \in Event(Timers)
    <3>1. Request[i] \in RequestType /\ safety \in Int
      BY ConstantsAssumption DEF TypeOK
    <3> DEFINE m == IF Request[i].type = "RECORD" /\ Request[i].safety THEN safety ELSE 0
    <3>2. m \in Int
      BY <3>1
    <3>3. /\ Request[i].announce - m \in Int /\ Request[i].alarm - m \in Int
          /\ (IF Request[i].type = "RECORD" THEN Request[i].stop + m ELSE 0) \in Int
      BY <3>1, <3>2 DEF RequestType
    <3>4. (IF Request[i].immediate THEN "ISRUNNING" ELSE "SCHEDULED") \in States
      BY DEF States
    <3> QED
      BY <3>1, <3>3, <3>4 DEF Requested, Event, RequestType
  <2>2. Insert(Requested(i))
    BY <1>1 DEF AddTimer
  <2>3. /\ IsList(events') /\ DOMAIN events' \subseteq 1..eventID' /\ eventID' \in Nat
        /\ DOMAIN events \subseteq DOMAIN events'
    BY <2>1, <2>2, TypeInsert
  <2>4. /\ ListCommand("add") /\ saveEvents' = TRUE
        /\ recording' \subseteq Timers
        /\ life' \in [Timers -> {"new", "active", "ended", "removed"}]
    BY <1>1 DEF AddTimer, TypeOK
  <2> QED BY <2>3, <2>4, TypeListCommand
<1>2. ASSUME NEW id \in DOMAIN events
      PROVE  /\ RemoveTimer(id) => TypeOK'
             /\ StopTimer(id) => TypeOK'
             /\ SetAPid(id) => TypeOK'
             /\ \A c \in Changes : ModifyTimer(id, c) => TypeOK'
             /\ \A d \in Diffs : RescheduleTimer(id, d) => TypeOK'
  <2>1. id \in Nat /\ events[id] \in Event(Timers) /\ events[id].info \in Timers
        /\ IsList(events) /\ DOMAIN events \subseteq 1..eventID /\ eventID \in Nat
    BY DEF TypeOK, IsList, Event
  <2>2. ASSUME NEW e \in Event(Timers), events' = [events EXCEPT ![id] = e], eventID' = eventID
        PROVE  /\ IsList(events') /\ DOMAIN events' \subseteq 1..eventID' /\ eventID' \in Nat
               /\ DOMAIN events \subseteq DOMAIN events'
    <3>1. IsList(events') /\ DOMAIN events' = DOMAIN events
      BY <2>1, <2>2, ListType
    <3> QED BY <2>1, <2>2, <3>1
  <2>3. CASE RemoveTimer(id)
    <3>1. [events[id] EXCEPT !.state = "TERMINATED"] \in Event(Timers)
      BY <2>1, UpdateType DEF States
    <3>2. events' = [events EXCEPT ![id] = [events[id] EXCEPT !.state = "TERMINATED"]]
          /\ eventID' = eventID
      BY <2>3 DEF RemoveTimer
    <3>3. /\ ListCommand("remove") /\ saveEvents' \in BOOLEAN
          /\ recording' \subseteq Timers
          /\ life' \in [Timers -> {"new", "active", "ended", "removed"}]
      BY <2>1, <2>3 DEF RemoveTimer, StopIfRunning, TypeOK
    <3> QED BY <2>2, <3>1, <3>2, <3>3, TypeListCommand
  <2>4. CASE StopTimer(id)
    <3>1. [events[id] EXCEPT !.state = "HASFINISHED"] \in Event(Timers)
      BY <2>1, UpdateType DEF States
    <3>2. events' = [events EXCEPT ![id] = [events[id] EXCEPT !.state = "HASFINISHED"]]
          /\ eventID' = eventID
      BY <2>4 DEF StopTimer
    <3>3. /\ ListCommand("stop") /\ saveEvents' \in BOOLEAN
          /\ recording' \subseteq Timers
          /\ life' \in [Timers -> {"new", "active", "ended", "removed"}]
      BY <2>1, <2>4 DEF StopTimer, StopIfRunning, TypeOK
    <3> QED BY <2>2, <3>1, <3>2, <3>3, TypeListCommand
  <2>5. CASE SetAPid(id)
    <3>1. [events[id] EXCEPT !.apids = TRUE] \in Event(Timers)
      BY <2>1, UpdateType
    <3>2. events' = [events EXCEPT ![id] = [events[id] EXCEPT !.apids = TRUE]]
          /\ eventID' = eventID
      BY <2>5 DEF SetAPid
    <3>3. /\ ListCommand("apids") /\ saveEvents' \in BOOLEAN
          /\ recording' \subseteq Timers
          /\ life' \in [Timers -> {"new", "active", "ended", "removed"}]
      BY <2>5 DEF SetAPid, TypeOK
    <3> QED BY <2>2, <3>1, <3>2, <3>3, TypeListCommand
  <2>6. ASSUME NEW c \in Changes, ModifyTimer(id, c) PROVE TypeOK'
    <3> DEFINE e == [events[id] EXCEPT !.announce = c.announce, !.alarm = c.alarm,
                       !.stop = c.stop, !.count = c.count, !.repeat = Repetition(c.repeat),
                       !.state = IF @ = "PREANNOUNCE" THEN "SCHEDULED" ELSE @]
    <3>1. e \in Event(Timers)
      <4>1. c \in ChangeType
        BY ConstantsAssumption
      <4> QED BY <2>1, <4>1 DEF ChangeType, Event, States, Repetition, Repeats
    <3>2. events' = [events EXCEPT ![id] = e] /\ eventID' = eventID
      BY <2>6 DEF ModifyTimer
    <3>3. /\ ListCommand("modify") /\ saveEvents' \in BOOLEAN
          /\ recording' \subseteq Timers
          /\ life' \in [Timers -> {"new", "active", "ended", "removed"}]
      BY <2>6 DEF ModifyTimer, TypeOK
    <3> QED BY <2>2, <3>1, <3>2, <3>3, TypeListCommand
  <2>7. ASSUME NEW d \in Diffs, RescheduleTimer(id, d) PROVE TypeOK'
    <3> DEFINE e == [events[id] EXCEPT !.announce = Shifted(@, d), !.alarm = Shifted(@, d),
                       !.stop = Shifted(@, d), !.state = "SCHEDULED"]
    <3>1. e \in Event(Timers)
      <4>1. d \in Int
        BY ConstantsAssumption
      <4>2. /\ Shifted(events[id].announce, d) \in Int /\ Shifted(events[id].alarm, d) \in Int
            /\ Shifted(events[id].stop, d) \in Int
        BY <2>1, <4>1 DEF Event, Shifted
      <4> QED BY <2>1, <4>2 DEF Event, States
    <3>2. events' = [events EXCEPT ![id] = e] /\ eventID' = eventID
      BY <2>7 DEF RescheduleTimer
    <3>3. /\ ListCommand("reschedule") /\ saveEvents' \in BOOLEAN
          /\ recording' \subseteq Timers
          /\ life' \in [Timers -> {"new", "active", "ended", "removed"}]
      BY <2>7 DEF RescheduleTimer, TypeOK
    <3> QED BY <2>2, <3>1, <3>2, <3>3, TypeListCommand
  <2> QED BY <2>3, <2>4, <2>5, <2>6, <2>7
<1>3. ASSUME NEW m \in Margins, SetSafetyTimes(m) PROVE TypeOK'
  BY <1>3, ConstantsAssumption DEF SetSafetyTimes, Command, At, TypeOK
<1>4. CASE Shutdown
  BY <1>4 DEF Shutdown, Command, At, TypeOK
<1> QED BY <1>1, <1>2, <1>3, <1>4 DEF Commands

LEMMA TypeNext == TypeOK /\ [Next]_vars => TypeOK'
<1> SUFFICES ASSUME TypeOK, [Next]_vars PROVE TypeOK'
  OBVIOUS
<1> USE DEF lists, locals, history, bounds
<1>1. CASE Tick
  BY <1>1 DEF Tick, TypeOK
<1>2. CASE SetTime
  BY <1>2 DEF SetTime, TypeOK
<1>3. CASE PowerFailure
  <2>1. PICK d \in {disk} \cup Torn(buf) : Restart(d)
    BY <1>3 DEF PowerFailure
  <2>2. IsFile(d)
    BY TornType DEF TypeOK
  <2> QED BY <2>1, <2>2, TypeRestart
<1>4. CASE ColdStart
  BY <1>4, TypeRestart DEF ColdStart, TypeOK
<1>5. CASE UNCHANGED vars
  BY <1>5 DEF vars, TypeOK
<1> QED
  BY <1>1, <1>2, <1>3, <1>4, <1>5, TypeTimerThread, TypeServerSteps, TypeCommands DEF Next

\* In every reachable state every variable has its type.
THEOREM TypeCorrect == Spec => []TypeOK
  BY TypeInit, TypeNext, PTL DEF Spec

-----------------------------------------------------------------------------
(* What is changed is saved. *)

\* Passes and saves own the mutex, and nothing else runs between the steps of
\* a save that could change the list.
SavesAreExclusive ==
    /\ pc["timer"] = "check" => mutex = "timer"
    /\ \A self \in Threads :
          /\ pc[self] \in {"write", "clear"} => mutex = self
          /\ pc[self] = "write" => buf.timers = events
          /\ pc[self] = "clear" => disk.timers = events

\* The timer thread restores timers only while it is "loading".
RestoresWhileLoading == pc["timer"] = "load" => loading

\* The inductive invariant.
SaveInv == SavesAreExclusive /\ RestoresWhileLoading /\ UnsavedIsFlagged

\* A file that holds the list leaves nothing unsaved.
LEMMA FileIsList ==
    ASSUME IsList(events'), disk'.timers = events'
    PROVE  UnsavedIsFlagged'
<1>1. ASSUME NEW id \in DOMAIN events'
      PROVE  events'[id] = [events'[id] EXCEPT !.state = events'[id].state]
  BY DEF IsList, Event
<1> QED BY <1>1 DEF UnsavedIsFlagged

\* A step that finds the mutex free, changes no program counter and no file,
\* keeps the exclusion.
LEMMA FreeStep ==
    ASSUME SavesAreExclusive, mutex = "free", UNCHANGED <<mutex, pc, disk, buf>>
    PROVE  SavesAreExclusive'
  BY DEF SavesAreExclusive

\* A command that runs under the mutex and asks for a save.
LEMMA SavedCommand ==
    ASSUME SaveInv, NEW c, ListCommand(c), saveEvents' = TRUE
    PROVE  SaveInv'
<1>1. SavesAreExclusive'
  BY FreeStep DEF SaveInv, ListCommand, locals
<1>2. RestoresWhileLoading' /\ UnsavedIsFlagged'
  BY DEF SaveInv, ListCommand, locals, RestoresWhileLoading, UnsavedIsFlagged
<1> QED BY <1>1, <1>2 DEF SaveInv

\* A command that ends a timer and asks for no save.
LEMMA EndingCommand ==
    ASSUME TypeOK, SaveInv, NEW c, ListCommand(c), saveEvents' = saveEvents,
           NEW id \in DOMAIN events, NEW s \in Finished,
           events' = [events EXCEPT ![id].state = s]
    PROVE  SaveInv'
<1>1. SavesAreExclusive'
  BY FreeStep DEF SaveInv, ListCommand, locals
<1>2. RestoresWhileLoading'
  BY DEF SaveInv, ListCommand, locals, RestoresWhileLoading
<1>3. UnsavedIsFlagged'
  <2> SUFFICES ASSUME Loaded', ~saveEvents'
               PROVE  /\ DOMAIN events' = DOMAIN disk'.timers
                      /\ \A i \in DOMAIN events' :
                            /\ events'[i] = [disk'.timers[i] EXCEPT !.state = events'[i].state]
                            /\ \/ events'[i].state \in Finished
                               \/ events'[i].state = disk'.timers[i].state
    BY DEF UnsavedIsFlagged
  <2>1. Loaded /\ ~saveEvents /\ disk' = disk
    BY DEF ListCommand, locals, Loaded
  <2>2. /\ DOMAIN events = DOMAIN disk.timers
        /\ \A i \in DOMAIN events :
              /\ events[i] = [disk.timers[i] EXCEPT !.state = events[i].state]
              /\ events[i].state \in Finished \/ events[i].state = disk.timers[i].state
    BY <2>1 DEF SaveInv, UnsavedIsFlagged
  <2>3. \A i \in DOMAIN events : events[i] \in Event(Timers) /\ disk.timers[i] \in Event(Timers)
    BY <2>2 DEF TypeOK, IsList, IsFile
  <2>4. events'[id] = [events[id] EXCEPT !.state = s] /\ events'[id].state = s
    BY <2>3 DEF Event
  <2>5. events'[id] = [disk.timers[id] EXCEPT !.state = s]
    BY <2>2, <2>3, <2>4 DEF Event
  <2>6. DOMAIN events' = DOMAIN events /\ \A i \in DOMAIN events \ {id} : events'[i] = events[i]
    OBVIOUS
  <2> QED BY <2>1, <2>2, <2>4, <2>5, <2>6
<1> QED BY <1>1, <1>2, <1>3 DEF SaveInv

LEMMA SaveInit == Init => SaveInv
  BY DEF Init, SaveInv, SavesAreExclusive, RestoresWhileLoading, UnsavedIsFlagged, Loaded

\* The three steps of a save.
LEMMA SaveSave ==
    ASSUME TypeOK, SaveInv, NEW self \in Threads, Save(self)
    PROVE  SaveInv'
<1> USE DEF TypeOK, At, lists, locals, history, bounds
<1>1. CASE Collect(self)
  <2>1. SavesAreExclusive'
    BY <1>1 DEF Collect, SaveInv, SavesAreExclusive
  <2>2. RestoresWhileLoading' /\ UnsavedIsFlagged'
    BY <1>1 DEF Collect, SaveInv, RestoresWhileLoading, UnsavedIsFlagged, Loaded
  <2> QED BY <2>1, <2>2 DEF SaveInv
<1>2. CASE WriteFile(self)
  <2>1. mutex = self /\ disk'.timers = events' /\ IsList(events')
    BY <1>2 DEF WriteFile, SaveInv, SavesAreExclusive
  <2>2. SavesAreExclusive'
    BY <1>2, <2>1 DEF WriteFile, SaveInv, SavesAreExclusive
  <2>3. RestoresWhileLoading'
    BY <1>2 DEF WriteFile, SaveInv, RestoresWhileLoading
  <2> QED BY <2>1, <2>2, <2>3, FileIsList DEF SaveInv
<1>3. CASE ClearFlag(self)
  <2>1. mutex = self /\ disk'.timers = events' /\ IsList(events')
    BY <1>3 DEF ClearFlag, SaveInv, SavesAreExclusive
  <2>2. SavesAreExclusive'
    BY <1>3, <2>1 DEF ClearFlag, SaveInv, SavesAreExclusive
  <2>3. RestoresWhileLoading'
    BY <1>3 DEF ClearFlag, SaveInv, RestoresWhileLoading
  <2> QED BY <2>1, <2>2, <2>3, FileIsList DEF SaveInv
<1> QED BY <1>1, <1>2, <1>3 DEF Save

\* One iteration of the timer thread's loop: what it leaves unflagged it has
\* not changed.
LEMMA SaveCheckEvent == ASSUME TypeOK, SaveInv, CheckEvent PROVE SaveInv'
<1> DEFINE e == events[cursor]
           fired == Fired(Announced(e, passNow), passNow)
           result == Settled(Stopped(fired, passNow), now)
<1>1. pc["timer"] = "check" /\ mutex = "timer" /\ UNCHANGED <<mutex, pc, disk, buf, loading, isTimeSet>>
  BY DEF CheckEvent, SaveInv, SavesAreExclusive
<1>2. SavesAreExclusive'
  BY <1>1 DEF SaveInv, SavesAreExclusive, TypeOK
<1>3. RestoresWhileLoading'
  BY <1>1 DEF RestoresWhileLoading
<1>4. saveEvents' = (saveEvents \/ NeedsSave(e, result))
  BY DEF CheckEvent
<1>5. \/ result.state # "TERMINATED" /\ events' = [events EXCEPT ![cursor] = result]
      \/ result.state = "TERMINATED"
  BY DEF CheckEvent
<1>6. events \in [DOMAIN events -> Event(Timers)]
  BY DEF TypeOK, IsList
<1> HIDE DEF result
<1>7. ~saveEvents' => ~saveEvents /\ events' = events
  BY <1>4, <1>5, <1>6 DEF NeedsSave
<1>8. UnsavedIsFlagged'
  BY <1>1, <1>7 DEF SaveInv, UnsavedIsFlagged, Loaded
<1> QED BY <1>2, <1>3, <1>8 DEF SaveInv

\* The same for the iteration that never ends.
LEMMA SaveHang == ASSUME TypeOK, SaveInv, HangInReschedule PROVE SaveInv'
<1> DEFINE e == events[cursor]
           ended == Stopped(Fired(Announced(e, passNow), passNow), passNow)
<1>1. /\ pc["timer"] = "check" /\ mutex = "timer" /\ pc' = [pc EXCEPT !["timer"] = "hung"]
      /\ UNCHANGED <<mutex, disk, buf, loading, isTimeSet>>
  BY DEF HangInReschedule, SaveInv, SavesAreExclusive, At, locals
<1>2. pc'["timer"] = "hung" /\ pc'["server"] = pc["server"]
  BY <1>1 DEF TypeOK
<1>3. SavesAreExclusive'
  BY <1>1, <1>2 DEF SaveInv, SavesAreExclusive
<1>4. RestoresWhileLoading'
  BY <1>2 DEF RestoresWhileLoading
<1>5. saveEvents' = (saveEvents \/ ended # e) /\ events' = [events EXCEPT ![cursor] = ended]
  BY DEF HangInReschedule
<1>6. events \in [DOMAIN events -> Event(Timers)]
  BY DEF TypeOK, IsList
<1> HIDE DEF ended
<1>7. ~saveEvents' => ~saveEvents /\ events' = events
  BY <1>5, <1>6
<1>8. UnsavedIsFlagged'
  BY <1>1, <1>7 DEF SaveInv, UnsavedIsFlagged, Loaded
<1> QED BY <1>3, <1>4, <1>8 DEF SaveInv

LEMMA SaveTimerThread == ASSUME TypeOK, SaveInv, TimerThread PROVE SaveInv'
<1> USE DEF At, lists, locals, history, bounds
<1>1. CASE TimeIsSet
  BY <1>1 DEF TimeIsSet, TypeOK, SaveInv, SavesAreExclusive, RestoresWhileLoading,
              UnsavedIsFlagged, Loaded
<1>2. CASE LoadEvent
  <2>1. SavesAreExclusive'
    BY <1>2, FreeStep DEF LoadEvent, SaveInv
  <2>2. loading /\ loading' = loading /\ RestoresWhileLoading'
    BY <1>2 DEF LoadEvent, SaveInv, RestoresWhileLoading
  <2> QED BY <2>1, <2>2 DEF SaveInv, UnsavedIsFlagged, Loaded
<1>3. CASE LoadDone \/ BeginPass \/ EndPass \/ TestSave
  <2>1. SavesAreExclusive'
    BY <1>3 DEF LoadDone, BeginPass, EndPass, TestSave, TypeOK, SaveInv, SavesAreExclusive
  <2>2. RestoresWhileLoading'
    BY <1>3 DEF LoadDone, BeginPass, EndPass, TestSave, TypeOK, SaveInv, RestoresWhileLoading
  <2>3. UnsavedIsFlagged'
    BY <1>3 DEF LoadDone, BeginPass, EndPass, TestSave, SaveInv, UnsavedIsFlagged, Loaded
  <2> QED BY <2>1, <2>2, <2>3 DEF SaveInv
<1>4. CASE CheckEvent
  BY <1>4, SaveCheckEvent
<1>5. CASE Save("timer")
  BY <1>5, SaveSave
<1>6. CASE HangInReschedule
  BY <1>6, SaveHang
<1> QED BY <1>1, <1>2, <1>3, <1>4, <1>5, <1>6 DEF TimerThread

LEMMA SaveServerSteps == ASSUME TypeOK, SaveInv, ServerSteps PROVE SaveInv'
<1> USE DEF At, lists, locals, history, bounds
<1>1. CASE SetSafetyFlag
  BY <1>1 DEF SetSafetyFlag, TypeOK, SaveInv, SavesAreExclusive, RestoresWhileLoading,
              UnsavedIsFlagged
<1>2. CASE Join
  <2>1. SavesAreExclusive' /\ RestoresWhileLoading'
    BY <1>2 DEF Join, TypeOK, SaveInv, SavesAreExclusive, RestoresWhileLoading
  <2>2. disk' = disk \/ loading'
    BY <1>2 DEF Join
  <2>3. UnsavedIsFlagged'
    BY <1>2, <2>2 DEF Join, SaveInv, UnsavedIsFlagged, Loaded
  <2> QED BY <2>1, <2>3 DEF SaveInv
<1>3. CASE Save("server")
  BY <1>3, SaveSave
<1> QED BY <1>1, <1>2, <1>3 DEF ServerSteps

LEMMA SaveCommands == ASSUME TypeOK, SaveInv, Commands PROVE SaveInv'
<1>1. ASSUME NEW i \in Timers, AddTimer(i) PROVE SaveInv'
  BY <1>1, SavedCommand DEF AddTimer
<1>2. ASSUME NEW id \in DOMAIN events, RemoveTimer(id) PROVE SaveInv'
  <2>1. /\ ListCommand("remove") /\ saveEvents' = saveEvents
        /\ events' = [events EXCEPT ![id].state = "TERMINATED"]
    BY <1>2 DEF RemoveTimer
  <2> QED BY <2>1, EndingCommand DEF Finished
<1>3. ASSUME NEW id \in DOMAIN events, StopTimer(id) PROVE SaveInv'
  <2>1. /\ ListCommand("stop") /\ saveEvents' = saveEvents
        /\ events' = [events EXCEPT ![id].state = "HASFINISHED"]
    BY <1>3 DEF StopTimer
  <2> QED BY <2>1, EndingCommand DEF Finished
<1>4. ASSUME NEW id \in DOMAIN events, SetAPid(id) PROVE SaveInv'
  BY <1>4, SavedCommand DEF SetAPid
<1>5. ASSUME NEW id \in DOMAIN events, NEW c \in Changes, ModifyTimer(id, c) PROVE SaveInv'
  BY <1>5, SavedCommand DEF ModifyTimer
<1>6. ASSUME NEW id \in DOMAIN events, NEW d \in Diffs, RescheduleTimer(id, d) PROVE SaveInv'
  BY <1>6, SavedCommand DEF RescheduleTimer
<1>7. ASSUME NEW m \in Margins, SetSafetyTimes(m) PROVE SaveInv'
  BY <1>7 DEF SetSafetyTimes, Command, At, TypeOK, lists, locals, SaveInv, SavesAreExclusive,
              RestoresWhileLoading, UnsavedIsFlagged, Loaded
<1>8. CASE Shutdown
  BY <1>8 DEF Shutdown, Command, At, TypeOK, lists, locals, SaveInv, SavesAreExclusive,
              RestoresWhileLoading, UnsavedIsFlagged, Loaded
<1> QED BY <1>1, <1>2, <1>3, <1>4, <1>5, <1>6, <1>7, <1>8 DEF Commands

LEMMA SaveRestart == ASSUME NEW d, Restart(d) PROVE SaveInv'
  BY DEF Restart, SaveInv, SavesAreExclusive, RestoresWhileLoading, UnsavedIsFlagged, Loaded

LEMMA SaveNext == TypeOK /\ SaveInv /\ [Next]_vars => SaveInv'
<1> SUFFICES ASSUME TypeOK, SaveInv, [Next]_vars PROVE SaveInv'
  OBVIOUS
<1>1. CASE Tick \/ SetTime \/ UNCHANGED vars
  BY <1>1 DEF Tick, SetTime, vars, lists, locals, SaveInv, SavesAreExclusive,
              RestoresWhileLoading, UnsavedIsFlagged, Loaded
<1>2. CASE PowerFailure
  BY <1>2, SaveRestart DEF PowerFailure
<1>3. CASE ColdStart
  BY <1>3, SaveRestart DEF ColdStart
<1> QED
  BY <1>1, <1>2, <1>3, SaveTimerThread, SaveServerSteps, SaveCommands DEF Next

\* In every reachable state a loaded list that differs from the file in more
\* than the end of a timer has m_saveEvents set.
THEOREM UnsavedIsFlaggedCorrect == Spec => []UnsavedIsFlagged
<1>1. Init => TypeOK /\ SaveInv
  BY TypeInit, SaveInit
<1>2. TypeOK /\ SaveInv /\ [Next]_vars => (TypeOK /\ SaveInv)'
  BY TypeNext, SaveNext
<1>3. TypeOK /\ SaveInv => UnsavedIsFlagged
  BY DEF SaveInv
<1> QED BY <1>1, <1>2, <1>3, PTL DEF Spec
=============================================================================

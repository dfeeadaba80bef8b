------------------------- MODULE TimerHistoryProofs -------------------------
(***************************************************************************)
(* What timerd promises of timers and recordings whatever has been met:    *)
(* stored timers survive, and recordings have someone to end them; for     *)
(* every set of timers, commands and faults and for every bound.           *)
(***************************************************************************)
EXTENDS MCTimerManager, TimerManagerProofs

USE DEF TimerPcs, ServerPcs, Threads

mcvars == <<vars, trouble>>

\* The timers a list is about, those that are over, and those the process knows of.
Infos(list) == {list[id].info : id \in DOMAIN list}
Over  == {i \in Timers : life[i] \in {"removed", "ended"}}
Known == Infos(events) \cup Infos(toLoad) \cup Over

\* Only the load has something left to load, and shutdown() saves when the timer thread is gone.
Phases ==
    /\ pc["timer"] # "load" => DOMAIN toLoad = {}
    /\ pc["server"] \in {"collect", "write", "clear"} => pc["timer"] = "gone"

\* From the load on, what is stored is in the list, still to be loaded, or over.
Kept ==
    /\ isTimeSet \/ pc["timer"] = "wait"
    /\ isTimeSet => Stored(disk) \subseteq Known

SurvivalInv == TypeOK /\ SaveInv /\ Phases /\ (trouble \cap {"tear", "early"} = {} => Kept)

-----------------------------------------------------------------------------
(* Steps with their history. *)

LEMMA Troubles ==
    ASSUME MCNext
    PROVE  /\ Next /\ trouble \subseteq trouble'
           /\ "tear" \notin trouble' => disk' \in {disk, buf}
           /\ "early" \notin trouble' =>
                 ~(pc["server"] = "join" /\ pc["timer"] = "wait" /\ pc'["timer"] = "gone")
           /\ "reschedule" \notin trouble' =>
                 \A id \in DOMAIN events, d \in Diffs : ~RescheduleTimer(id, d)
  BY DEF MCNext, Happens

\* A restart reads the file that was last written, or one that was cut off.
LEMMA Restarts ==
    ASSUME PowerFailure \/ ColdStart
    PROVE  \E d \in {disk} \cup (IF Writing THEN Torn(buf) ELSE {}) : Restart(d)
  BY DEF PowerFailure, ColdStart

\* A restart begins with nothing loaded.
LEMMA Restarted ==
    ASSUME PowerFailure \/ ColdStart
    PROVE  /\ pc'["timer"] = "wait" /\ pc'["server"] = "idle" /\ isTimeSet' = FALSE
           /\ DOMAIN toLoad' = {} /\ DOMAIN events' = {} /\ recording' = {} /\ buf' = NoFile
           /\ Writing \/ disk' = disk
<1>1. PICK d : /\ d \in {disk} \cup (IF Writing THEN Torn(buf) ELSE {}) /\ Restart(d)
  BY Restarts
<1>2. pc' = [t \in Threads |-> IF t = "timer" THEN "wait" ELSE "idle"]
  BY <1>1 DEF Restart
<1>3. toLoad' = EmptyList /\ events' = EmptyList /\ disk' = d /\ recording' = {} /\ buf' = NoFile
      /\ isTimeSet' = FALSE
  BY <1>1 DEF Restart
<1>4. DOMAIN toLoad' = {} /\ DOMAIN events' = {}
  BY <1>3 DEF EmptyList
<1>5. Writing \/ disk' = disk
  BY <1>1, <1>3
<1> QED BY <1>2, <1>3, <1>4, <1>5

\* The commands that change the list touch neither the threads nor the file.
ListChanges ==
    \/ \E i \in Timers : AddTimer(i)
    \/ \E id \in DOMAIN events :
          \/ RemoveTimer(id) \/ StopTimer(id) \/ SetAPid(id)
          \/ \E c \in Changes : ModifyTimer(id, c)
          \/ \E d \in Diffs : RescheduleTimer(id, d)

LEMMA ListChangesOnly ==
    ASSUME ListChanges
    PROVE  /\ pc["server"] = "idle" /\ mutex = "free"
           /\ UNCHANGED <<now, timeset, isTimeSet, safety, mutex, pc, loading, toLoad, passNow, cursor,
                          buf, disk>>
<1>1. ASSUME NEW i \in Timers, AddTimer(i) PROVE ListCommand("add")
  BY <1>1 DEF AddTimer
<1>2. ASSUME NEW id \in DOMAIN events,
             \/ RemoveTimer(id) \/ StopTimer(id) \/ SetAPid(id)
             \/ \E c \in Changes : ModifyTimer(id, c)
             \/ \E d \in Diffs : RescheduleTimer(id, d)
      PROVE  \/ ListCommand("remove") \/ ListCommand("stop") \/ ListCommand("apids")
             \/ ListCommand("modify") \/ ListCommand("reschedule")
  BY <1>2 DEF RemoveTimer, StopTimer, SetAPid, ModifyTimer, RescheduleTimer
<1>3. \/ ListCommand("add") \/ ListCommand("remove") \/ ListCommand("stop") \/ ListCommand("apids")
      \/ ListCommand("modify") \/ ListCommand("reschedule")
  BY <1>1, <1>2 DEF ListChanges
<1> QED BY <1>3 DEF ListCommand, Command, locals

\* The steps.
LEMMA Steps ==
    ASSUME Next
    PROVE  \/ PowerFailure \/ ColdStart \/ TimeIsSet \/ LoadEvent \/ LoadDone
           \/ BeginPass \/ CheckEvent \/ HangInReschedule \/ EndPass \/ TestSave
           \/ \E self \in Threads : Collect(self) \/ WriteFile(self) \/ ClearFlag(self)
           \/ SetSafetyFlag \/ Join \/ ListChanges
           \/ \E m \in Margins : SetSafetyTimes(m)
           \/ Shutdown \/ Tick \/ SetTime
<1>1. Save("timer") \/ Save("server") =>
         \E self \in Threads : Collect(self) \/ WriteFile(self) \/ ClearFlag(self)
  BY DEF Save, Threads
<1>2. Commands => ListChanges \/ (\E m \in Margins : SetSafetyTimes(m)) \/ Shutdown
  BY DEF Commands, ListChanges
<1> QED BY <1>1, <1>2 DEF Next, TimerThread, ServerSteps

\* Where the threads are, and what of the file and the flag of the load changes.
LEMMA Moves ==
    ASSUME TypeOK, Next, ~PowerFailure, ~ColdStart
    PROVE  /\ isTimeSet' = isTimeSet \/ TimeIsSet
           /\ toLoad' = toLoad \/ TimeIsSet \/ LoadEvent
           /\ pc["timer"] = "wait" => pc'["timer"] = "wait" \/ TimeIsSet \/ Join
           /\ pc["timer"] = "gone" => pc'["timer"] = "gone"
           /\ pc["timer"] = "load" => pc'["timer"] = "load" \/ LoadDone
           /\ pc'["timer"] = "load" => pc["timer"] = "load" \/ TimeIsSet
           /\ pc'["server"] \in {"collect", "write", "clear"} =>
                 pc["server"] \in {"collect", "write", "clear"} \/ Join
           /\ disk' = disk \/ Writing
<1> USE DEF At, TypeOK, lists, locals, history, bounds
<1>1. CASE TimeIsSet
  BY <1>1 DEF TimeIsSet
<1>2. CASE LoadEvent
  BY <1>2 DEF LoadEvent
<1>3. CASE LoadDone \/ BeginPass \/ EndPass \/ TestSave
  BY <1>3 DEF LoadDone, BeginPass, EndPass, TestSave
<1>4. CASE CheckEvent \/ HangInReschedule
  BY <1>4 DEF CheckEvent, HangInReschedule
<1>5. ASSUME NEW self \in Threads, Collect(self) \/ WriteFile(self) \/ ClearFlag(self)
      PROVE  /\ isTimeSet' = isTimeSet /\ toLoad' = toLoad
             /\ disk' = disk \/ Writing
             /\ \/ pc'["timer"] = pc["timer"]
                \/ pc["timer"] \notin {"wait", "gone", "load"} /\ pc'["timer"] \notin {"load", "gone"}
             /\ pc'["server"] = pc["server"] \/ pc["server"] \in {"collect", "write", "clear"}
  BY <1>5 DEF Collect, WriteFile, ClearFlag, Writing
<1>6. CASE SetSafetyFlag \/ Shutdown \/ \E m \in Margins : SetSafetyTimes(m)
  BY <1>6 DEF SetSafetyFlag, Shutdown, SetSafetyTimes, Command
<1>7. CASE Join
  BY <1>7 DEF Join, Writing
<1>8. CASE ListChanges
  BY <1>8, ListChangesOnly
<1>9. CASE Tick \/ SetTime
  BY <1>9 DEF Tick, SetTime
<1> QED BY <1>1, <1>2, <1>3, <1>4, <1>5, <1>6, <1>7, <1>8, <1>9, Steps

\* A step that changes the file without cutting it off writes the list.
LEMMA FileChanges ==
    ASSUME SurvivalInv, Next, disk' \in {disk, buf}
    PROVE  \/ disk' = disk
           \/ Writing /\ disk' = buf /\ disk'.timers = events
<1>1. Writing => buf.timers = events
  BY DEF Writing, SurvivalInv, SaveInv, SavesAreExclusive
<1>2. disk' # disk => Writing
  BY Moves, Restarted DEF SurvivalInv
<1> QED BY <1>1, <1>2

-----------------------------------------------------------------------------
(* What lists are about. *)

LEMMA InfoAdded ==
    ASSUME NEW f, NEW i, i \notin DOMAIN f, NEW e
    PROVE  Infos(With(f, i, e)) = Infos(f) \cup {e.info}
<1> DEFINE g == With(f, i, e)
<1>1. DOMAIN g = DOMAIN f \cup {i} /\ g[i] = e /\ \A j \in DOMAIN f : g[j] = f[j]
  BY DEF With
<1> HIDE DEF g
<1>2. Infos(g) = Infos(f) \cup {e.info}
  BY <1>1 DEF Infos
<1> QED BY <1>2 DEF g

LEMMA InfoRemoved ==
    ASSUME NEW f, NEW i \in DOMAIN f
    PROVE  Infos(f) \subseteq Infos(Without(f, i)) \cup {f[i].info}
  BY DEF Infos, Without

LEMMA InfoChanged ==
    ASSUME NEW f, IsList(f), NEW i \in DOMAIN f, NEW e, e.info = f[i].info
    PROVE  Infos([f EXCEPT ![i] = e]) = Infos(f)
<1> DEFINE g == [f EXCEPT ![i] = e]
<1>1. DOMAIN g = DOMAIN f /\ \A j \in DOMAIN f : g[j].info = f[j].info
  BY DEF IsList
<1> HIDE DEF g
<1>2. Infos(g) = Infos(f)
  BY <1>1 DEF Infos
<1> QED BY <1>2 DEF g

\* The result of an iteration of the loop, and that of one that never ends.
Unsettled(e) == Stopped(Fired(Announced(e, passNow), passNow), passNow)
Iteration(e) == Settled(Stopped(Fired(Announced(e, passNow), passNow), passNow), now)

LEMMA IterationKeepsInfo ==
    ASSUME TypeOK, NEW e \in Event(Timers)
    PROVE  /\ Iteration(e) \in Event(Timers) /\ Iteration(e).info = e.info
           /\ Unsettled(e) \in Event(Timers) /\ Unsettled(e).info = e.info
<1> DEFINE a == Announced(e, passNow)
           f == Fired(a, passNow)
           s == Stopped(f, passNow)
<1>1. passNow \in Int /\ now \in Int
  BY DEF TypeOK
<1>2. a \in Event(Timers) /\ a.info = e.info
  BY <1>1, IterationType
<1> HIDE DEF a
<1>3. f \in Event(Timers) /\ f.info = a.info
  BY <1>1, <1>2, IterationType
<1> HIDE DEF f
<1>4. s \in Event(Timers) /\ s.info = f.info
  BY <1>1, <1>3, IterationType
<1> HIDE DEF s
<1>5. Settled(s, now) \in Event(Timers) /\ Settled(s, now).info = s.info
  BY <1>1, <1>4, IterationType
<1> QED BY <1>2, <1>3, <1>4, <1>5 DEF Iteration, Unsettled, a, f, s

\* addEvent adds a timer and keeps the others.
LEMMA Inserted ==
    ASSUME TypeOK, NEW e \in Event(Timers), Insert(e)
    PROVE  Infos(events') = Infos(events) \cup {e.info}
<1> DEFINE r == [e EXCEPT !.repeat = Repetition(@)]
<1>1. r \in Event(Timers) /\ r.info = e.info
  BY UpdateType DEF Event
<1>2. events' = With(events, eventID + 1, r)
  BY DEF Insert
<1> DEFINE n == eventID + 1
<1>3. IsList(events) /\ n \in Nat /\ n \notin DOMAIN events
  BY DEF TypeOK
<1> HIDE DEF r, n
<1>4. Infos(With(events, n, r)) = Infos(events) \cup {r.info}
  BY <1>3, InfoAdded
<1> QED BY <1>1, <1>2, <1>4 DEF n

\* A command that changes a timer of the list.
LEMMA ChangedTimer ==
    ASSUME TypeOK, NEW id \in DOMAIN events, NEW e, e.info = events[id].info, e \in Event(Timers),
           events' = [events EXCEPT ![id] = e]
    PROVE  Infos(events') = Infos(events)
<1>1. IsList(events) /\ id \in Nat
  BY DEF TypeOK, IsList
<1> QED BY <1>1, InfoChanged

\* What AddTimer asks for is a timer.
LEMMA RequestedType ==
    ASSUME TypeOK, NEW i \in Timers
    PROVE  Requested(i) \in Event(Timers) /\ Requested(i).info = i
<1>1. Request[i] \in RequestType /\ safety \in Int
  BY ConstantsAssumption DEF TypeOK
<1> DEFINE m == IF Request[i].type = "RECORD" /\ Request[i].safety THEN safety ELSE 0
<1>2. m \in Int
  BY <1>1
<1>3. /\ Request[i].announce - m \in Int /\ Request[i].alarm - m \in Int
      /\ (IF Request[i].type = "RECORD" THEN Request[i].stop + m ELSE 0) \in Int
  BY <1>1, <1>2 DEF RequestType
<1>4. (IF Request[i].immediate THEN "ISRUNNING" ELSE "SCHEDULED") \in States
  BY DEF States
<1> QED BY <1>1, <1>3, <1>4 DEF Requested, Event, RequestType

\* What modifyEvent makes of a timer.
Modified(e, c) ==
    [e EXCEPT !.announce = c.announce, !.alarm = c.alarm, !.stop = c.stop, !.count = c.count,
              !.repeat = Repetition(c.repeat),
              !.state = IF @ = "PREANNOUNCE" THEN "SCHEDULED" ELSE @]

\* A command under the mutex changes a timer, not what it is about.
LEMMA ChangesKeepInfo ==
    ASSUME TypeOK, NEW id \in DOMAIN events,
           \/ RemoveTimer(id) \/ StopTimer(id) \/ SetAPid(id)
           \/ \E c \in Changes : ModifyTimer(id, c)
           \/ \E d \in Diffs : RescheduleTimer(id, d)
    PROVE  Infos(events') = Infos(events)
<1>1. events[id] \in Event(Timers)
  BY DEF TypeOK, IsList
<1>2. ASSUME NEW e, events' = [events EXCEPT ![id] = e], e.info = events[id].info
      PROVE  /\ DOMAIN events' = DOMAIN events /\ events'[id].info = events[id].info
             /\ \A j \in DOMAIN events \ {id} : events'[j] = events[j]
  BY <1>2
<1>3. /\ DOMAIN events' = DOMAIN events /\ events'[id].info = events[id].info
      /\ \A j \in DOMAIN events \ {id} : events'[j] = events[j]
  <2>1. CASE RemoveTimer(id)
    <3>1. events' = [events EXCEPT ![id] = [events[id] EXCEPT !.state = "TERMINATED"]]
      BY <2>1 DEF RemoveTimer
    <3>2. [events[id] EXCEPT !.state = "TERMINATED"].info = events[id].info
      BY <1>1 DEF Event
    <3> QED BY <1>2, <3>1, <3>2
  <2>2. CASE StopTimer(id)
    <3>1. events' = [events EXCEPT ![id] = [events[id] EXCEPT !.state = "HASFINISHED"]]
      BY <2>2 DEF StopTimer
    <3>2. [events[id] EXCEPT !.state = "HASFINISHED"].info = events[id].info
      BY <1>1 DEF Event
    <3> QED BY <1>2, <3>1, <3>2
  <2>3. CASE SetAPid(id)
    <3>1. events' = [events EXCEPT ![id] = [events[id] EXCEPT !.apids = TRUE]]
      BY <2>3 DEF SetAPid
    <3>2. [events[id] EXCEPT !.apids = TRUE].info = events[id].info
      BY <1>1 DEF Event
    <3> QED BY <1>2, <3>1, <3>2
  <2>4. ASSUME NEW c \in Changes, ModifyTimer(id, c)
        PROVE  /\ DOMAIN events' = DOMAIN events /\ events'[id].info = events[id].info
               /\ \A j \in DOMAIN events \ {id} : events'[j] = events[j]
    <3> DEFINE e == Modified(events[id], c)
    <3>1. events' = [events EXCEPT ![id] = e]
      BY <2>4 DEF ModifyTimer, Modified
    <3>2. e.info = events[id].info
      BY <1>1 DEF Event, Modified
    <3> QED BY <1>2, <3>1, <3>2
  <2>5. ASSUME NEW d \in Diffs, RescheduleTimer(id, d)
        PROVE  /\ DOMAIN events' = DOMAIN events /\ events'[id].info = events[id].info
               /\ \A j \in DOMAIN events \ {id} : events'[j] = events[j]
    <3> DEFINE e == [events[id] EXCEPT !.announce = Shifted(@, d), !.alarm = Shifted(@, d),
                       !.stop = Shifted(@, d), !.state = "SCHEDULED"]
    <3>1. events' = [events EXCEPT ![id] = e]
      BY <2>5 DEF RescheduleTimer
    <3>2. e.info = events[id].info
      BY <1>1 DEF Event
    <3> QED BY <1>2, <3>1, <3>2
  <2> QED BY <2>1, <2>2, <2>3, <2>4, <2>5
<1>4. \A j \in DOMAIN events : events'[j].info = events[j].info
  BY <1>3
<1> QED BY <1>3, <1>4 DEF Infos

\* No step but a restart forgets a timer.
LEMMA KnownKept ==
    ASSUME TypeOK, Next, ~PowerFailure, ~ColdStart, ~TimeIsSet
    PROVE  Known \subseteq Known'
<1> USE DEF lists, history
<1>1. CASE UNCHANGED <<events, toLoad, life>>
  BY <1>1 DEF Known, Infos, Over
<1>2. CASE LoadEvent
  <2>1. PICK i \in DOMAIN toLoad :
          /\ toLoad' = Without(toLoad, i)
          /\ \/ /\ life' = [life EXCEPT ![toLoad[i].info] = IF @ = "removed" THEN @ ELSE "ended"]
                /\ UNCHANGED lists
             \/ Insert(Restored(toLoad[i], now)) /\ UNCHANGED life
    BY <1>2 DEF LoadEvent
  <2>2. IsList(toLoad) /\ i \in Nat /\ toLoad[i] \in Event(Timers)
    BY <2>1 DEF TypeOK, IsList
  <2>3. Infos(toLoad) \subseteq Infos(toLoad') \cup {toLoad[i].info}
    BY <2>1, InfoRemoved
  <2>4. CASE UNCHANGED events /\ life' = [life EXCEPT ![toLoad[i].info] = IF @ = "removed" THEN @ ELSE "ended"]
    <3>1. Over \subseteq Over' /\ toLoad[i].info \in Over'
      BY <2>2, <2>4 DEF Over, TypeOK, Event
    <3> QED BY <2>3, <2>4, <3>1 DEF Known
  <2>5. CASE Insert(Restored(toLoad[i], now)) /\ UNCHANGED life
    <3>1. Restored(toLoad[i], now) \in Event(Timers) /\ Restored(toLoad[i], now).info = toLoad[i].info
      BY <2>2, UpdateType DEF Restored, States, Event
    <3>2. Infos(events') = Infos(events) \cup {toLoad[i].info} /\ Over' = Over
      BY <2>5, <3>1, Inserted DEF Over
    <3> QED BY <2>3, <3>2 DEF Known
  <2> QED BY <2>1, <2>4, <2>5
<1>3. CASE CheckEvent
  <2>1. cursor \in DOMAIN events /\ cursor \in Nat /\ events[cursor] \in Event(Timers) /\ IsList(events)
    BY <1>3 DEF CheckEvent, TypeOK, IsList
  <2>2. /\ UNCHANGED toLoad
        /\ \/ events' = [events EXCEPT ![cursor] = Iteration(events[cursor])] /\ UNCHANGED life
           \/ /\ events' = Without(events, cursor)
              /\ life' = [life EXCEPT ![events[cursor].info] = IF @ = "removed" THEN @ ELSE "ended"]
    BY <1>3 DEF CheckEvent, Iteration
  <2>3. CASE events' = [events EXCEPT ![cursor] = Iteration(events[cursor])] /\ UNCHANGED life
    <3>1. Infos(events') = Infos(events)
      BY <2>1, <2>3, IterationKeepsInfo, ChangedTimer
    <3> QED BY <2>2, <2>3, <3>1 DEF Known, Over
  <2>4. CASE /\ events' = Without(events, cursor)
             /\ life' = [life EXCEPT ![events[cursor].info] = IF @ = "removed" THEN @ ELSE "ended"]
    <3>1. Infos(events) \subseteq Infos(events') \cup {events[cursor].info}
      BY <2>1, <2>4, InfoRemoved
    <3>2. Over \subseteq Over' /\ events[cursor].info \in Over'
      BY <2>1, <2>4 DEF Over, TypeOK, Event
    <3> QED BY <2>2, <3>1, <3>2 DEF Known
  <2> QED BY <2>2, <2>3, <2>4
<1>4. ASSUME NEW i \in Timers, AddTimer(i) PROVE Known \subseteq Known'
  <2>1. Requested(i) \in Event(Timers)
    BY RequestedType
  <2>2. Infos(events) \subseteq Infos(events')
    BY <1>4, <2>1, Inserted DEF AddTimer
  <2>3. Over \subseteq Over' /\ UNCHANGED toLoad
    BY <1>4 DEF AddTimer, ListCommand, locals, Over, TypeOK
  <2> QED BY <2>2, <2>3 DEF Known
<1>5. ASSUME NEW id \in DOMAIN events,
             \/ RemoveTimer(id) \/ StopTimer(id) \/ SetAPid(id)
             \/ \E c \in Changes : ModifyTimer(id, c)
             \/ \E d \in Diffs : RescheduleTimer(id, d)
      PROVE  Known \subseteq Known'
  <2>1. events[id] \in Event(Timers)
    BY DEF TypeOK, IsList
  <2>2. Infos(events') = Infos(events)
    BY <1>5, ChangesKeepInfo
  <2>3. Over \subseteq Over' /\ UNCHANGED toLoad
    BY <1>5, <2>1 DEF RemoveTimer, StopTimer, SetAPid, ModifyTimer, RescheduleTimer, ListCommand, locals,
                Over, TypeOK, Event
  <2> QED BY <2>2, <2>3 DEF Known
<1>7. CASE HangInReschedule
  <2>1. cursor \in DOMAIN events /\ events[cursor] \in Event(Timers)
    BY <1>7 DEF HangInReschedule, TypeOK, IsList
  <2>2. UNCHANGED <<toLoad, life>> /\ events' = [events EXCEPT ![cursor] = Unsettled(events[cursor])]
    BY <1>7 DEF HangInReschedule, Unsettled, locals
  <2>3. Infos(events') = Infos(events)
    BY <2>1, <2>2, IterationKeepsInfo, ChangedTimer
  <2> QED BY <2>2, <2>3 DEF Known, Over
<1>6. \/ UNCHANGED <<events, toLoad, life>> \/ LoadEvent \/ CheckEvent \/ HangInReschedule
      \/ \E i \in Timers : AddTimer(i)
      \/ \E id \in DOMAIN events :
            \/ RemoveTimer(id) \/ StopTimer(id) \/ SetAPid(id)
            \/ \E c \in Changes : ModifyTimer(id, c)
            \/ \E d \in Diffs : RescheduleTimer(id, d)
  BY DEF Next, TimerThread, ServerSteps, Commands, LoadDone, BeginPass, EndPass, TestSave, Save,
         Collect, WriteFile, ClearFlag, SetSafetyFlag, Join, SetSafetyTimes, Shutdown, Tick, SetTime,
         locals
<1> QED BY <1>1, <1>2, <1>3, <1>4, <1>5, <1>6, <1>7

-----------------------------------------------------------------------------
(* Stored timers survive. *)

LEMMA PhasesKept == ASSUME TypeOK, Phases, Next PROVE Phases'
<1>1. CASE PowerFailure \/ ColdStart
  BY <1>1, Restarted DEF Phases
<1>2. CASE ~PowerFailure /\ ~ColdStart
  <2>1. pc'["timer"] # "load" => DOMAIN toLoad' = {}
    <3>1. TimeIsSet => pc'["timer"] = "load"
      BY DEF TimeIsSet, At, TypeOK
    <3>2. LoadEvent => pc'["timer"] = "load"
      BY DEF LoadEvent
    <3>3. LoadDone => DOMAIN toLoad = {}
      BY DEF LoadDone
    <3> QED BY <1>2, <3>1, <3>2, <3>3, Moves DEF Phases
  <2>2. Join => pc'["timer"] = "gone"
    BY DEF Join, TypeOK
  <2>3. pc'["server"] \in {"collect", "write", "clear"} => pc'["timer"] = "gone"
    BY <1>2, <2>2, Moves DEF Phases
  <2> QED BY <2>1, <2>3 DEF Phases
<1> QED BY <1>1, <1>2

LEMMA KeptKept ==
    ASSUME SurvivalInv, Kept, MCNext, "tear" \notin trouble', "early" \notin trouble'
    PROVE  Kept'
<1>1. Next /\ TypeOK /\ disk' \in {disk, buf}
  BY Troubles DEF SurvivalInv
<1>2. CASE PowerFailure \/ ColdStart
  BY <1>2, Restarted DEF Kept
<1>3. CASE TimeIsSet
  BY <1>3 DEF TimeIsSet, At, TypeOK, Kept, Known, Stored, Infos
<1>4. CASE ~PowerFailure /\ ~ColdStart /\ ~TimeIsSet
  <2>1. isTimeSet' = isTimeSet
    BY <1>1, <1>4, Moves
  <2>2. pc["timer"] = "wait" => pc'["timer"] = "wait"
    <3>1. Join => pc["server"] = "join" /\ pc'["timer"] = "gone"
      BY <1>1 DEF Join, TypeOK
    <3>2. ~(pc["server"] = "join" /\ pc["timer"] = "wait" /\ pc'["timer"] = "gone")
      BY Troubles
    <3> QED BY <1>1, <1>4, <3>1, <3>2, Moves
  <2>3. Known \subseteq Known'
    BY <1>1, <1>4, KnownKept
  <2>4. disk' = disk \/ Stored(disk') \subseteq Known
    BY <1>1, FileChanges DEF Known, Stored, Infos
  <2>5. isTimeSet => Stored(disk') \subseteq Known'
    BY <2>3, <2>4 DEF Kept
  <2>6. Stored(disk)' = Stored(disk')
    BY DEF Stored
  <2> QED BY <2>1, <2>2, <2>5, <2>6 DEF Kept
<1> QED BY <1>2, <1>3, <1>4

LEMMA Survival == MCSpec => []SurvivalInv
<1>1. MCInit => SurvivalInv
  <2> SUFFICES ASSUME MCInit PROVE SurvivalInv
    OBVIOUS
  <2>1. Init
    BY DEF MCInit
  <2>2. Phases /\ Kept
    <3>1. pc["timer"] = "wait" /\ pc["server"] = "idle" /\ isTimeSet = FALSE /\ DOMAIN toLoad = {}
      BY <2>1 DEF Init, EmptyList
    <3> QED BY <3>1 DEF Phases, Kept
  <2> QED BY <2>1, <2>2, TypeInit, SaveInit DEF SurvivalInv
<1>2. SurvivalInv /\ [MCNext]_mcvars => SurvivalInv'
  <2>1. ASSUME SurvivalInv, MCNext PROVE SurvivalInv'
    <3>1. Next /\ trouble \subseteq trouble'
      BY <2>1, Troubles
    <3>2. TypeOK' /\ SaveInv' /\ Phases'
      BY <2>1, <3>1, TypeNext, SaveNext, PhasesKept DEF SurvivalInv
    <3>3. ASSUME trouble' \cap {"tear", "early"} = {} PROVE Kept'
      <4>1. trouble \cap {"tear", "early"} = {} /\ "tear" \notin trouble' /\ "early" \notin trouble'
        BY <3>1, <3>3
      <4> QED BY <2>1, <4>1, KeptKept DEF SurvivalInv
    <3> QED BY <3>2, <3>3 DEF SurvivalInv
  <2>2. ASSUME SurvivalInv, UNCHANGED mcvars PROVE SurvivalInv'
    <3>1. UNCHANGED vars /\ UNCHANGED trouble
      BY <2>2 DEF mcvars
    <3>2. TypeOK' /\ SaveInv'
      BY <2>2, <3>1, TypeNext, SaveNext DEF SurvivalInv
    <3>3. Phases' /\ (Kept => Kept')
      BY <2>2, <3>1 DEF vars, lists, locals, history, SurvivalInv, Phases, Kept, Known, Stored, Infos, Over
    <3> QED BY <2>2, <3>1, <3>2, <3>3 DEF SurvivalInv
  <2> QED BY <2>1, <2>2
<1> QED BY <1>1, <1>2, PTL DEF MCSpec, mcvars

\* What a step takes out of the file is over.
LEMMA OnlyOverIsForgotten ==
    ASSUME SurvivalInv, MCNext, trouble' \cap {"tear", "early"} = {}, NEW i \in Stored(disk) \ Stored(disk')
    PROVE  life[i] \in {"removed", "ended"}
<1>1. Next /\ disk' \in {disk, buf} /\ trouble \cap {"tear", "early"} = {}
  BY Troubles
<1>2. Writing /\ disk'.timers = events
  BY <1>1, FileChanges
<1>3. Kept /\ Phases
  BY <1>1 DEF SurvivalInv
<1>4. pc["timer"] \in {"write", "gone"}
  BY <1>2, <1>3 DEF Writing, Phases, Threads
<1>5. isTimeSet /\ DOMAIN toLoad = {}
  BY <1>3, <1>4 DEF Kept, Phases
<1>6. i \in Known /\ i \notin Infos(events) /\ i \notin Infos(toLoad)
  BY <1>2, <1>3, <1>5 DEF Kept, Stored, Infos
<1> QED BY <1>6 DEF Known, Over

\* A timer that was stored stays stored until it was removed or is over, whatever commands, passes,
\* saves, power failures, shutdowns and restarts come in whatever order: the file is rewritten
\* only from a list into which all of it was loaded (timermanager.cpp:409-615, :633-658),
\* unless a save is cut off or a shutdown comes before the file was read.
THEOREM TimersSurvive == MCSpec => IntactTimersSurvive
<1>1. ASSUME SurvivalInv, [MCNext]_mcvars
      PROVE  [\/ trouble' \cap {"tear", "early"} # {}
              \/ \A i \in Stored(disk) \ Stored(disk') : life[i] \in {"removed", "ended"}]_vars
  <2>1. CASE MCNext
    BY <1>1, <2>1, OnlyOverIsForgotten
  <2>2. CASE UNCHANGED mcvars
    BY <2>2 DEF mcvars
  <2> QED BY <1>1, <2>1, <2>2
<1> QED BY <1>1, Survival, PTL DEF MCSpec, mcvars, IntactTimersSurvive

-----------------------------------------------------------------------------
(* Recordings have an owner. *)

\* Each recording of a list has a time at which it stops.
Stops(e)    == e.type = "RECORD" => e.stop > 0
AllStop(list) == \A id \in DOMAIN list : Stops(list[id])

SafetyTimes == safety >= 0 /\ buf.safety >= 0 /\ disk.safety >= 0

\* A timer that records until it is told to stop.
Owns(e, i) == e.info = i /\ e.type = "RECORD" /\ e.state = "ISRUNNING" /\ e.stop > 0
Owners     == \A i \in recording : \E id \in DOMAIN events : Owns(events[id], i)

Owned == AllStop(events) /\ AllStop(toLoad) /\ AllStop(buf.timers) /\ AllStop(disk.timers) /\ Owners

OwnerInv == TypeOK /\ SafetyTimes /\ (trouble \cap {"tear", "reschedule"} = {} => Owned)

-----------------------------------------------------------------------------
\* A repetition is never before the time it repeats.
LEMMA AdvanceIsForward ==
    ASSUME NEW S, NEW e \in Event(S), NEW t \in Int PROVE Advance(e, t) \in Nat
<1>1. CASE e.alarm > t
  BY <1>1 DEF Advance
<1>2. CASE ~(e.alarm > t)
  <2> DEFINE x == t - e.alarm
             q == x \div Day
  <2>1. x \in Nat /\ Day \in Nat /\ Day > 0
    BY <1>2, DayAssumption DEF Event
  <2> HIDE DEF x
  <2>2. q \in Nat
    BY <2>1
  <2> HIDE DEF q
  <2>3. (q + 1) * Day \in Nat
    BY <2>1, <2>2
  <2> QED BY <1>2, <2>3 DEF Advance, x, q
<1> QED BY <1>1, <1>2

\* An iteration of the loop lets go of a recording only when it tells clients to stop it.
LEMMA IterationOwns ==
    ASSUME TypeOK, NEW e \in Event(Timers), Stops(e)
    PROVE  /\ Stops(Iteration(e)) /\ Stops(Unsettled(e))
           /\ /\ e.type = "RECORD"
              /\ ~MustStop(Fired(Announced(e, passNow), passNow), passNow)
              /\ MustFire(Announced(e, passNow), passNow) \/ e.state = "ISRUNNING"
              => Owns(Iteration(e), e.info) /\ Owns(Unsettled(e), e.info)
<1> DEFINE a == Announced(e, passNow)
           f == Fired(a, passNow)
           s == Stopped(f, passNow)
<1>1. passNow \in Int /\ now \in Int
  BY DEF TypeOK
<1>2. /\ a \in Event(Timers) /\ a.info = e.info /\ a.type = e.type /\ a.stop = e.stop
      /\ e.state = "ISRUNNING" => a.state = "ISRUNNING"
  BY <1>1, IterationType DEF Announced, MustAnnounce, Event
<1> HIDE DEF a
<1>3. /\ f \in Event(Timers) /\ f.info = e.info /\ f.type = e.type /\ f.stop = e.stop
      /\ MustFire(a, passNow) \/ a.state = "ISRUNNING" => f.state = "ISRUNNING" \/ f.stop = 0
  <2>1. f \in Event(Timers) /\ f.info = a.info
    BY <1>1, <1>2, IterationType
  <2>2. /\ f.type = a.type /\ f.stop = a.stop
        /\ MustFire(a, passNow) \/ a.state = "ISRUNNING" => f.state = "ISRUNNING" \/ f.stop = 0
    BY <1>2 DEF Fired, MustFire, Event
  <2> QED BY <1>2, <2>1, <2>2
<1> HIDE DEF f
<1>4. /\ s \in Event(Timers) /\ s.info = e.info /\ s.type = e.type /\ s.stop = e.stop
      /\ ~MustStop(f, passNow) => s = f
  <2>1. s \in Event(Timers) /\ s.info = f.info
    BY <1>1, <1>3, IterationType
  <2>2. s.type = f.type /\ s.stop = f.stop /\ (~MustStop(f, passNow) => s = f)
    BY <1>3 DEF Stopped, Event
  <2> QED BY <1>3, <2>1, <2>2
<1> HIDE DEF s
<1>5. Iteration(e) = Settled(s, now) /\ Unsettled(e) = s
  BY DEF Iteration, Unsettled, s, f, a
<1>6. Stops(Settled(s, now)) /\ Stops(s)
  <2>1. Stops(s)
    BY <1>4 DEF Stops
  <2>2. CASE ~MustReschedule(s)
    BY <1>4, <2>1, <2>2 DEF Settled, Stops, Event
  <2>3. CASE MustReschedule(s) /\ s.repeat = "ONCE"
    BY <2>3 DEF MustReschedule
  <2>4. CASE MustReschedule(s) /\ s.repeat # "ONCE"
    <3>1. Advance(s, now) \in Nat
      BY <1>1, <1>4, AdvanceIsForward
    <3>2. Settled(s, now).type = s.type /\ Settled(s, now).stop = Shifted(s.stop, Advance(s, now))
      BY <1>4, <2>4 DEF Settled, Reschedule, Event
    <3>3. s.stop \in Int
      BY <1>4 DEF Event
    <3>4. s.stop > 0 => Shifted(s.stop, Advance(s, now)) > 0
      BY <3>1, <3>3 DEF Shifted
    <3> QED BY <2>1, <3>2, <3>4 DEF Stops
  <2> QED BY <2>1, <2>2, <2>3, <2>4
<1>7. ASSUME e.type = "RECORD", ~MustStop(f, passNow),
             MustFire(a, passNow) \/ e.state = "ISRUNNING"
      PROVE  Owns(Settled(s, now), e.info) /\ Owns(s, e.info)
  <2>1. e.stop > 0 /\ e.stop \in Int
    BY <1>7 DEF Stops, Event
  <2>2. f.state = "ISRUNNING"
    BY <1>2, <1>3, <1>7, <2>1
  <2>3. s.state = "ISRUNNING" /\ Settled(s, now) = s
    BY <1>4, <1>7, <2>2 DEF Settled, MustReschedule
  <2> QED BY <1>4, <1>7, <2>1, <2>3 DEF Owns
<1> QED BY <1>5, <1>6, <1>7 DEF a, f

\* The same for the list.
LEMMA ListsStop ==
    ASSUME NEW f, AllStop(f), NEW i, NEW e, Stops(e)
    PROVE  /\ AllStop(With(f, i, e)) /\ AllStop(Without(f, i)) /\ AllStop([f EXCEPT ![i] = e])
<1>1. AllStop(With(f, i, e))
  BY DEF AllStop, With
<1>2. AllStop(Without(f, i))
  BY DEF AllStop, Without
<1>3. AllStop([f EXCEPT ![i] = e])
  BY DEF AllStop
<1> QED BY <1>1, <1>2, <1>3

\* A change of one timer takes its recording away, or leaves it one who stops it.
LEMMA OwnersKept ==
    ASSUME Owners, NEW id \in DOMAIN events,
           \A j \in DOMAIN events \ {id} : j \in DOMAIN events' /\ events'[j] = events[j],
           \A i \in recording' \ recording : id \in DOMAIN events' /\ Owns(events'[id], i),
           \A i \in recording' : Owns(events[id], i) => id \in DOMAIN events' /\ Owns(events'[id], i)
    PROVE  Owners'
<1> SUFFICES ASSUME NEW i \in recording' PROVE \E j \in DOMAIN events' : Owns(events'[j], i)
  BY DEF Owners
<1>1. CASE i \in recording
  <2>1. PICK j \in DOMAIN events : Owns(events[j], i)
    BY <1>1 DEF Owners
  <2>2. CASE j = id
    BY <2>1, <2>2
  <2>3. CASE j # id
    BY <2>1, <2>3
  <2> QED BY <2>2, <2>3
<1>2. CASE i \notin recording
  BY <1>2
<1> QED BY <1>1, <1>2

-----------------------------------------------------------------------------
\* What changes the list, what is saved of it, and the safety times.
LEMMA Changing ==
    ASSUME Next, ~PowerFailure, ~ColdStart
    PROVE  /\ \/ UNCHANGED <<events, recording>> \/ LoadEvent \/ CheckEvent \/ HangInReschedule
              \/ ListChanges
           /\ toLoad' = toLoad \/ TimeIsSet \/ LoadEvent
           /\ buf' = buf \/ buf' = [exists |-> TRUE, timers |-> events, safety |-> safety]
           /\ disk' \in {disk, buf} \cup Torn(buf)
           /\ safety' \in {safety} \cup Margins
<1> USE DEF lists, locals, history, bounds
<1>1. CASE TimeIsSet
  BY <1>1 DEF TimeIsSet
<1>2. CASE LoadEvent
  BY <1>2 DEF LoadEvent
<1>3. CASE LoadDone \/ BeginPass \/ EndPass \/ TestSave
  BY <1>3 DEF LoadDone, BeginPass, EndPass, TestSave
<1>4. CASE CheckEvent \/ HangInReschedule
  BY <1>4 DEF CheckEvent, HangInReschedule
<1>5. ASSUME NEW self \in Threads, Collect(self)
      PROVE  /\ UNCHANGED <<events, recording, toLoad, disk, safety>>
             /\ buf' = [exists |-> TRUE, timers |-> events, safety |-> safety]
  BY <1>5 DEF Collect
<1>6. ASSUME NEW self \in Threads, WriteFile(self) \/ ClearFlag(self)
      PROVE  UNCHANGED <<events, recording, toLoad, buf, safety>> /\ disk' \in {disk, buf}
  BY <1>6 DEF WriteFile, ClearFlag
<1>7. CASE SetSafetyFlag \/ Shutdown \/ Tick \/ SetTime
  BY <1>7 DEF SetSafetyFlag, Shutdown, Command, Tick, SetTime
<1>8. ASSUME NEW m \in Margins, SetSafetyTimes(m)
      PROVE  UNCHANGED <<events, recording, toLoad, buf, disk>> /\ safety' \in Margins
  BY <1>8 DEF SetSafetyTimes, Command
<1>9. CASE Join
  BY <1>9 DEF Join
<1>10. CASE ListChanges
  BY <1>10, ListChangesOnly
<1> QED BY <1>1, <1>2, <1>3, <1>4, <1>5, <1>6, <1>7, <1>8, <1>9, <1>10, Steps

LEMMA SafetyOfTorn == ASSUME NEW d \in Torn(buf) PROVE d.safety = 0 \/ d.safety = buf.safety
  BY DEF Torn

LEMMA SafetyKept ==
    ASSUME TypeOK, SafetyTimes, Next PROVE SafetyTimes'
<1>0. ASSUME NEW m \in Margins PROVE m >= 0
  BY StopTimesAssumption DEF StopTimesGiven
<1>1. CASE PowerFailure \/ ColdStart
  <2>1. PICK d : /\ d \in {disk} \cup (IF Writing THEN Torn(buf) ELSE {}) /\ Restart(d)
    BY <1>1, Restarts
  <2>2. d.safety >= 0
    BY <2>1, SafetyOfTorn DEF SafetyTimes
  <2>3. disk' = d /\ buf' = NoFile /\ (safety' = d.safety \/ safety' \in Margins)
    BY <2>1 DEF Restart
  <2>4. safety' >= 0
    BY <1>0, <2>2, <2>3
  <2>5. buf'.safety = 0
    BY <2>3 DEF NoFile
  <2> QED BY <2>2, <2>3, <2>4, <2>5 DEF SafetyTimes
<1>2. CASE ~PowerFailure /\ ~ColdStart
  <2>1. safety' >= 0
    <3>1. safety' = safety \/ safety' \in Margins
      BY <1>2, Changing
    <3> QED BY <1>0, <3>1 DEF SafetyTimes
  <2>2. buf'.safety >= 0
    BY <1>2, Changing DEF SafetyTimes
  <2>3. disk'.safety >= 0
    BY <1>2, Changing, SafetyOfTorn DEF SafetyTimes
  <2> QED BY <2>1, <2>2, <2>3 DEF SafetyTimes
<1> QED BY <1>1, <1>2

\* A change of a timer that is not the end of its recording.
LEMMA ChangedOwner ==
    ASSUME Owned, NEW id \in DOMAIN events, NEW e, Stops(e), events' = [events EXCEPT ![id] = e],
           recording' \subseteq recording,
           Owns(events[id], events[id].info) =>
              events[id].info \notin recording' \/ Owns(e, events[id].info)
    PROVE  AllStop(events') /\ Owners'
<1>1. AllStop(events')
  BY ListsStop DEF Owned
<1>2. /\ DOMAIN events' = DOMAIN events /\ events'[id] = e
      /\ \A j \in DOMAIN events \ {id} : events'[j] = events[j]
  OBVIOUS
<1>3. \A i \in recording' : Owns(events[id], i) => Owns(events'[id], i)
  BY <1>2 DEF Owns
<1>4. Owners'
  BY <1>2, <1>3, OwnersKept DEF Owned
<1> QED BY <1>1, <1>4

LEMMA CommandsOwn ==
    ASSUME TypeOK, SafetyTimes, Owned, ListChanges,
           \A id \in DOMAIN events, d \in Diffs : ~RescheduleTimer(id, d)
    PROVE  AllStop(events') /\ Owners'
<1>1. ASSUME NEW i \in Timers, AddTimer(i) PROVE AllStop(events') /\ Owners'
  <2> DEFINE n == eventID + 1
             e == [Requested(i) EXCEPT !.repeat = Repetition(@)]
  <2>1. Requested(i) \in Event(Timers) /\ Request[i] \in RequestType /\ safety \in Int /\ safety >= 0
    BY RequestedType, ConstantsAssumption DEF TypeOK, SafetyTimes
  <2>2. e.info = i /\ e.type = Request[i].type /\ e.state = Requested(i).state /\ e.stop = Requested(i).stop
    BY <2>1, RequestedType DEF Event, Requested
  <2>3. Request[i].type = "RECORD" => Requested(i).stop > 0
    <3>1. ASSUME Request[i].type = "RECORD" PROVE Request[i].stop > 0 /\ Request[i].stop \in Int
      BY <2>1, <3>1, StopTimesAssumption DEF StopTimesGiven, RequestType
    <3> QED BY <2>1, <3>1 DEF Requested
  <2>4. Stops(e)
    BY <2>2, <2>3 DEF Stops
  <2>5. /\ events' = With(events, n, e)
        /\ recording' = recording \cup (IF Request[i].immediate THEN {i} ELSE {})
    BY <1>1 DEF AddTimer, Insert
  <2>6. n \notin DOMAIN events
    BY DEF TypeOK
  <2>7. Request[i].immediate => Owns(e, i)
    <3> SUFFICES ASSUME Request[i].immediate PROVE Owns(e, i)
      OBVIOUS
    <3>1. Request[i].type = "RECORD" /\ Requested(i).state = "ISRUNNING"
      BY StopTimesAssumption DEF StopTimesGiven, Requested
    <3> QED BY <2>2, <2>3, <3>1 DEF Owns
  <2> HIDE DEF e, n
  <2>8. AllStop(events')
    BY <2>4, <2>5, ListsStop DEF Owned
  <2>9. /\ DOMAIN events' = DOMAIN events \cup {n} /\ events'[n] = e
        /\ \A j \in DOMAIN events : events'[j] = events[j]
    BY <2>5, <2>6 DEF With
  <2>10. Owners'
    BY <2>5, <2>7, <2>9 DEF Owned, Owners
  <2> QED BY <2>8, <2>10
<1> SUFFICES ASSUME NEW id \in DOMAIN events,
                    \/ RemoveTimer(id) \/ StopTimer(id) \/ SetAPid(id)
                    \/ \E c \in Changes : ModifyTimer(id, c)
             PROVE  AllStop(events') /\ Owners'
  BY <1>1 DEF ListChanges
<1> DEFINE e == events[id]
<1>2. e \in Event(Timers) /\ Stops(e)
  BY DEF TypeOK, IsList, Owned, AllStop
<1>3. ASSUME NEW s, StopIfRunning(e), events' = [events EXCEPT ![id] = [e EXCEPT !.state = s]]
      PROVE  AllStop(events') /\ Owners'
  <2>1. Stops([e EXCEPT !.state = s])
    BY <1>2 DEF Stops, Event
  <2>2. recording' \subseteq recording /\ (Owns(e, e.info) => e.info \notin recording')
    BY <1>3 DEF StopIfRunning, Owns
  <2> QED BY <1>3, <2>1, <2>2, ChangedOwner
<1>4. CASE RemoveTimer(id)
  BY <1>3, <1>4 DEF RemoveTimer
<1>5. CASE StopTimer(id)
  BY <1>3, <1>5 DEF StopTimer
<1>6. CASE SetAPid(id)
  <2> DEFINE r == [e EXCEPT !.apids = TRUE]
  <2>1. events' = [events EXCEPT ![id] = r] /\ recording' = recording
    BY <1>6 DEF SetAPid
  <2>2. Stops(r) /\ (Owns(e, e.info) => Owns(r, e.info))
    BY <1>2 DEF Stops, Owns, Event
  <2> HIDE DEF r
  <2> QED BY <2>1, <2>2, ChangedOwner
<1>7. ASSUME NEW c \in Changes, ModifyTimer(id, c) PROVE AllStop(events') /\ Owners'
  <2> DEFINE r == Modified(e, c)
  <2>0. events' = [events EXCEPT ![id] = Modified(events[id], c)]
    BY <1>7 DEF ModifyTimer, Modified
  <2>1. events' = [events EXCEPT ![id] = r] /\ recording' = recording
    BY <1>7, <2>0 DEF ModifyTimer
  <2>2. r.type = e.type /\ r.info = e.info /\ r.stop = c.stop /\ c.stop > 0
    BY <1>2, StopTimesAssumption DEF Modified, Event, StopTimesGiven
  <2>3. e.state = "ISRUNNING" => r.state = "ISRUNNING"
    BY <1>2 DEF Modified, Event
  <2>4. Stops(r) /\ (Owns(e, e.info) => Owns(r, e.info))
    BY <2>2, <2>3 DEF Stops, Owns
  <2> HIDE DEF r
  <2> QED BY <2>1, <2>4, ChangedOwner
<1> QED BY <1>4, <1>5, <1>6, <1>7

\* One iteration of the loop.
LEMMA IterationKeepsOwners ==
    ASSUME TypeOK, Owned, CheckEvent \/ HangInReschedule
    PROVE  AllStop(events') /\ Owners'
<1> DEFINE e == events[cursor]
           stops == MustStop(Fired(Announced(e, passNow), passNow), passNow)
           fires == MustFire(Announced(e, passNow), passNow)
<1>1. cursor \in DOMAIN events /\ e \in Event(Timers) /\ Stops(e)
  BY DEF CheckEvent, HangInReschedule, TypeOK, IsList, Owned, AllStop
<1>2. PICK r \in {Iteration(e), Unsettled(e)} :
        /\ Notify(e, fires, stops)
        /\ \/ events' = [events EXCEPT ![cursor] = r]
           \/ r.state = "TERMINATED" /\ events' = Without(events, cursor)
  <2>1. CASE CheckEvent
    BY <2>1 DEF CheckEvent, Iteration
  <2>2. CASE HangInReschedule
    BY <2>2 DEF HangInReschedule, Unsettled
  <2> QED BY <2>1, <2>2
<1>3. /\ Stops(r)
      /\ e.type = "RECORD" /\ ~stops /\ (fires \/ e.state = "ISRUNNING") => Owns(r, e.info)
  BY <1>1, IterationOwns
<1>4. AllStop(events')
  <2>1. AllStop(events)
    BY DEF Owned
  <2>2. AllStop(Without(events, cursor)) /\ AllStop([events EXCEPT ![cursor] = r])
    BY <1>3, <2>1, ListsStop
  <2> QED BY <1>2, <2>2
<1> HIDE DEF fires, stops
<1>5. \A i \in recording' \ recording : i = e.info /\ e.type = "RECORD" /\ ~stops /\ fires
  BY <1>2 DEF Notify
<1>6. \A i \in recording' : Owns(e, i) => i = e.info /\ e.type = "RECORD" /\ ~stops
  BY <1>2 DEF Notify, Owns
<1> HIDE DEF e
<1>7. \A i \in recording' : i \notin recording \/ Owns(e, i) => Owns(r, i)
  BY <1>3, <1>5, <1>6 DEF Owns
<1>8. \A j \in DOMAIN events \ {cursor} : j \in DOMAIN events' /\ events'[j] = events[j]
  BY <1>2 DEF Without
<1>9. \A i \in recording' : i \notin recording \/ Owns(e, i) =>
         cursor \in DOMAIN events' /\ Owns(events'[cursor], i)
  <2> SUFFICES ASSUME NEW i \in recording', i \notin recording \/ Owns(e, i)
               PROVE  cursor \in DOMAIN events' /\ Owns(events'[cursor], i)
    OBVIOUS
  <2>1. Owns(r, i)
    BY <1>7
  <2>2. r.state # "TERMINATED"
    BY <2>1 DEF Owns
  <2>3. events' = [events EXCEPT ![cursor] = r]
    BY <1>2, <2>2
  <2> QED BY <1>1, <2>1, <2>3
<1>10. Owners
  BY DEF Owned
<1> QED BY <1>1, <1>4, <1>8, <1>9, <1>10, OwnersKept DEF e

\* A timer that is restored belongs to no recording yet.
LEMMA LoadKeepsOwners ==
    ASSUME TypeOK, Owned, LoadEvent
    PROVE  AllStop(events') /\ AllStop(toLoad') /\ Owners'
<1>1. PICK i \in DOMAIN toLoad :
        /\ toLoad' = Without(toLoad, i)
        /\ UNCHANGED lists \/ Insert(Restored(toLoad[i], now))
  BY DEF LoadEvent
<1>2. toLoad[i] \in Event(Timers) /\ Stops(toLoad[i]) /\ recording' = recording
  BY <1>1 DEF TypeOK, IsList, Owned, AllStop, LoadEvent
<1>3. AllStop(toLoad')
  BY <1>1 DEF Owned, AllStop, Without
<1>4. CASE UNCHANGED lists
  BY <1>2, <1>3, <1>4 DEF lists, Owned, AllStop, Owners
<1>5. CASE Insert(Restored(toLoad[i], now))
  <2> DEFINE n == eventID + 1
             e == [Restored(toLoad[i], now) EXCEPT !.repeat = Repetition(@)]
  <2>1. Stops(e)
    BY <1>2 DEF Restored, Stops, Event
  <2>2. events' = With(events, n, e) /\ n \notin DOMAIN events
    BY <1>5 DEF Insert, TypeOK
  <2> HIDE DEF n, e
  <2>3. AllStop(events')
    BY <2>1, <2>2, ListsStop DEF Owned
  <2>4. DOMAIN events' = DOMAIN events \cup {n} /\ \A j \in DOMAIN events : events'[j] = events[j]
    BY <2>2 DEF With
  <2>5. Owners'
    BY <1>2, <2>4 DEF Owned, Owners
  <2> QED BY <1>3, <2>3, <2>5
<1> QED BY <1>1, <1>4, <1>5

LEMMA OwnedKept ==
    ASSUME OwnerInv, Owned, MCNext, "tear" \notin trouble', "reschedule" \notin trouble'
    PROVE  Owned'
<1>1. /\ Next /\ TypeOK /\ SafetyTimes /\ disk' \in {disk, buf}
      /\ \A id \in DOMAIN events, d \in Diffs : ~RescheduleTimer(id, d)
  BY Troubles DEF OwnerInv
<1>2. AllStop(disk'.timers)
  BY <1>1 DEF Owned
<1>3. CASE PowerFailure \/ ColdStart
  <2>1. AllStop(events') /\ AllStop(toLoad') /\ Owners'
    BY <1>3, Restarted DEF AllStop, Owners
  <2>2. AllStop(buf'.timers)
    <3>1. buf' = NoFile
      BY <1>3, Restarted
    <3>2. NoFile.timers = EmptyList
      BY DEF NoFile
    <3>3. AllStop(EmptyList)
      BY EmptyListType DEF AllStop
    <3> QED BY <3>1, <3>2, <3>3
  <2> QED BY <1>2, <2>1, <2>2 DEF Owned
<1>4. CASE ~PowerFailure /\ ~ColdStart
  <2>1. AllStop(buf'.timers)
    BY <1>1, <1>4, Changing DEF Owned
  <2>2. AllStop(toLoad')
    <3>1. TimeIsSet => toLoad' = disk.timers
      BY DEF TimeIsSet
    <3> QED BY <1>1, <1>4, <3>1, Changing, LoadKeepsOwners DEF Owned
  <2>3. AllStop(events') /\ Owners'
    <3>1. UNCHANGED <<events, recording>> => AllStop(events') /\ Owners'
      BY DEF Owned, AllStop, Owners
    <3> QED BY <1>1, <1>4, <3>1, Changing, LoadKeepsOwners, IterationKeepsOwners, CommandsOwn
  <2> QED BY <1>2, <2>1, <2>2, <2>3 DEF Owned
<1> QED BY <1>3, <1>4

\* A recording that clients were told to start, and not to stop, belongs to a running timer with a
\* stop time, through every interleaving of commands, passes, saves and restarts: the loop of
\* timerThread and removeEvent, stopEvent let go of a running recording only with a RECORD_STOP
\* (timermanager.cpp:128-187, :244-277), unless a client rescheduled it or the file was cut off.
THEOREM RecordingsOwned == MCSpec => []IntactRecordingIsOwned
<1>1. MCInit => OwnerInv
  <2> SUFFICES ASSUME MCInit PROVE OwnerInv
    OBVIOUS
  <2>1. Init
    BY DEF MCInit
  <2>2. /\ DOMAIN events = {} /\ DOMAIN toLoad = {} /\ DOMAIN buf.timers = {} /\ DOMAIN disk.timers = {}
        /\ recording = {} /\ buf.safety = 0 /\ disk.safety = 0 /\ safety \in Margins
    BY <2>1 DEF Init, EmptyList, NoFile
  <2>3. Owned
    BY <2>2 DEF Owned, AllStop, Owners
  <2>4. SafetyTimes
    BY <2>2, StopTimesAssumption DEF SafetyTimes, StopTimesGiven
  <2> QED BY <2>1, <2>3, <2>4, TypeInit DEF OwnerInv
<1>2. OwnerInv /\ [MCNext]_mcvars => OwnerInv'
  <2>1. ASSUME OwnerInv, MCNext PROVE OwnerInv'
    <3>1. Next /\ trouble \subseteq trouble'
      BY <2>1, Troubles
    <3>2. TypeOK' /\ SafetyTimes'
      BY <2>1, <3>1, TypeNext, SafetyKept DEF OwnerInv
    <3>3. ASSUME trouble' \cap {"tear", "reschedule"} = {} PROVE Owned'
      <4>1. /\ trouble \cap {"tear", "reschedule"} = {}
            /\ "tear" \notin trouble' /\ "reschedule" \notin trouble'
        BY <3>1, <3>3
      <4> QED BY <2>1, <4>1, OwnedKept DEF OwnerInv
    <3> QED BY <3>2, <3>3 DEF OwnerInv
  <2>2. ASSUME OwnerInv, UNCHANGED mcvars PROVE OwnerInv'
    <3>1. UNCHANGED vars /\ UNCHANGED trouble
      BY <2>2 DEF mcvars
    <3>2. TypeOK'
      BY <2>2, <3>1, TypeNext DEF OwnerInv
    <3>3. UNCHANGED <<events, toLoad, buf, disk, safety, recording>>
      BY <3>1 DEF vars, lists, locals, history
    <3>4. SafetyTimes' /\ (Owned => Owned')
      BY <2>2, <3>3 DEF OwnerInv, SafetyTimes, Owned, AllStop, Owners
    <3> QED BY <2>2, <3>1, <3>2, <3>4 DEF OwnerInv
  <2> QED BY <2>1, <2>2
<1>3. OwnerInv => IntactRecordingIsOwned
  BY DEF OwnerInv, Owned, Owners, Owns, IntactRecordingIsOwned, RecordingIsOwned
<1> QED BY <1>1, <1>2, <1>3, PTL DEF MCSpec, mcvars

-----------------------------------------------------------------------------
(* A removed timer stays removed. *)

\* Nobody stops or reschedules a timer after its removal, and timerd runs on: the other
\* commands, and the passes and saves, cannot bring a removed timer back.
RunsOn == Cmds \cap {"stop", "reschedule", "shutdown"} = {} /\ "poweroff" \notin Faults

\* There is nothing to load, and the command thread only changes the list and the safety times.
Fresh ==
    /\ pc["server"] \in {"idle", "flag"} /\ DOMAIN toLoad = {}
    /\ pc["timer"] = "wait" => DOMAIN disk.timers = {}

\* Each timer is in the list once, and a removed one waits for the next pass to be erased.
Unique  == \A i, j \in DOMAIN events : events[i].info = events[j].info => i = j
Removed ==
    \A id \in DOMAIN events :
        /\ life[events[id].info] # "new"
        /\ life[events[id].info] = "removed" => events[id].state = "TERMINATED"

RemovalInv == TypeOK /\ Fresh /\ Unique /\ Removed

-----------------------------------------------------------------------------
LEMMA RunningSteps ==
    ASSUME RunsOn, Fresh, Next
    PROVE  /\ ~PowerFailure /\ ~ColdStart /\ ~LoadEvent /\ ~Join /\ ~Shutdown
           /\ \A id \in DOMAIN events : ~StopTimer(id) /\ \A d \in Diffs : ~RescheduleTimer(id, d)
           /\ \A self \in Threads : Collect(self) \/ WriteFile(self) \/ ClearFlag(self) => self = "timer"
<1>1. ~PowerFailure /\ ~Shutdown
  BY DEF RunsOn, PowerFailure, Shutdown, Command
<1>2. ~ColdStart /\ ~Join /\ ~LoadEvent
  BY DEF Fresh, ColdStart, Join, LoadEvent
<1>3. \A id \in DOMAIN events : ~StopTimer(id) /\ \A d \in Diffs : ~RescheduleTimer(id, d)
  BY DEF RunsOn, StopTimer, RescheduleTimer, ListCommand, Command
<1>4. ASSUME NEW self \in Threads, Collect(self) \/ WriteFile(self) \/ ClearFlag(self)
      PROVE  self = "timer"
  BY <1>4 DEF Fresh, Collect, WriteFile, ClearFlag
<1> QED BY <1>1, <1>2, <1>3, <1>4

\* What steps there are, and what they leave alone.
LEMMA RunningFrames ==
    ASSUME RunsOn, TypeOK, Fresh, Next
    PROVE  /\ Fresh'
           /\ \/ UNCHANGED <<events, life, starts>> \/ CheckEvent \/ HangInReschedule
              \/ \E i \in Timers : AddTimer(i)
              \/ \E id \in DOMAIN events :
                    RemoveTimer(id) \/ SetAPid(id) \/ \E c \in Changes : ModifyTimer(id, c)
<1> USE RunningSteps DEF At, TypeOK, lists, locals, history, bounds
<1>1. CASE TimeIsSet
  BY <1>1 DEF TimeIsSet, Fresh
<1>2. CASE LoadDone \/ BeginPass \/ EndPass \/ TestSave
  BY <1>2 DEF LoadDone, BeginPass, EndPass, TestSave, Fresh
<1>3. CASE CheckEvent \/ HangInReschedule
  BY <1>3 DEF CheckEvent, HangInReschedule, Fresh
<1>4. CASE Collect("timer") \/ WriteFile("timer") \/ ClearFlag("timer")
  BY <1>4 DEF Collect, WriteFile, ClearFlag, Fresh
<1>5. CASE SetSafetyFlag \/ Tick \/ SetTime \/ \E m \in Margins : SetSafetyTimes(m)
  BY <1>5 DEF SetSafetyFlag, SetSafetyTimes, Command, Tick, SetTime, Fresh
<1>6. CASE ListChanges
  <2>1. Fresh'
    BY <1>6, ListChangesOnly DEF Fresh
  <2> QED BY <1>6, <2>1 DEF ListChanges
<1> QED BY <1>1, <1>2, <1>3, <1>4, <1>5, <1>6, Steps

LEMMA TerminatedStays ==
    ASSUME NEW e \in Event(Timers), e.state = "TERMINATED"
    PROVE  Iteration(e) = e /\ Unsettled(e) = e /\ ~MustFire(Announced(e, passNow), passNow)
<1>1. Announced(e, passNow) = e
  BY DEF Announced, MustAnnounce
<1>2. Fired(e, passNow) = e /\ ~MustFire(e, passNow)
  BY DEF Fired, MustFire
<1>3. Stopped(e, passNow) = e
  BY DEF Stopped, MustStop
<1>4. Settled(e, now) = e
  BY DEF Settled, MustReschedule
<1> QED BY <1>1, <1>2, <1>3, <1>4 DEF Iteration, Unsettled

\* A change of one timer of the list.
LEMMA ChangeKeepsRemoved ==
    ASSUME TypeOK, Unique, Removed, NEW id \in DOMAIN events, NEW e, events' = [events EXCEPT ![id] = e],
           e.info = events[id].info, \A i \in Timers : i # e.info => life'[i] = life[i],
           life'[e.info] # "new", life'[e.info] = "removed" => e.state = "TERMINATED"
    PROVE  Unique' /\ Removed'
<1>1. /\ DOMAIN events' = DOMAIN events /\ events'[id] = e
      /\ \A j \in DOMAIN events \ {id} : events'[j] = events[j]
  OBVIOUS
<1>2. \A j \in DOMAIN events : events'[j].info = events[j].info
  BY <1>1
<1>3. Unique'
  BY <1>1, <1>2 DEF Unique
<1>4. Removed'
  <2> SUFFICES ASSUME NEW j \in DOMAIN events
               PROVE  /\ life'[events'[j].info] # "new"
                      /\ life'[events'[j].info] = "removed" => events'[j].state = "TERMINATED"
    BY <1>1 DEF Removed
  <2>1. CASE j = id
    BY <1>1, <2>1
  <2>2. CASE j # id
    <3>1. events'[j] = events[j] /\ events[j].info # e.info
      BY <1>1, <2>2 DEF Unique
    <3>2. events[j].info \in Timers
      BY DEF TypeOK, IsList, Event
    <3> QED BY <3>1, <3>2 DEF Removed
  <2> QED BY <2>1, <2>2
<1> QED BY <1>3, <1>4

LEMMA RemovalKept == ASSUME RunsOn, RemovalInv, Next PROVE RemovalInv'
<1> USE DEF RemovalInv
<1>1. TypeOK' /\ Fresh'
  BY TypeNext, RunningFrames
<1>2. CASE UNCHANGED <<events, life, starts>>
  BY <1>1, <1>2 DEF Unique, Removed
<1>3. CASE CheckEvent
  <2> DEFINE e == events[cursor]
  <2>1. cursor \in DOMAIN events /\ e \in Event(Timers)
    BY <1>3 DEF CheckEvent, TypeOK, IsList
  <2>2. \/ /\ Iteration(e).state # "TERMINATED"
           /\ events' = [events EXCEPT ![cursor] = Iteration(e)] /\ UNCHANGED life
        \/ /\ events' = Without(events, cursor)
           /\ life' = [life EXCEPT ![e.info] = IF @ = "removed" THEN @ ELSE "ended"]
    BY <1>3 DEF CheckEvent, Iteration
  <2>3. CASE /\ Iteration(e).state # "TERMINATED"
             /\ events' = [events EXCEPT ![cursor] = Iteration(e)] /\ UNCHANGED life
    <3>1. Iteration(e).info = e.info
      BY <2>1, IterationKeepsInfo
    <3>2. e.state # "TERMINATED"
      BY <2>1, <2>3, TerminatedStays
    <3>3. life[e.info] # "new" /\ life[e.info] # "removed"
      BY <2>1, <3>2 DEF Removed
    <3> QED BY <1>1, <2>1, <2>3, <3>1, <3>3, ChangeKeepsRemoved
  <2>4. CASE /\ events' = Without(events, cursor)
             /\ life' = [life EXCEPT ![e.info] = IF @ = "removed" THEN @ ELSE "ended"]
    <3>1. DOMAIN events' = DOMAIN events \ {cursor} /\ \A j \in DOMAIN events' : events'[j] = events[j]
      BY <2>4 DEF Without
    <3>2. ASSUME NEW j \in DOMAIN events'
          PROVE  events[j].info \in Timers /\ life'[events[j].info] = life[events[j].info]
      <4>1. events[j].info # e.info
        BY <2>1, <3>1 DEF Unique
      <4>2. events[j].info \in Timers
        BY <3>1 DEF TypeOK, IsList, Event
      <4> QED BY <2>4, <4>1, <4>2 DEF TypeOK
    <3> QED BY <1>1, <3>1, <3>2 DEF Unique, Removed
  <2> QED BY <2>2, <2>3, <2>4
<1>4. ASSUME NEW i \in Timers, AddTimer(i) PROVE Unique' /\ Removed'
  <2> DEFINE n == eventID + 1
             e == [Requested(i) EXCEPT !.repeat = Repetition(@)]
  <2>1. e.info = i
    BY RequestedType DEF Event
  <2>2. events' = With(events, n, e) /\ n \notin DOMAIN events
    BY <1>4 DEF AddTimer, Insert, TypeOK
  <2>3. life[i] = "new" /\ life'[i] = "active" /\ \A j \in Timers \ {i} : life'[j] = life[j]
    BY <1>4 DEF AddTimer, TypeOK
  <2> HIDE DEF n, e
  <2>4. /\ DOMAIN events' = DOMAIN events \cup {n} /\ events'[n] = e
        /\ \A j \in DOMAIN events : events'[j] = events[j]
    BY <2>2 DEF With
  <2>5. \A j \in DOMAIN events : events[j].info \in Timers /\ events[j].info # i
    BY <2>3 DEF Removed, TypeOK, IsList, Event
  <2>6. Unique'
    BY <2>1, <2>2, <2>4, <2>5 DEF Unique
  <2>7. Removed'
    BY <2>1, <2>3, <2>4, <2>5 DEF Removed
  <2> QED BY <2>6, <2>7
<1>5. ASSUME NEW id \in DOMAIN events, RemoveTimer(id) PROVE Unique' /\ Removed'
  <2> DEFINE r == [events[id] EXCEPT !.state = "TERMINATED"]
  <2>1. events[id] \in Event(Timers)
    BY DEF TypeOK, IsList
  <2>2. r.info = events[id].info /\ r.state = "TERMINATED" /\ r.info \in Timers
    BY <2>1 DEF Event
  <2>3. events' = [events EXCEPT ![id] = r] /\ life' = [life EXCEPT ![events[id].info] = "removed"]
    BY <1>5 DEF RemoveTimer
  <2> HIDE DEF r
  <2>4. life'[r.info] = "removed" /\ \A i \in Timers : i # r.info => life'[i] = life[i]
    BY <2>2, <2>3 DEF TypeOK
  <2> QED BY <2>2, <2>3, <2>4, ChangeKeepsRemoved
<1>6. ASSUME NEW id \in DOMAIN events, NEW r, events' = [events EXCEPT ![id] = r], life' = life,
             r.info = events[id].info, events[id].state = "TERMINATED" => r.state = "TERMINATED"
      PROVE  Unique' /\ Removed'
  <2>1. life[r.info] # "new" /\ (life[r.info] = "removed" => r.state = "TERMINATED")
    BY <1>6 DEF Removed
  <2> QED BY <1>6, <2>1, ChangeKeepsRemoved
<1>7. ASSUME NEW id \in DOMAIN events, SetAPid(id) PROVE Unique' /\ Removed'
  <2> DEFINE r == [events[id] EXCEPT !.apids = TRUE]
  <2>1. events[id] \in Event(Timers)
    BY DEF TypeOK, IsList
  <2>2. events' = [events EXCEPT ![id] = r] /\ life' = life
    BY <1>7 DEF SetAPid
  <2>3. r.info = events[id].info /\ r.state = events[id].state
    BY <2>1 DEF Event
  <2> HIDE DEF r
  <2> QED BY <1>6, <2>2, <2>3
<1>8. ASSUME NEW id \in DOMAIN events, NEW c \in Changes, ModifyTimer(id, c) PROVE Unique' /\ Removed'
  <2> DEFINE r == Modified(events[id], c)
  <2>1. events[id] \in Event(Timers)
    BY DEF TypeOK, IsList
  <2>2. events' = [events EXCEPT ![id] = r] /\ life' = life
    BY <1>8 DEF ModifyTimer, Modified
  <2>3. r.info = events[id].info /\ (events[id].state = "TERMINATED" => r.state = "TERMINATED")
    BY <2>1 DEF Event, Modified
  <2> HIDE DEF r
  <2> QED BY <1>6, <2>2, <2>3
<1>9. CASE HangInReschedule
  <2> DEFINE e == events[cursor]
             r == Unsettled(e)
  <2>1. cursor \in DOMAIN events /\ e \in Event(Timers)
    BY <1>9 DEF HangInReschedule, TypeOK, IsList
  <2>2. events' = [events EXCEPT ![cursor] = r] /\ life' = life
    BY <1>9 DEF HangInReschedule, Unsettled
  <2>3. r.info = e.info /\ (e.state = "TERMINATED" => r.state = "TERMINATED")
    BY <2>1, IterationKeepsInfo, TerminatedStays
  <2> HIDE DEF r
  <2> QED BY <1>1, <1>6, <2>1, <2>2, <2>3
<1> QED BY <1>1, <1>2, <1>3, <1>4, <1>5, <1>7, <1>8, <1>9, RunningFrames

LEMMA RemovedDoesNotStart ==
    ASSUME RunsOn, RemovalInv, Next, NEW i \in Timers, life[i] = "removed" PROVE starts'[i] = starts[i]
<1>1. CASE ~CheckEvent /\ ~HangInReschedule
  <2>1. ASSUME NEW k \in Timers, AddTimer(k) PROVE starts' = starts
    BY <2>1 DEF AddTimer, ListCommand
  <2>2. ASSUME NEW id \in DOMAIN events, RemoveTimer(id) PROVE starts' = starts
    BY <2>2 DEF RemoveTimer, ListCommand
  <2>3. ASSUME NEW id \in DOMAIN events, SetAPid(id) PROVE starts' = starts
    BY <2>3 DEF SetAPid, ListCommand
  <2>4. ASSUME NEW id \in DOMAIN events, NEW c \in Changes, ModifyTimer(id, c) PROVE starts' = starts
    BY <2>4 DEF ModifyTimer, ListCommand
  <2>5. \/ UNCHANGED <<events, life, starts>>
        \/ \E k \in Timers : AddTimer(k)
        \/ \E id \in DOMAIN events :
              RemoveTimer(id) \/ SetAPid(id) \/ \E c \in Changes : ModifyTimer(id, c)
    BY <1>1, RunningFrames DEF RemovalInv
  <2> QED BY <2>1, <2>2, <2>3, <2>4, <2>5
<1>2. CASE CheckEvent \/ HangInReschedule
  <2> DEFINE e == events[cursor]
             fires == MustFire(Announced(e, passNow), passNow)
  <2>1. cursor \in DOMAIN events /\ e \in Event(Timers)
    BY <1>2 DEF RemovalInv, CheckEvent, HangInReschedule, TypeOK, IsList
  <2>2. starts' = [starts EXCEPT ![e.info] = IF fires THEN @ + 1 ELSE @]
    BY <1>2 DEF CheckEvent, HangInReschedule, Notify
  <2>3. e.info = i => ~fires
    BY <2>1, TerminatedStays DEF RemovalInv, Removed
  <2> HIDE DEF e, fires
  <2> QED BY <2>2, <2>3 DEF RemovalInv, TypeOK
<1> QED BY <1>1, <1>2

\* A timer whose removal timerd acknowledged never starts again, whatever is added, removed, modified
\* and saved meanwhile: removeEvent leaves it in the list, TERMINATED, until a pass erases
\* it (timermanager.cpp:244-260), and no pass and no modifyEvent gives it another state.
THEOREM RemovedStaysRemoved == ASSUME RunsOn PROVE Spec => RemovedNeverStarts
<1>1. Init => RemovalInv
  <2> SUFFICES ASSUME Init PROVE RemovalInv
    OBVIOUS
  <2>1. DOMAIN events = {} /\ DOMAIN toLoad = {} /\ DOMAIN disk.timers = {} /\ pc["server"] = "idle"
    BY DEF Init, EmptyList, NoFile
  <2> QED BY <2>1, TypeInit DEF RemovalInv, Fresh, Unique, Removed
<1>2. RemovalInv /\ [Next]_vars => RemovalInv'
  <2>1. ASSUME RemovalInv, UNCHANGED vars PROVE RemovalInv'
    <3>1. TypeOK'
      BY <2>1, TypeNext DEF RemovalInv
    <3> QED BY <2>1, <3>1 DEF vars, lists, locals, history, RemovalInv, Fresh, Unique, Removed
  <2> QED BY <2>1, RemovalKept
<1>3. RemovalInv /\ [Next]_vars
         => [\A i \in Timers : life[i] = "removed" => starts'[i] = starts[i]]_vars
  BY RemovedDoesNotStart
<1> QED BY <1>1, <1>2, <1>3, PTL DEF Spec, RemovedNeverStarts
-----------------------------------------------------------------------------
(* Timers do not start too often. *)

\* A client's change does not make a timer repeat: it asks for the timer it has in mind, not
\* for more of the one it had.
ChangesEnd == \A c \in Changes : Repetition(c.repeat) = "ONCE"

\* A timer that has yet to start.
Due(e) == e.state \in {"SCHEDULED", "PREANNOUNCE"}

\* A timer of which clients got n starts has as many left, at most, as it was asked to have: one that
\* is due needs the next, one that repeats needs as many as its count says.
FitsOnce(e, n)  == e.repeat = "ONCE" /\ (Due(e) => n = 0)
FitsCount(e, n) ==
    LET most == Request[e.info].count
    IN  /\ e.repeat = "ONCE" => (Due(e) => n < most)
        /\ e.repeat # "ONCE" => e.count > 0 /\ n + e.count <= (IF Due(e) THEN most ELSE most + 1)
Fits(e, n) ==
    /\ Repetition(Request[e.info].repeat) = "ONCE" => FitsOnce(e, n)
    /\ Request[e.info].count > 0 => FitsCount(e, n)

Bounded(i, n) ==
    /\ Repetition(Request[i].repeat) = "ONCE" => n <= 1
    /\ Request[i].count > 0 => n <= Request[i].count

\* A list whose timers fit what clients got, were asked for, and are in it once.
AllFit(list, s)   == \A id \in DOMAIN list : Fits(list[id], s[list[id].info])
AllAsked(list, l) == \A id \in DOMAIN list : l[list[id].info] # "new"
InOnce(list)      == \A i, j \in DOMAIN list : list[i].info = list[j].info => i = j
Apart(f, g)       == \A i \in DOMAIN f, j \in DOMAIN g : f[i].info # g[j].info

\* The file may be behind the list only while a save is asked for, and not while it is still to be read.
Budget ==
    /\ AllFit(events, starts) /\ AllFit(toLoad, starts)
    /\ pc["timer"] = "wait" \/ ~saveEvents => AllFit(disk.timers, starts)
    /\ AllAsked(events, life) /\ AllAsked(toLoad, life) /\ AllAsked(disk.timers, life)
    /\ InOnce(events) /\ InOnce(toLoad) /\ InOnce(disk.timers) /\ Apart(events, toLoad)
    /\ pc["timer"] = "wait" => Apart(events, disk.timers)
    /\ \A i \in Timers : Bounded(i, starts[i]) /\ (life[i] = "new" => starts[i] = 0)

\* A pass does not begin in the future, and timerd goes down with nothing left to save.
Orderly == passNow <= now /\ (pc["server"] = "down" => ~saveEvents /\ pc["timer"] = "gone")

BudgetInv == Orderly /\ (trouble \cap {"poweroff", "tear", "reschedule"} = {} => Budget)

-----------------------------------------------------------------------------
\* What keeps repetition and count and does not become due fits as before.
LEMMA FitKept ==
    ASSUME NEW e \in Event(Timers), NEW r \in Event(Timers), NEW n \in Nat, Fits(e, n),
           r.info = e.info, r.repeat = e.repeat, r.count = e.count, Due(r) => Due(e)
    PROVE  Fits(r, n)
<1>1. e.count \in Nat /\ Request[e.info].count \in Nat
  BY ConstantsAssumption DEF Event, RequestType
<1>2. FitsOnce(e, n) => FitsOnce(r, n)
  BY DEF FitsOnce
<1>3. FitsCount(e, n) => FitsCount(r, n)
  BY <1>1 DEF FitsCount
<1> QED BY <1>2, <1>3 DEF Fits

\* A timer that starts has one start less to come.
LEMMA FitFired ==
    ASSUME NEW e \in Event(Timers), NEW r \in Event(Timers), NEW n \in Nat, Fits(e, n), Due(e), ~Due(r),
           r.info = e.info, r.repeat = e.repeat, r.count = e.count
    PROVE  Fits(r, n + 1) /\ Bounded(e.info, n + 1)
<1> DEFINE most == Request[e.info].count
<1>1. e.count \in Nat /\ most \in Nat
  BY ConstantsAssumption DEF Event, RequestType
<1>2. FitsOnce(e, n) => FitsOnce(r, n + 1) /\ n + 1 <= 1
  BY DEF FitsOnce
<1>3. FitsCount(e, n) => FitsCount(r, n + 1) /\ n + 1 <= most
  BY <1>1 DEF FitsCount
<1> QED BY <1>2, <1>3 DEF Fits, Bounded

\* A repetition takes one off the count.
LEMMA FitSettled ==
    ASSUME NEW e \in Event(Timers), NEW n \in Nat, Fits(e, n), NEW t \in Int
    PROVE  Fits(Settled(e, t), n)
<1> DEFINE r == Settled(e, t)
           most == Request[e.info].count
<1>1. r \in Event(Timers) /\ r.info = e.info
  BY IterationType
<1>2. e.count \in Nat /\ most \in Nat
  BY ConstantsAssumption DEF Event, RequestType
<1>3. CASE MustReschedule(e)
  <2>1. e.repeat # "ONCE" /\ e.count # 1 /\ ~Due(e)
    BY <1>3 DEF MustReschedule, Due
  <2>2. r.repeat = e.repeat /\ r.count = (IF e.count > 0 THEN e.count - 1 ELSE e.count)
    BY <1>3, <2>1 DEF Settled, Reschedule, Event
  <2> HIDE DEF r
  <2>3. ~FitsOnce(e, n)
    BY <2>1 DEF FitsOnce
  <2>4. FitsCount(e, n) => e.count > 0 /\ n + e.count <= most + 1
    BY <2>1 DEF FitsCount
  <2>5. FitsCount(e, n) => r.count > 0 /\ n + r.count <= most
    BY <1>2, <2>1, <2>2, <2>4
  <2>6. r.count > 0 /\ n + r.count <= most => FitsCount(r, n)
    BY <1>1, <1>2, <2>1, <2>2 DEF FitsCount, Event
  <2>7. Fits(r, n)
    BY <1>1, <2>3, <2>5, <2>6 DEF Fits
  <2> QED BY <2>7 DEF r
<1>4. CASE ~MustReschedule(e)
  <2>1. r.repeat = e.repeat /\ r.count = e.count /\ (Due(r) => Due(e))
    BY <1>4 DEF Settled, Due, Event
  <2> QED BY <1>1, <2>1, FitKept
<1> QED BY <1>3, <1>4

\* A repetition of a time that has come is later than it.
LEMMA RepetitionIsLater ==
    ASSUME NEW S, NEW e \in Event(S), NEW t \in Int, e.alarm <= t PROVE Advance(e, t) > 0
<1> DEFINE x == t - e.alarm
           q == x \div Day
<1>1. x \in Nat /\ Day \in Nat /\ Day > 0
  BY DayAssumption DEF Event
<1>2. ~(e.alarm > t)
  BY DEF Event
<1> HIDE DEF x
<1>3. q \in Nat
  BY <1>1
<1> HIDE DEF q
<1>4. (q + 1) * Day > 0
  BY <1>1, <1>3
<1> QED BY <1>2, <1>4 DEF Advance, x, q

\* One iteration of the loop: a timer that starts is changed, so that a save is asked for.
LEMMA FitIteration ==
    ASSUME TypeOK, passNow <= now, NEW e \in Event(Timers), NEW n \in Nat, Fits(e, n)
    PROVE  LET fires == MustFire(Announced(e, passNow), passNow)
           IN  \A r \in {Iteration(e), Unsettled(e)} :
                 /\ Fits(r, IF fires THEN n + 1 ELSE n)
                 /\ fires => Bounded(e.info, n + 1) /\ r # e
<1> DEFINE a == Announced(e, passNow)
           fires == MustFire(a, passNow)
           f == Fired(a, passNow)
           s == Stopped(f, passNow)
           m == IF fires THEN n + 1 ELSE n
           r == Settled(s, now)
<1>1. passNow \in Int /\ now \in Int /\ m \in Nat
  BY DEF TypeOK
<1>2. /\ a \in Event(Timers) /\ a.info = e.info /\ a.repeat = e.repeat /\ a.count = e.count
      /\ a.alarm = e.alarm /\ (Due(a) <=> Due(e))
  BY <1>1, IterationType DEF Announced, MustAnnounce, Event, Due
<1>3. Fits(a, n)
  BY <1>2, FitKept
<1> HIDE DEF a
<1>4. /\ f \in Event(Timers) /\ f.info = e.info /\ f.repeat = e.repeat /\ f.count = e.count
      /\ f.alarm = e.alarm /\ (fires => Due(a) /\ ~Due(f) /\ a.alarm <= passNow) /\ (~fires => f = a)
  <2>1. f \in Event(Timers) /\ f.info = a.info
    BY <1>1, <1>2, IterationType
  <2>2. f.repeat = a.repeat /\ f.count = a.count /\ f.alarm = a.alarm
    BY <1>2 DEF Fired, Event
  <2>3. fires => Due(a) /\ ~Due(f) /\ a.alarm <= passNow
    BY <1>2 DEF Fired, MustFire, Event, Due
  <2>4. ~fires => f = a
    BY DEF Fired
  <2> QED BY <1>2, <2>1, <2>2, <2>3, <2>4
<1> HIDE DEF f, fires
<1>5. Fits(f, m) /\ (fires => Bounded(e.info, n + 1))
  <2>1. CASE fires
    BY <1>2, <1>3, <1>4, <2>1, FitFired
  <2>2. CASE ~fires
    BY <1>3, <1>4, <2>2
  <2> QED BY <2>1, <2>2
<1>6. /\ s \in Event(Timers) /\ s.info = e.info /\ s.repeat = f.repeat /\ s.count = f.count
      /\ s.alarm = f.alarm /\ (Due(s) => Due(f))
  <2>1. s \in Event(Timers) /\ s.info = f.info
    BY <1>1, <1>4, IterationType
  <2>2. s.repeat = f.repeat /\ s.count = f.count /\ s.alarm = f.alarm /\ (Due(s) => Due(f))
    BY <1>4 DEF Stopped, Event, Due
  <2> QED BY <1>4, <2>1, <2>2
<1> HIDE DEF m
<1>7. Fits(s, m)
  BY <1>1, <1>4, <1>5, <1>6, FitKept
<1> HIDE DEF s
<1>8. Fits(r, m)
  BY <1>1, <1>6, <1>7, FitSettled
<1>9. ASSUME fires PROVE r # e /\ s # e
  <2>1. Due(e) /\ ~Due(s) /\ s.alarm = e.alarm /\ s.alarm <= now
    BY <1>1, <1>2, <1>4, <1>6, <1>9 DEF Event
  <2>2. CASE MustReschedule(s)
    <3>1. s.repeat # "ONCE" /\ r.alarm = s.alarm + Advance(s, now)
      BY <1>6, <2>2 DEF r, Settled, Reschedule, MustReschedule, Event
    <3>2. Advance(s, now) > 0 /\ Advance(s, now) \in Nat
      BY <1>1, <1>6, <2>1, RepetitionIsLater, AdvanceIsForward
    <3>3. s.alarm \in Int
      BY <1>6 DEF Event
    <3> QED BY <2>1, <3>1, <3>2, <3>3
  <2>3. CASE ~MustReschedule(s)
    <3>1. ~Due(r)
      BY <1>6, <2>1, <2>3 DEF r, Settled, Due, Event
    <3> QED BY <2>1, <3>1
  <2> QED BY <2>1, <2>2, <2>3
<1>10. Iteration(e) = r /\ Unsettled(e) = s
  BY DEF Iteration, Unsettled, r, s, f, a
<1> HIDE DEF r
<1> QED BY <1>5, <1>7, <1>8, <1>9, <1>10 DEF m, fires, a

-----------------------------------------------------------------------------
\* Lists that change in one place.
LEMMA ListAdds ==
    ASSUME NEW f, NEW n, n \notin DOMAIN f, NEW e, NEW s, NEW l, AllFit(f, s), Fits(e, s[e.info]),
           AllAsked(f, l), l[e.info] # "new", InOnce(f), \A i \in DOMAIN f : f[i].info # e.info
    PROVE  AllFit(With(f, n, e), s) /\ AllAsked(With(f, n, e), l) /\ InOnce(With(f, n, e))
<1> DEFINE g == With(f, n, e)
<1>1. DOMAIN g = DOMAIN f \cup {n} /\ g[n] = e /\ \A i \in DOMAIN f : g[i] = f[i]
  BY DEF With
<1> HIDE DEF g
<1>2. AllFit(g, s)
  BY <1>1 DEF AllFit
<1>3. AllAsked(g, l)
  BY <1>1 DEF AllAsked
<1>4. InOnce(g)
  BY <1>1 DEF InOnce
<1> QED BY <1>2, <1>3, <1>4 DEF g

LEMMA ListDrops ==
    ASSUME NEW f, NEW n, NEW s, NEW l, AllFit(f, s), AllAsked(f, l), InOnce(f)
    PROVE  AllFit(Without(f, n), s) /\ AllAsked(Without(f, n), l) /\ InOnce(Without(f, n))
<1> DEFINE g == Without(f, n)
<1>1. DOMAIN g = DOMAIN f \ {n} /\ \A i \in DOMAIN g : i \in DOMAIN f /\ g[i] = f[i]
  BY DEF Without
<1> HIDE DEF g
<1> QED BY <1>1 DEF AllFit, AllAsked, InOnce, g

LEMMA ListTurns ==
    ASSUME NEW f, NEW n \in DOMAIN f, NEW e, e.info = f[n].info, NEW s, NEW l, AllFit(f, s),
           Fits(e, s[e.info]), AllAsked(f, l), InOnce(f)
    PROVE  LET g == [f EXCEPT ![n] = e] IN AllFit(g, s) /\ AllAsked(g, l) /\ InOnce(g)
<1> DEFINE g == [f EXCEPT ![n] = e]
<1>1. DOMAIN g = DOMAIN f /\ g[n] = e /\ \A i \in DOMAIN f \ {n} : g[i] = f[i]
  OBVIOUS
<1>2. \A i \in DOMAIN g : g[i].info = f[i].info
  BY <1>1
<1> HIDE DEF g
<1>3. AllFit(g, s)
  BY <1>1 DEF AllFit
<1>4. AllAsked(g, l) /\ InOnce(g)
  BY <1>1, <1>2 DEF AllAsked, InOnce
<1> QED BY <1>3, <1>4 DEF g

\* What clients got and asked for may go on, as long as it does not go back.
LEMMA AskedStays ==
    ASSUME NEW f, NEW l, NEW k, AllAsked(f, l),
           \A id \in DOMAIN f : l[f[id].info] # "new" => k[f[id].info] # "new"
    PROVE  AllAsked(f, k)
  BY DEF AllAsked

LEMMA ListInfo ==
    ASSUME NEW f, IsList(f), NEW id \in DOMAIN f
    PROVE  f[id] \in Event(Timers) /\ f[id].info \in Timers
  BY DEF IsList, Event

-----------------------------------------------------------------------------
\* The clock of a pass.
LEMMA PassKept == ASSUME TypeOK, passNow <= now, Next PROVE passNow' <= now'
<1> USE DEF lists, locals, history, bounds
<1>0. passNow \in Nat /\ now \in Nat
  BY DEF TypeOK
<1>1. CASE PowerFailure \/ ColdStart
  <2>1. PICK d : Restart(d)
    BY <1>1, Restarts
  <2>2. passNow' = 0 /\ now' = now
    BY <2>1 DEF Restart
  <2> QED BY <1>0, <2>2
<1>2. CASE UNCHANGED <<now, passNow>>
  BY <1>0, <1>2
<1>3. CASE BeginPass
  BY <1>0, <1>3 DEF BeginPass
<1>4. CASE Tick
  BY <1>0, <1>4 DEF Tick
<1>5. CASE TimeIsSet \/ LoadDone \/ EndPass \/ TestSave \/ SetTime
  BY <1>2, <1>5 DEF TimeIsSet, LoadDone, EndPass, TestSave, SetTime
<1>6. CASE LoadEvent \/ CheckEvent \/ HangInReschedule
  BY <1>2, <1>6 DEF LoadEvent, CheckEvent, HangInReschedule
<1>7. ASSUME NEW self \in Threads, Collect(self) \/ WriteFile(self) \/ ClearFlag(self)
      PROVE  UNCHANGED <<now, passNow>>
  BY <1>7 DEF Collect, WriteFile, ClearFlag
<1>8. CASE SetSafetyFlag \/ Shutdown \/ Join \/ \E m \in Margins : SetSafetyTimes(m)
  BY <1>2, <1>8 DEF SetSafetyFlag, Shutdown, Join, SetSafetyTimes, Command
<1>9. CASE ListChanges
  BY <1>2, <1>9, ListChangesOnly
<1> QED BY <1>1, <1>2, <1>3, <1>4, <1>5, <1>6, <1>7, <1>8, <1>9, Steps

\* The flag falls only when a save is done.
LEMMA FlagMoves ==
    ASSUME Next, ~PowerFailure, ~ColdStart
    PROVE  \/ saveEvents' = saveEvents \/ CheckEvent \/ HangInReschedule
           \/ \E self \in Threads : ClearFlag(self)
           \/ saveEvents' = TRUE /\ pc["server"] \in {"idle", "flag"}
<1>1. CASE TimeIsSet \/ LoadDone \/ EndPass \/ TestSave \/ BeginPass
  BY <1>1 DEF TimeIsSet, LoadDone, EndPass, TestSave, BeginPass
<1>2. CASE LoadEvent \/ Tick \/ SetTime
  BY <1>2 DEF LoadEvent, Tick, SetTime
<1>3. ASSUME NEW self \in Threads, Collect(self) \/ WriteFile(self)
      PROVE  saveEvents' = saveEvents
  BY <1>3 DEF Collect, WriteFile
<1>4. CASE SetSafetyFlag
  BY <1>4 DEF SetSafetyFlag
<1>5. CASE Shutdown \/ Join \/ \E m \in Margins : SetSafetyTimes(m)
  BY <1>5 DEF Shutdown, Join, SetSafetyTimes
<1>6. CASE ListChanges
  <2>1. saveEvents' = TRUE \/ saveEvents' = saveEvents
    <3>1. ASSUME NEW i \in Timers, AddTimer(i) PROVE saveEvents' = TRUE
      BY <3>1 DEF AddTimer
    <3>2. ASSUME NEW id, RemoveTimer(id) \/ StopTimer(id) PROVE saveEvents' = saveEvents
      BY <3>2 DEF RemoveTimer, StopTimer
    <3>3. ASSUME NEW id, SetAPid(id) PROVE saveEvents' = TRUE
      BY <3>3 DEF SetAPid
    <3>4. ASSUME NEW id, NEW c, ModifyTimer(id, c) PROVE saveEvents' = TRUE
      BY <3>4 DEF ModifyTimer
    <3>5. ASSUME NEW id, NEW d, RescheduleTimer(id, d) PROVE saveEvents' = TRUE
      BY <3>5 DEF RescheduleTimer
    <3> QED BY <1>6, <3>1, <3>2, <3>3, <3>4, <3>5 DEF ListChanges
  <2> QED BY <1>6, <2>1, ListChangesOnly
<1> QED BY <1>1, <1>2, <1>3, <1>4, <1>5, <1>6, Steps

\* The ways down.
LEMMA DownMoves ==
    ASSUME TypeOK, Next, ~PowerFailure, ~ColdStart, pc'["server"] = "down"
    PROVE  pc["server"] = "down" \/ Join \/ ClearFlag("server")
<1> USE DEF At, TypeOK, lists, locals, history, bounds
<1>1. CASE TimeIsSet \/ LoadDone \/ EndPass \/ TestSave \/ BeginPass
  BY <1>1 DEF TimeIsSet, LoadDone, EndPass, TestSave, BeginPass
<1>2. CASE LoadEvent \/ CheckEvent \/ HangInReschedule \/ Tick \/ SetTime
  BY <1>2 DEF LoadEvent, CheckEvent, HangInReschedule, Tick, SetTime
<1>3. ASSUME NEW self \in Threads, Collect(self) \/ WriteFile(self) \/ ClearFlag(self)
      PROVE  pc["server"] = "down" \/ ClearFlag("server")
  BY <1>3 DEF Collect, WriteFile, ClearFlag
<1>4. CASE SetSafetyFlag \/ Shutdown \/ \E m \in Margins : SetSafetyTimes(m)
  BY <1>4 DEF SetSafetyFlag, Shutdown, SetSafetyTimes, Command
<1>5. CASE ListChanges
  BY <1>5, ListChangesOnly
<1> QED BY <1>1, <1>2, <1>3, <1>4, <1>5, Steps

LEMMA OrderlyKept == ASSUME TypeOK, Phases, Orderly, Next PROVE Orderly'
<1>1. passNow' <= now'
  BY PassKept DEF Orderly
<1>2. ASSUME pc'["server"] = "down" PROVE saveEvents' = FALSE /\ pc'["timer"] = "gone"
  <2>0. ~PowerFailure /\ ~ColdStart
    BY <1>2, Restarted
  <2>1. CASE Join
    <3>1. saveEvents' = saveEvents
      BY <2>1 DEF Join
    <3>2. pc'["timer"] = "gone"
      BY <2>1 DEF Join, TypeOK
    <3>3. saveEvents = FALSE
      BY <1>2, <2>1 DEF Join, TypeOK
    <3> QED BY <3>1, <3>2, <3>3
  <2>2. CASE ClearFlag("server")
    <3>1. pc["timer"] = "gone"
      BY <2>2 DEF ClearFlag, Phases
    <3> QED BY <1>2, <2>0, <2>2, <3>1, Moves DEF ClearFlag
  <2>3. CASE pc["server"] = "down"
    <3>1. saveEvents = FALSE /\ pc["timer"] = "gone"
      BY <2>3 DEF Orderly, TypeOK
    <3>2. ~CheckEvent /\ ~HangInReschedule /\ \A self \in Threads : ~ClearFlag(self)
      BY <2>3, <3>1 DEF CheckEvent, HangInReschedule, ClearFlag
    <3>3. saveEvents' = saveEvents
      BY <2>0, <2>3, <3>2, FlagMoves
    <3> QED BY <2>0, <3>1, <3>3, Moves
  <2> QED BY <1>2, <2>0, <2>1, <2>2, <2>3, DownMoves
<1> QED BY <1>1, <1>2 DEF Orderly

\* What steps other than restarts leave alone.
LEMMA Keeping ==
    ASSUME Next, ~PowerFailure, ~ColdStart
    PROVE  \/ UNCHANGED <<events, toLoad, starts, life>> \/ TimeIsSet \/ LoadEvent
           \/ CheckEvent \/ HangInReschedule \/ ListChanges
<1> USE DEF lists, locals, history, bounds
<1>1. CASE LoadDone \/ EndPass \/ TestSave \/ BeginPass
  BY <1>1 DEF LoadDone, EndPass, TestSave, BeginPass
<1>2. CASE Tick \/ SetTime
  BY <1>2 DEF Tick, SetTime
<1>3. ASSUME NEW self \in Threads, Collect(self) \/ WriteFile(self) \/ ClearFlag(self)
      PROVE  UNCHANGED <<events, toLoad, starts, life>>
  BY <1>3 DEF Collect, WriteFile, ClearFlag
<1>4. CASE SetSafetyFlag \/ Shutdown \/ Join \/ \E m \in Margins : SetSafetyTimes(m)
  BY <1>4 DEF SetSafetyFlag, Shutdown, Join, SetSafetyTimes, Command
<1> QED BY <1>1, <1>2, <1>3, <1>4, Steps

\* The timer thread does not go back to waiting for the time.
LEMMA TimerAwaits ==
    ASSUME TypeOK, Next, ~PowerFailure, ~ColdStart, pc'["timer"] = "wait" PROVE pc["timer"] = "wait"
<1> USE DEF At, TypeOK, lists, locals, history, bounds
<1>1. CASE TimeIsSet \/ LoadDone \/ EndPass \/ TestSave \/ BeginPass
  BY <1>1 DEF TimeIsSet, LoadDone, EndPass, TestSave, BeginPass
<1>2. CASE LoadEvent \/ CheckEvent \/ HangInReschedule \/ Tick \/ SetTime
  BY <1>2 DEF LoadEvent, CheckEvent, HangInReschedule, Tick, SetTime
<1>3. ASSUME NEW self \in Threads, Collect(self) \/ WriteFile(self) \/ ClearFlag(self)
      PROVE  pc["timer"] = "wait"
  BY <1>3 DEF Collect, WriteFile, ClearFlag
<1>4. CASE SetSafetyFlag \/ Shutdown \/ Join \/ \E m \in Margins : SetSafetyTimes(m)
  BY <1>4 DEF SetSafetyFlag, Shutdown, Join, SetSafetyTimes, Command
<1>5. CASE ListChanges
  BY <1>5, ListChangesOnly
<1> QED BY <1>1, <1>2, <1>3, <1>4, <1>5, Steps

-----------------------------------------------------------------------------
\* A restart reads a file that is not behind: the power did not fail, or it failed with the file written.
LEMMA RestartReads ==
    ASSUME SurvivalInv, Orderly, Budget, MCNext, PowerFailure \/ ColdStart,
           trouble' \cap {"poweroff", "tear"} = {}
    PROVE  AllFit(disk'.timers, starts) /\ AllAsked(disk'.timers, life) /\ InOnce(disk'.timers)
<1>1. Next /\ disk' \in {disk, buf}
  BY Troubles
<1>2. CASE disk' = disk
  <2>1. PICK d : Restart(d)
    BY Restarts
  <2>2. boots' # boots
    BY <2>1 DEF Restart, SurvivalInv, TypeOK
  <2>3. pc["server"] = "down"
    <3>1. ~Happens("poweroff")
      BY DEF MCNext
    <3> QED BY <1>2, <2>2, <3>1 DEF Happens
  <2>4. ~saveEvents
    BY <2>3 DEF Orderly
  <2> QED BY <1>2, <2>4 DEF Budget
<1>3. CASE disk'.timers = events
  BY <1>3 DEF Budget
<1> QED BY <1>1, <1>2, <1>3, FileChanges

LEMMA RestartKeepsBudget ==
    ASSUME SurvivalInv, Orderly, Budget, MCNext, PowerFailure \/ ColdStart,
           trouble' \cap {"poweroff", "tear"} = {}
    PROVE  Budget'
<1>1. PICK d : Restart(d)
  BY Restarts
<1>2. starts' = starts /\ life' = life
  BY <1>1 DEF Restart
<1>3. DOMAIN events' = {} /\ DOMAIN toLoad' = {}
  BY Restarted
<1> QED BY <1>2, <1>3, RestartReads DEF Budget, AllFit, AllAsked, InOnce, Apart

-----------------------------------------------------------------------------
\* The file keeps up: what is written is the list, and a save that ends has written it.
LEMMA FileKeepsUp ==
    ASSUME SurvivalInv, Budget, Next, ~PowerFailure, ~ColdStart, disk' \in {disk, buf},
           UNCHANGED <<events, starts, life>>
    PROVE  /\ pc'["timer"] = "wait" \/ ~saveEvents' => AllFit(disk'.timers, starts)
           /\ AllAsked(disk'.timers, life) /\ InOnce(disk'.timers)
           /\ pc'["timer"] = "wait" => pc["timer"] = "wait" /\ disk' = disk
<1>1. pc'["timer"] = "wait" => pc["timer"] = "wait"
  BY TimerAwaits DEF SurvivalInv
<1>2. CASE disk' = disk
  <2>1. CASE pc'["timer"] = "wait" \/ ~saveEvents
    BY <1>1, <1>2, <2>1 DEF Budget
  <2>2. CASE saveEvents' = TRUE /\ pc'["timer"] # "wait"
    BY <1>2, <2>2 DEF Budget
  <2>3. CASE saveEvents' = saveEvents
    BY <1>1, <1>2, <2>3 DEF Budget
  <2>4. ASSUME NEW self \in Threads, ClearFlag(self)
        PROVE  AllFit(disk'.timers, starts)
    <3>1. disk.timers = events
      BY <2>4 DEF ClearFlag, SurvivalInv, SaveInv, SavesAreExclusive
    <3> QED BY <1>2, <3>1 DEF Budget
  <2>5. ASSUME CheckEvent \/ HangInReschedule PROVE saveEvents' = TRUE \/ ~saveEvents
    BY <2>5 DEF CheckEvent, HangInReschedule, SurvivalInv, TypeOK
  <2> QED BY <1>1, <1>2, <2>1, <2>2, <2>3, <2>4, <2>5, FlagMoves DEF Budget
<1>3. CASE Writing /\ disk'.timers = events
  <2>1. pc["timer"] # "wait"
    BY <1>3 DEF Writing, SurvivalInv, Phases
  <2> QED BY <1>1, <1>3, <2>1 DEF Budget
<1> QED BY <1>2, <1>3, FileChanges

-----------------------------------------------------------------------------
\* What steps that leave the waiting timers, the file and the counts alone have to show.
LEMMA BudgetFrame ==
    ASSUME SurvivalInv, Budget, UNCHANGED <<toLoad, disk, pc, starts>>, saveEvents => saveEvents' = TRUE,
           \A i \in Timers : life'[i] = "new" => life[i] = "new",
           AllFit(events', starts), AllAsked(events', life'), InOnce(events'),
           \A j \in DOMAIN events' :
              \/ \E i \in DOMAIN events : events'[j].info = events[i].info
              \/ /\ \A k \in DOMAIN toLoad : toLoad[k].info # events'[j].info
                 /\ \A k \in DOMAIN disk.timers : disk.timers[k].info # events'[j].info
    PROVE  Budget'
<1>1. IsList(toLoad) /\ IsList(disk.timers)
  BY DEF SurvivalInv, TypeOK, IsFile
<1>2. ASSUME NEW f, IsList(f), AllAsked(f, life) PROVE AllAsked(f, life')
  BY <1>2, ListInfo DEF AllAsked
<1>3. Apart(events', toLoad)
  BY DEF Budget, Apart
<1>4. pc["timer"] = "wait" => Apart(events', disk.timers)
  BY DEF Budget, Apart
<1>5. pc["timer"] = "wait" \/ ~saveEvents' => AllFit(disk.timers, starts)
  BY DEF Budget, SurvivalInv, TypeOK
<1> QED BY <1>1, <1>2, <1>3, <1>4, <1>5 DEF Budget

LEMMA TurnKeepsBudget ==
    ASSUME SurvivalInv, Budget, UNCHANGED <<toLoad, disk, pc, starts>>, saveEvents => saveEvents' = TRUE,
           NEW id \in DOMAIN events, NEW e, e.info = events[id].info, Fits(e, starts[e.info]),
           events' = [events EXCEPT ![id] = e], \A i \in Timers : life'[i] = "new" => life[i] = "new"
    PROVE  Budget'
<1>1. AllFit(events', starts) /\ AllAsked(events', life) /\ InOnce(events')
  BY ListTurns DEF Budget
<1>2. \A j \in DOMAIN events' : j \in DOMAIN events /\ events'[j].info = events[j].info
  OBVIOUS
<1>3. \A j \in DOMAIN events' : events'[j].info \in Timers
  BY <1>2, ListInfo DEF SurvivalInv, TypeOK
<1>4. AllAsked(events', life')
  BY <1>1, <1>3 DEF AllAsked
<1> QED BY <1>1, <1>2, <1>4, BudgetFrame

-----------------------------------------------------------------------------
\* The commands.
LEMMA AddKeepsBudget ==
    ASSUME SurvivalInv, Budget, NEW i \in Timers, AddTimer(i) PROVE Budget'
<1> DEFINE n == eventID + 1
           e == [Requested(i) EXCEPT !.repeat = Repetition(@)]
<1>1. e.info = i /\ e.repeat = Repetition(Request[i].repeat) /\ e.count = Request[i].count
  BY DEF Requested
<1>2. /\ life[i] = "new" /\ life'[i] = "active" /\ \A j \in Timers \ {i} : life'[j] = life[j]
      /\ events' = With(events, n, e) /\ n \notin DOMAIN events
  BY DEF AddTimer, Insert, SurvivalInv, TypeOK
<1>3. UNCHANGED <<toLoad, disk, pc, starts>> /\ saveEvents' = TRUE
  BY DEF AddTimer, ListCommand, locals
<1>4. starts[i] = 0
  BY <1>2 DEF Budget
<1>5. Request[i].count \in Nat
  BY ConstantsAssumption DEF RequestType
<1> HIDE DEF n, e
<1>6. Fits(e, 0)
  BY <1>1, <1>5 DEF Fits, FitsOnce, FitsCount
<1>7. /\ \A j \in DOMAIN events : events[j].info # i
      /\ \A j \in DOMAIN toLoad : toLoad[j].info # i
      /\ \A j \in DOMAIN disk.timers : disk.timers[j].info # i
  BY <1>2 DEF Budget, AllAsked
<1>8. AllAsked(events, life')
  <2>1. \A id \in DOMAIN events : events[id].info \in Timers
    BY ListInfo DEF SurvivalInv, TypeOK
  <2> QED BY <1>2, <2>1 DEF Budget, AllAsked
<1>9. AllFit(events', starts) /\ AllAsked(events', life') /\ InOnce(events')
  <2>1. AllFit(events, starts) /\ InOnce(events)
    BY DEF Budget
  <2>2. Fits(e, starts[e.info]) /\ life'[e.info] # "new"
    BY <1>1, <1>2, <1>4, <1>6
  <2> QED BY <1>1, <1>2, <1>7, <1>8, <2>1, <2>2, ListAdds
<1>10. DOMAIN events' = DOMAIN events \cup {n} /\ events'[n] = e /\ \A j \in DOMAIN events : events'[j] = events[j]
  BY <1>2 DEF With
<1>11. \A j \in DOMAIN events' :
          \/ \E k \in DOMAIN events : events'[j].info = events[k].info
          \/ /\ \A k \in DOMAIN toLoad : toLoad[k].info # events'[j].info
             /\ \A k \in DOMAIN disk.timers : disk.timers[k].info # events'[j].info
  BY <1>1, <1>7, <1>10
<1>12. \A j \in Timers : life'[j] = "new" => life[j] = "new"
  BY <1>2
<1> QED BY <1>3, <1>9, <1>11, <1>12, BudgetFrame

\* A modified timer does not repeat any more, and is due if it was.
LEMMA FitModified ==
    ASSUME ChangesEnd, NEW e \in Event(Timers), NEW n \in Nat, Fits(e, n), NEW c \in Changes
    PROVE  Fits(Modified(e, c), n) /\ Modified(e, c).info = e.info
<1> DEFINE r == Modified(e, c)
<1>1. r.info = e.info /\ r.repeat = "ONCE" /\ (Due(r) <=> Due(e))
  BY DEF Modified, Event, ChangesEnd, Due
<1>2. e.count \in Nat /\ Request[e.info].count \in Nat
  BY ConstantsAssumption DEF Event, RequestType
<1> HIDE DEF r
<1>3. FitsOnce(e, n) => FitsOnce(r, n)
  BY <1>1 DEF FitsOnce
<1>4. FitsCount(e, n) => FitsCount(r, n)
  BY <1>1, <1>2 DEF FitsCount
<1>5. Fits(r, n) /\ r.info = e.info
  BY <1>1, <1>3, <1>4 DEF Fits
<1> QED BY <1>5 DEF r

LEMMA ChangeKeepsBudget ==
    ASSUME ChangesEnd, SurvivalInv, Budget, ListChanges,
           \A id \in DOMAIN events, d \in Diffs : ~RescheduleTimer(id, d)
    PROVE  Budget'
<1> USE DEF lists, locals, history, bounds
<1>1. ASSUME NEW id \in DOMAIN events
      PROVE  events[id] \in Event(Timers) /\ events[id].info \in Timers
             /\ Fits(events[id], starts[events[id].info]) /\ starts[events[id].info] \in Nat
  BY ListInfo DEF SurvivalInv, TypeOK, Budget, AllFit
<1>2. ASSUME NEW id \in DOMAIN events, RemoveTimer(id) \/ StopTimer(id) PROVE Budget'
  <2>1. PICK s \in Finished : events' = [events EXCEPT ![id].state = s]
    BY <1>2 DEF RemoveTimer, StopTimer, Finished
  <2> DEFINE e == [events[id] EXCEPT !.state = s]
  <2>2. events' = [events EXCEPT ![id] = e]
    BY <2>1
  <2>3. e \in Event(Timers) /\ e.info = events[id].info /\ e.repeat = events[id].repeat
        /\ e.count = events[id].count /\ ~Due(e)
    BY <1>1 DEF Event, Finished, States, Due
  <2> HIDE DEF e
  <2>4. Fits(e, starts[e.info])
    BY <1>1, <2>3, FitKept
  <2>5. UNCHANGED <<toLoad, disk, pc, starts, saveEvents>>
    BY <1>2 DEF RemoveTimer, StopTimer, ListCommand
  <2>6. \A i \in Timers : life'[i] = "new" => life[i] = "new"
    BY <1>2 DEF RemoveTimer, StopTimer, SurvivalInv, TypeOK
  <2>7. saveEvents => saveEvents' = TRUE
    BY <2>5 DEF SurvivalInv, TypeOK
  <2> QED BY <2>2, <2>3, <2>4, <2>5, <2>6, <2>7, TurnKeepsBudget
<1>3. ASSUME NEW id \in DOMAIN events, SetAPid(id) PROVE Budget'
  <2> DEFINE e == [events[id] EXCEPT !.apids = TRUE]
  <2>2. events' = [events EXCEPT ![id] = e] /\ life' = life /\ saveEvents' = TRUE
    BY <1>3 DEF SetAPid
  <2>3. e \in Event(Timers) /\ e.info = events[id].info /\ e.repeat = events[id].repeat
        /\ e.count = events[id].count /\ (Due(e) => Due(events[id]))
    BY <1>1 DEF Event, Due
  <2> HIDE DEF e
  <2>4. Fits(e, starts[e.info])
    BY <1>1, <2>3, FitKept
  <2>5. UNCHANGED <<toLoad, disk, pc, starts>>
    BY <1>3 DEF SetAPid, ListCommand
  <2> QED BY <2>2, <2>3, <2>4, <2>5, TurnKeepsBudget
<1>4. ASSUME NEW id \in DOMAIN events, NEW c \in Changes, ModifyTimer(id, c) PROVE Budget'
  <2> DEFINE e == Modified(events[id], c)
  <2>2. events' = [events EXCEPT ![id] = e] /\ life' = life /\ saveEvents' = TRUE
    BY <1>4 DEF ModifyTimer, Modified
  <2>3. Fits(e, starts[events[id].info]) /\ e.info = events[id].info
    BY <1>1, FitModified
  <2> HIDE DEF e
  <2>5. UNCHANGED <<toLoad, disk, pc, starts>>
    BY <1>4 DEF ModifyTimer, ListCommand
  <2> QED BY <2>2, <2>3, <2>5, TurnKeepsBudget
<1> QED BY <1>2, <1>3, <1>4, AddKeepsBudget DEF ListChanges

-----------------------------------------------------------------------------
\* The load: the file is the list of what is left to load, and a timer taken from it fits as before.
LEMMA LoadBeginsInBudget == ASSUME SurvivalInv, Budget, TimeIsSet PROVE Budget'
<1>1. /\ toLoad' = disk.timers /\ UNCHANGED <<events, starts, life, disk, saveEvents>>
      /\ pc["timer"] = "wait" /\ pc'["timer"] = "load"
  BY DEF TimeIsSet, At, lists, locals, history, SurvivalInv, TypeOK
<1>2. AllFit(disk.timers, starts) /\ Apart(events, disk.timers)
  BY <1>1 DEF Budget
<1> QED BY <1>1, <1>2 DEF Budget

LEMMA FitRestored ==
    ASSUME NEW e \in Event(Timers), NEW n \in Nat, Fits(e, n), NEW t \in Int
    PROVE  LET r == [Restored(e, t) EXCEPT !.repeat = Repetition(@)] IN Fits(r, n) /\ r.info = e.info
<1> DEFINE r == [Restored(e, t) EXCEPT !.repeat = Repetition(@)]
<1>1. r.info = e.info /\ r.repeat = Repetition(e.repeat) /\ r.count = e.count /\ (Due(r) => Due(e))
  BY DEF Restored, Event, Due
<1>2. e.count \in Nat /\ Request[e.info].count \in Nat
  BY ConstantsAssumption DEF Event, RequestType
<1> HIDE DEF r
<1>3. FitsOnce(e, n) => FitsOnce(r, n)
  BY <1>1 DEF FitsOnce, Repetition
<1>4. FitsCount(e, n) => FitsCount(r, n)
  <2>1. CASE e.repeat = "WEEKDAYS"
    BY <1>1, <1>2, <2>1 DEF FitsCount, Repetition
  <2>2. CASE e.repeat # "WEEKDAYS"
    BY <1>1, <1>2, <2>2 DEF FitsCount, Repetition
  <2> QED BY <2>1, <2>2
<1>5. Fits(r, n) /\ r.info = e.info
  BY <1>1, <1>3, <1>4 DEF Fits
<1> QED BY <1>5 DEF r

LEMMA LoadKeepsBudget == ASSUME SurvivalInv, Budget, LoadEvent PROVE Budget'
<1> USE DEF lists, locals, history, bounds
<1>1. PICK i \in DOMAIN toLoad :
        /\ toLoad' = Without(toLoad, i)
        /\ \/ /\ life' = [life EXCEPT ![toLoad[i].info] = IF @ = "removed" THEN @ ELSE "ended"]
              /\ UNCHANGED events
           \/ Insert(Restored(toLoad[i], now)) /\ UNCHANGED life
  BY DEF LoadEvent
<1>2. UNCHANGED <<pc, disk, starts, saveEvents>> /\ pc["timer"] # "wait"
  BY DEF LoadEvent
<1>3. /\ toLoad[i] \in Event(Timers) /\ toLoad[i].info \in Timers /\ starts[toLoad[i].info] \in Nat
      /\ now \in Int /\ IsList(events) /\ IsList(toLoad) /\ IsList(disk.timers)
  BY ListInfo DEF SurvivalInv, TypeOK, IsFile
<1>4. /\ AllFit(toLoad', starts) /\ AllAsked(toLoad', life) /\ InOnce(toLoad')
      /\ DOMAIN toLoad' = DOMAIN toLoad \ {i} /\ \A j \in DOMAIN toLoad' : toLoad'[j] = toLoad[j]
  <2>1. AllFit(toLoad', starts) /\ AllAsked(toLoad', life) /\ InOnce(toLoad')
    BY <1>1, ListDrops DEF Budget
  <2> QED BY <1>1, <2>1 DEF Without
<1>5. CASE /\ life' = [life EXCEPT ![toLoad[i].info] = IF @ = "removed" THEN @ ELSE "ended"]
           /\ UNCHANGED events
  <2>1. \A j \in Timers : life'[j] = "new" => life[j] = "new"
    BY <1>5 DEF SurvivalInv, TypeOK
  <2>2. ASSUME NEW f, IsList(f), AllAsked(f, life) PROVE AllAsked(f, life')
    BY <2>1, <2>2, ListInfo DEF AllAsked
  <2>3. AllAsked(events', life') /\ AllAsked(toLoad', life') /\ AllAsked(disk'.timers, life')
    <3>1. AllAsked(toLoad', life')
      <4>1. \A j \in DOMAIN toLoad' : toLoad'[j].info \in Timers
        BY <1>3, <1>4, ListInfo
      <4> QED BY <1>4, <2>1, <4>1 DEF AllAsked
    <3> QED BY <1>2, <1>3, <1>5, <2>2, <3>1 DEF Budget
  <2>4. Apart(events', toLoad')
    BY <1>4, <1>5 DEF Budget, Apart
  <2> QED BY <1>2, <1>4, <1>5, <2>1, <2>3, <2>4 DEF Budget
<1>6. CASE Insert(Restored(toLoad[i], now)) /\ UNCHANGED life
  <2> DEFINE n == eventID + 1
             e == [Restored(toLoad[i], now) EXCEPT !.repeat = Repetition(@)]
  <2>1. Fits(e, starts[toLoad[i].info]) /\ e.info = toLoad[i].info
    BY <1>3, FitRestored DEF Budget, AllFit
  <2>2. events' = With(events, n, e) /\ n \notin DOMAIN events
    BY <1>6 DEF Insert, SurvivalInv, TypeOK
  <2> HIDE DEF n, e
  <2>3. \A j \in DOMAIN events : events[j].info # e.info
    BY <2>1 DEF Budget, Apart
  <2>4. AllFit(events', starts) /\ AllAsked(events', life) /\ InOnce(events')
    <3>1. AllFit(events, starts) /\ AllAsked(events, life) /\ InOnce(events)
      BY DEF Budget
    <3>2. life[e.info] # "new"
      BY <2>1 DEF Budget, AllAsked
    <3> QED BY <2>1, <2>2, <2>3, <3>1, <3>2, ListAdds
  <2>5. DOMAIN events' = DOMAIN events \cup {n} /\ events'[n] = e
        /\ \A j \in DOMAIN events : events'[j] = events[j]
    BY <2>2 DEF With
  <2>6. Apart(events', toLoad')
    <3>1. \A j \in DOMAIN toLoad' : toLoad'[j].info # e.info
      BY <1>4, <2>1 DEF Budget, InOnce
    <3>2. \A k \in DOMAIN events, j \in DOMAIN toLoad' : events[k].info # toLoad'[j].info
      BY <1>4 DEF Budget, Apart
    <3> QED BY <2>5, <3>1, <3>2 DEF Apart
  <2> QED BY <1>2, <1>4, <1>6, <2>4, <2>6 DEF Budget
<1> QED BY <1>1, <1>5, <1>6

-----------------------------------------------------------------------------
\* The pass: the timer it looks at may start, the others are as before; a start asks for a save.
LEMMA PassKeepsBudget ==
    ASSUME SurvivalInv, passNow <= now, Budget, CheckEvent \/ HangInReschedule PROVE Budget'
<1> DEFINE e == events[cursor]
           fires == MustFire(Announced(e, passNow), passNow)
           n == starts[e.info]
<1>1. /\ cursor \in DOMAIN events /\ e \in Event(Timers) /\ e.info \in Timers /\ n \in Nat
      /\ pc["timer"] = "check" /\ pc'["timer"] # "wait" /\ DOMAIN toLoad = {}
  <2>1. /\ cursor \in DOMAIN events /\ pc["timer"] = "check"
        /\ pc' = pc \/ pc' = [pc EXCEPT !["timer"] = "hung"]
    BY DEF CheckEvent, HangInReschedule, SurvivalInv, TypeOK, At
  <2>2. pc'["timer"] # "wait" /\ DOMAIN toLoad = {}
    BY <2>1 DEF SurvivalInv, Phases, TypeOK
  <2> QED BY <2>1, <2>2, ListInfo DEF SurvivalInv, TypeOK
<1>4. /\ starts' = [starts EXCEPT ![e.info] = IF fires THEN @ + 1 ELSE @]
      /\ UNCHANGED <<toLoad, disk>>
      /\ saveEvents' = FALSE => saveEvents = FALSE
  BY DEF CheckEvent, HangInReschedule, Notify, locals, SurvivalInv, TypeOK
<1>5. PICK r \in {Iteration(e), Unsettled(e)} :
        /\ r # e => saveEvents' = TRUE
        /\ \/ events' = [events EXCEPT ![cursor] = r] /\ UNCHANGED life
           \/ /\ events' = Without(events, cursor)
              /\ life' = [life EXCEPT ![e.info] = IF @ = "removed" THEN @ ELSE "ended"]
  <2>1. CASE CheckEvent
    <3>1. /\ saveEvents' = (saveEvents \/ NeedsSave(e, Iteration(e)))
          /\ \/ events' = [events EXCEPT ![cursor] = Iteration(e)] /\ UNCHANGED life
             \/ /\ events' = Without(events, cursor)
                /\ life' = [life EXCEPT ![e.info] = IF @ = "removed" THEN @ ELSE "ended"]
      BY <2>1 DEF CheckEvent, Iteration
    <3> QED BY <3>1 DEF NeedsSave
  <2>2. CASE HangInReschedule
    <3>1. /\ saveEvents' = (saveEvents \/ Unsettled(e) # e)
          /\ events' = [events EXCEPT ![cursor] = Unsettled(e)] /\ UNCHANGED life
      BY <2>2 DEF HangInReschedule, Unsettled
    <3> QED BY <3>1
  <2> QED BY <2>1, <2>2
<1>2. r.info = e.info
  BY <1>1, <1>5, IterationKeepsInfo DEF SurvivalInv
<1>3. /\ Fits(r, IF fires THEN n + 1 ELSE n)
      /\ fires => Bounded(e.info, n + 1) /\ r # e
  BY <1>1, <1>5, FitIteration DEF SurvivalInv, Budget, AllFit
<1>6. fires => saveEvents' = TRUE
  BY <1>3, <1>5
<1>7. saveEvents' = FALSE => saveEvents = FALSE
  BY <1>4
<1> HIDE DEF e, fires, n
<1>8. /\ starts'[e.info] = IF fires THEN n + 1 ELSE n
      /\ \A i \in Timers \ {e.info} : starts'[i] = starts[i]
  BY <1>1, <1>4 DEF SurvivalInv, TypeOK, n
<1>9. /\ DOMAIN events' \subseteq DOMAIN events
      /\ \A j \in DOMAIN events' : events'[j] = IF j = cursor THEN r ELSE events[j]
  BY <1>5 DEF Without
<1>10. \A j \in DOMAIN events : events[j].info \in Timers /\ (j # cursor => events[j].info # e.info)
  <2>1. \A j \in DOMAIN events : events[j].info \in Timers
    BY ListInfo DEF SurvivalInv, TypeOK
  <2> QED BY <1>1, <2>1 DEF Budget, InOnce, e
<1>11. AllFit(events', starts')
  <2> SUFFICES ASSUME NEW j \in DOMAIN events' PROVE Fits(events'[j], starts'[events'[j].info])
    BY DEF AllFit
  <2>1. CASE j = cursor
    BY <1>2, <1>3, <1>8, <1>9, <2>1
  <2>2. CASE j # cursor
    <3>1. events'[j] = events[j] /\ starts'[events[j].info] = starts[events[j].info]
      BY <1>8, <1>9, <1>10, <2>2
    <3> QED BY <1>9, <3>1 DEF Budget, AllFit
  <2> QED BY <2>1, <2>2
<1>12. \A j \in DOMAIN events' : events'[j].info = events[j].info
  BY <1>2, <1>9 DEF e
<1>13. \A i \in Timers : life'[i] = "new" => life[i] = "new"
  BY <1>5 DEF SurvivalInv, TypeOK
<1>14. AllAsked(events', life') /\ InOnce(events')
  <2>1. InOnce(events')
    BY <1>9, <1>12 DEF Budget, InOnce
  <2>2. AllAsked(events', life')
    BY <1>9, <1>10, <1>12, <1>13 DEF Budget, AllAsked
  <2> QED BY <2>1, <2>2
<1>15. AllAsked(disk.timers, life')
  <2>1. \A j \in DOMAIN disk.timers : disk.timers[j].info \in Timers
    BY ListInfo DEF SurvivalInv, TypeOK, IsFile
  <2> QED BY <1>13, <2>1 DEF Budget, AllAsked
<1>16. ~saveEvents' => AllFit(disk.timers, starts')
  <2>1. ASSUME ~saveEvents' PROVE starts' = starts /\ ~saveEvents
    <3>1. ~fires
      BY <1>6, <2>1
    <3>2. ~saveEvents
      BY <1>7, <2>1 DEF SurvivalInv, TypeOK
    <3> QED BY <1>4, <3>1, <3>2 DEF SurvivalInv, TypeOK
  <2> QED BY <2>1 DEF Budget
<1>17. \A i \in Timers : Bounded(i, starts'[i]) /\ (life'[i] = "new" => starts'[i] = 0)
  <2> SUFFICES ASSUME NEW i \in Timers
               PROVE  Bounded(i, starts'[i]) /\ (life'[i] = "new" => starts'[i] = 0)
    OBVIOUS
  <2>1. CASE i = e.info
    <3>1. life[i] # "new"
      BY <1>1, <2>1 DEF Budget, AllAsked, e
    <3>2. Bounded(i, n)
      BY <2>1 DEF Budget, n
    <3> QED BY <1>3, <1>8, <1>13, <2>1, <3>1, <3>2
  <2>2. CASE i # e.info
    BY <1>8, <1>13, <2>2 DEF Budget
  <2> QED BY <2>1, <2>2
<1>18. AllFit(toLoad, starts') /\ AllAsked(toLoad, life') /\ Apart(events', toLoad)
  BY <1>1 DEF AllFit, AllAsked, Apart
<1> QED BY <1>1, <1>4, <1>11, <1>14, <1>15, <1>16, <1>17, <1>18 DEF Budget

-----------------------------------------------------------------------------
LEMMA BudgetKept ==
    ASSUME ChangesEnd, SurvivalInv, Orderly, Budget, MCNext,
           trouble' \cap {"poweroff", "tear", "reschedule"} = {}
    PROVE  Budget'
<1>1. /\ Next /\ disk' \in {disk, buf}
      /\ \A id \in DOMAIN events, d \in Diffs : ~RescheduleTimer(id, d)
  BY Troubles
<1>2. CASE PowerFailure \/ ColdStart
  BY <1>2, RestartKeepsBudget
<1>3. CASE ~PowerFailure /\ ~ColdStart /\ UNCHANGED <<events, toLoad, starts, life>>
  <2>1. /\ pc'["timer"] = "wait" \/ ~saveEvents' => AllFit(disk'.timers, starts)
        /\ AllAsked(disk'.timers, life) /\ InOnce(disk'.timers)
        /\ pc'["timer"] = "wait" => pc["timer"] = "wait" /\ disk' = disk
    BY <1>1, <1>3, FileKeepsUp
  <2> QED BY <1>3, <2>1 DEF Budget
<1>4. CASE TimeIsSet \/ LoadEvent \/ CheckEvent \/ HangInReschedule
  BY <1>4, LoadBeginsInBudget, LoadKeepsBudget, PassKeepsBudget DEF Orderly
<1>5. CASE ListChanges
  BY <1>1, <1>5, ChangeKeepsBudget
<1> QED BY <1>1, <1>2, <1>3, <1>4, <1>5, Keeping

\* A timer that does not repeat starts at most once, and one with a repeat count at most that often,
\* through every interleaving of commands, passes, saves, shutdowns and cold starts: every start
\* changes the timer and so asks for a save (timermanager.cpp:128-187), a shutdown does not end before
\* that save is done, and a start reads what it wrote (:409-615, :633-658). Not if the power failed or
\* a file was cut off before the save, or a client rescheduled a timer or made it repeat.
THEOREM StartsAreBounded == ASSUME ChangesEnd PROVE MCSpec => []UndisturbedStartsBounded
<1>1. MCInit => BudgetInv
  <2> SUFFICES ASSUME MCInit PROVE BudgetInv
    OBVIOUS
  <2>1. Init
    BY DEF MCInit
  <2>2. /\ DOMAIN events = {} /\ DOMAIN toLoad = {} /\ DOMAIN disk.timers = {}
        /\ pc["server"] = "idle" /\ passNow <= now /\ \A i \in Timers : starts[i] = 0
    BY <2>1 DEF Init, EmptyList, NoFile
  <2>3. \A i \in Timers : Bounded(i, 0)
    <3>1. \A i \in Timers : Request[i].count \in Nat
      BY ConstantsAssumption DEF RequestType
    <3> QED BY <3>1 DEF Bounded
  <2>4. Budget
    BY <2>2, <2>3 DEF Budget, AllFit, AllAsked, InOnce, Apart
  <2> QED BY <2>2, <2>4 DEF BudgetInv, Orderly
<1>2. SurvivalInv /\ BudgetInv /\ [MCNext]_mcvars => BudgetInv'
  <2>1. ASSUME SurvivalInv, BudgetInv, MCNext PROVE BudgetInv'
    <3>1. Next /\ trouble \subseteq trouble'
      BY <2>1, Troubles
    <3>2. Orderly'
      BY <2>1, <3>1, OrderlyKept DEF SurvivalInv, BudgetInv
    <3>3. ASSUME trouble' \cap {"poweroff", "tear", "reschedule"} = {} PROVE Budget'
      <4>1. trouble \cap {"poweroff", "tear", "reschedule"} = {}
        BY <3>1, <3>3
      <4> QED BY <2>1, <3>3, <4>1, BudgetKept DEF BudgetInv
    <3> QED BY <3>2, <3>3 DEF BudgetInv
  <2>2. ASSUME BudgetInv, UNCHANGED mcvars PROVE BudgetInv'
    <3>1. UNCHANGED <<trouble, passNow, now, pc, saveEvents, events, toLoad, disk, starts, life>>
      BY <2>2 DEF mcvars, vars, lists, locals, history
    <3> QED BY <2>2, <3>1 DEF BudgetInv, Orderly, Budget, AllFit, AllAsked, InOnce, Apart
  <2> QED BY <2>1, <2>2
<1>3. BudgetInv => UndisturbedStartsBounded
  BY DEF BudgetInv, Budget, Bounded, UndisturbedStartsBounded, StartsBounded
<1> QED BY <1>1, <1>2, <1>3, Survival, PTL DEF MCSpec, mcvars
=============================================================================

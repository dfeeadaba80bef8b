------------------------------ MODULE RCInput ------------------------------
(***************************************************************************)
(* The input loop of neutrino: class CRCInput (rcinput.cpp).               *)
(*                                                                         *)
(* The main thread asks for the next message and gets an expired timer, a  *)
(* message of the high priority pipe, an event of another process, a key,  *)
(* a message of the low priority pipe, or a timeout.  Times are compared   *)
(* on the wall clock, which sectionsd or the loop itself set when they     *)
(* learn the time; select sleeps in real time.                             *)
(*                                                                         *)
(* "now" is the real time in ticks that are far longer than the tolerances *)
(* of the code (2 ms in checkTimers, 100 us in getMsgAbsoluteTimeout).     *)
(* Callers are the main loop, which always asks again, and the dialogs it  *)
(* opens, each with the wall-clock time at which it closes by itself.      *)
(***************************************************************************)
EXTENDS Integers, SequencesExt

CONSTANTS
    None,          \* no key
    Repeating,     \* the keys that may repeat: the arrows, volume, pages
    Plain,         \* the other keys; "ok" and "standby" are two of them
    RepeatBlock, GenericBlock, \* repeat_block, repeat_block_generic
    MainTimeout,   \* the timeout of the main loop
    DialogTimeout, \* the timeout of the dialogs
    Intervals,     \* bound: what timers are set to
    Offsets,       \* bound: the wall clock minus real time, when the clock is set
    Scenarios,     \* bound: what other processes, users and handlers do in a behaviour
    MaxInputs,     \* bound: how often they do it
    MaxPending,    \* bound: the keys, events and messages that wait to be read
    MaxTimers,     \* bound: the timers that are ever added
    MaxTime        \* bound: real time

\* The messages that are not keys.
Names == {"TIMER", "TIMEOUT", "TIMESET", "INFO", "BOX", "UNKNOWN"}

ASSUME ConstantsAssumption ==
    /\ Repeating \cap Plain = {} /\ None \notin Repeating \cup Plain
    /\ {"ok", "standby"} \subseteq Plain
    /\ (Repeating \cup Plain) \cap ({"nothing"} \cup Names) = {}
    /\ {RepeatBlock, GenericBlock, MainTimeout, DialogTimeout, MaxInputs, MaxPending,
         MaxTimers, MaxTime} \subseteq Nat
    /\ Intervals \subseteq Nat \ {0} /\ Offsets \subseteq Nat

\* The clock is far from its zero, in 1970.
ASSUME ClockAssumption == \A o \in Offsets : o > MaxTime + GenericBlock

VARIABLES
    now, offset,        \* real time, and the wall clock minus real time
    timers, timerid,
    high, low,          \* the two pipes
    socket,             \* events waiting to be accepted
    device,             \* key events waiting to be read
    held,               \* the key the user holds down
    rc_last_key, rc_last_repeat_key, last_keypress,
    dialogs,            \* the open dialogs, the innermost first
    pc,                 \* where the main thread is
    Timeout, getKeyBegin, timer_id, wake, \* locals of getMsg_us
    msg,                \* what the caller has to handle
    due,                \* history: when a timer must fire, in real time
    follows,            \* history: the timers have followed the clock in their order
    woken,              \* history: wake-ups of this call that brought no message
    accepted,           \* history: when the last accepted key was pressed
    torn,               \* history: clearRCMsg was called since the held key was last sent
    moved,              \* history: how the clock was set
    users,              \* the scenario of this behaviour
    inputs              \* the counter that MaxInputs bounds

clock   == <<now, offset>>
alarm   == <<timers, timerid, due>>
keys    == <<rc_last_key, rc_last_repeat_key, last_keypress, accepted>>
user    == <<held, torn>>
memory  == <<follows, moved, users>>
sources == <<high, low, socket, device>>
locals  == <<Timeout, getKeyBegin, timer_id, wake>>
call    == <<locals, woken>>
vars    == <<clock, alarm, sources, keys, user, dialogs, pc, call, msg, memory, inputs>>

Wall      == now + offset
Keys      == Repeating \cup Plain
Info(m)   == [name |-> m, data |-> 0]
Nothing   == Info("nothing")
Least(S)  == CHOOSE x \in S : \A y \in S : x <= y

\* getMsg_us returns: its locals are gone.
Deliver(m) ==
    /\ msg' = m /\ pc' = "caller"
    /\ Timeout' = 0 /\ getKeyBegin' = 0 /\ timer_id' = 0 /\ wake' = 0
Goto(label) == pc' = label /\ UNCHANGED <<locals, msg>>

Using(u)  == u \in users /\ inputs < MaxInputs /\ inputs' = inputs + 1
Arrives(u) == Using(u) /\ Len(high) + Len(socket) + Len(device) + Len(low) < MaxPending

-----------------------------------------------------------------------------
InsertedLast(s, t) == Append(s, t)  \* mutant

\* A timer goes before the first one that is due later.
Inserted(s, t) ==
    LET later == SelectInSeq(s, LAMBDA e : e.times_out > t.times_out)
    IN  IF later = 0 THEN Append(s, t) ELSE InsertAt(s, later, t)

Again(t) == [t EXCEPT !.times_out = (IF t.correct_time THEN Wall ELSE @) + t.interval]

\* checkTimers takes the first timer that is due out of the vector, wherever it is.
Expired == SelectInSeq(timers, LAMBDA e : e.times_out <= Wall)

FireTimer ==
    LET t == timers[Expired]  rest == RemoveAt(timers, Expired)
    IN  /\ timers' = IF t.interval = 0 THEN rest ELSE Inserted(rest, Again(t))
        /\ due' = [due EXCEPT ![t.id] = IF t.interval = 0 THEN 0 ELSE now + t.interval]
        /\ Deliver([name |-> "TIMER", data |-> t.id])

NextIdKept == timerid  \* mutant
NextId     == timerid + 1

\* addTimer: in an interval, once or again and again, or at a time of the wall clock.
AddTimer(i, oneshot, correct_time) ==
    LET t == [id |-> timerid, times_out |-> Wall + i,
              interval |-> IF oneshot THEN 0 ELSE i, correct_time |-> correct_time]
    IN  /\ timerid <= MaxTimers
        /\ timers' = Inserted(timers, t) /\ timerid' = NextId
        /\ due' = [due EXCEPT ![timerid] = now + i]

KillTimer(id) ==
    timers' = RemoveAt(timers, SelectInSeq(timers, LAMBDA e : e.id = id))

-----------------------------------------------------------------------------
\* getMsg and getMsgAbsoluteTimeout: the time left until the caller gives up.
GetMsg ==
    /\ pc = "caller" /\ msg = Nothing
    /\ Timeout' = IF dialogs = <<>> THEN MainTimeout
                  ELSE IF Head(dialogs).end < Wall THEN 0 ELSE Head(dialogs).end - Wall
    /\ getKeyBegin' = Wall
    /\ pc' = "loop"
    /\ UNCHANGED <<clock, alarm, sources, keys, user, dialogs, timer_id, wake, woken, msg,
                   memory, inputs>>

SleepUntilTimer(left) == left  \* mutant

\* The time to sleep when the first timer is due after "left".
Sleep(left) == Least({left, Timeout})

\* The first timer is overdue: nothing else is looked at.
TimerFirst ==
    /\ pc = "loop" /\ timers # <<>> /\ Head(timers).times_out < Wall
    /\ FireTimer
    /\ UNCHANGED <<clock, timerid, sources, keys, user, dialogs, woken, memory, inputs>>

EnterSelect ==
    LET left == Head(timers).times_out - Wall
    IN  /\ pc = "loop" /\ (timers # <<>> => left >= 0)
        /\ wake' = now + IF timers = <<>> THEN Timeout ELSE Sleep(left)
        /\ timer_id' = IF timers # <<>> /\ left <= Timeout THEN Head(timers).id ELSE 0
        /\ pc' = "select"
        /\ UNCHANGED <<clock, alarm, sources, keys, user, dialogs, Timeout, getKeyBegin,
                       woken, msg, memory, inputs>>

Ready == \E source \in {high, socket, device, low} : source # <<>>

\* select returns 0: a timer has expired, or the caller's time is over.
SelectTimesOut ==
    /\ pc = "select" /\ ~Ready /\ now >= wake
    /\ \/ /\ timer_id # 0 /\ Expired # 0
          /\ FireTimer
       \/ /\ timer_id # 0 /\ Expired = 0
          /\ Goto("loop") /\ UNCHANGED <<timers, due>>
       \/ /\ timer_id = 0
          /\ Deliver(Info("TIMEOUT")) /\ UNCHANGED <<timers, due>>
    /\ UNCHANGED <<clock, timerid, sources, keys, user, dialogs, woken, memory, inputs>>

ReadHigh ==
    /\ pc = "select" /\ high # <<>>
    /\ high' = Tail(high) /\ Deliver(Head(high))
    /\ UNCHANGED <<clock, alarm, low, socket, device, keys, user, dialogs, woken, memory,
                   inputs>>

UnshiftedTimers(diff) == timers  \* mutant

\* Only the timers that were set in an interval follow the clock; none is moved.
ShiftedTimers(diff) ==
    [i \in DOMAIN timers |->
        [timers[i] EXCEPT !.times_out = IF timers[i].correct_time THEN @ + diff ELSE @]]

\* The timers are of one kind, so that all of them follow the clock or none does.
OneKind == \A s, t \in Range(timers) : s.correct_time = t.correct_time

\* How the clock has been set so far.  Calmly: by EVT_TIMESET while no key waits with a time of the
\* clock before, or forward by another process.  Once: by a single long step.
Moves(diff, calm) ==
    moved' = CASE diff = 0 -> moved
               [] diff # 0 /\ calm /\ moved \in {"never", "calmly"} -> "calmly"
               [] ~calm /\ moved = "never" /\ diff \notin -MaxTime..MaxTime -> "once"
               [] OTHER -> "anyhow"

\* EVT_TIMESET: the clock is set to the time in the event.
SetTime(time) ==
    LET diff == time - Wall
    IN  /\ offset' = time - now
        /\ last_keypress' = last_keypress + IF last_keypress > diff THEN diff ELSE 0
        /\ timers' = ShiftedTimers(diff)
        /\ follows' = (follows /\ OneKind)
        /\ Moves(diff, device = <<>>)
        /\ Deliver([name |-> "TIMESET", data |-> diff])
        /\ UNCHANGED <<rc_last_key, rc_last_repeat_key, accepted>>

\* One event is accepted; an unknown one leaves the loop to the keys.
ReadEvent ==
    LET e == Head(socket)
    IN  /\ pc = "select" /\ high = <<>> /\ socket # <<>>
        /\ socket' = Tail(socket)
        /\ \/ /\ e.name = "UNKNOWN"
              /\ Goto("keys") /\ UNCHANGED <<offset, keys, timers, follows, moved>>
           \/ /\ e.name = "TIMESET"
              /\ SetTime(e.data)
           \/ /\ e.name \notin {"UNKNOWN", "TIMESET"}
              /\ Deliver(e) /\ UNCHANGED <<offset, keys, timers, follows, moved>>
        /\ UNCHANGED <<now, timerid, due, high, low, device, user, dialogs, woken, users,
                       inputs>>

AtKeys == pc = "keys" \/ (pc = "select" /\ high = <<>> /\ socket = <<>>)
AtLow  == pc = "low" \/ (AtKeys /\ device = <<>>)

\* Keys are accepted again after a time, or when the clock was set back.  (A negative
\* last_keypress is a huge unsigned one in the code: any key is distant from both.)
Distant(time, block) == time > last_keypress + block \/ time < last_keypress

MayRepeatAny(e) == rc_last_repeat_key = e.key \/ Distant(e.time, RepeatBlock)  \* mutant

MayRepeat(e) ==
    e.key \in Repeating /\ (rc_last_repeat_key = e.key \/ Distant(e.time, RepeatBlock))

KeyDown(e) ==
    LET repeated == e.key = rc_last_key
        keyok    == ~repeated \/ MayRepeat(e)
    IN  /\ rc_last_key' = e.key
        /\ rc_last_repeat_key' = CASE ~repeated    -> None
                                   [] MayRepeat(e) -> e.key
                                   [] OTHER        -> rc_last_repeat_key
        /\ IF keyok /\ Distant(e.time, GenericBlock)
             THEN last_keypress' = e.time /\ accepted' = e.at /\ Deliver(Info(e.key))
             ELSE Goto("low") /\ UNCHANGED <<last_keypress, accepted>>

AfterReleaseKept(e) == rc_last_key  \* mutant
AfterRelease(e)     == None

KeyUp(e) ==
    /\ rc_last_key' = AfterRelease(e)
    /\ IF e.key = "standby" THEN Deliver([name |-> e.key, data |-> 1])
                            ELSE Goto("low")
    /\ UNCHANGED <<rc_last_repeat_key, last_keypress, accepted>>

ReadKey ==
    /\ AtKeys /\ device # <<>>
    /\ device' = Tail(device)
    /\ IF Head(device).down THEN KeyDown(Head(device)) ELSE KeyUp(Head(device))
    /\ UNCHANGED <<clock, alarm, high, low, socket, user, dialogs, woken, memory, inputs>>

ReadLow ==
    /\ AtLow /\ low # <<>>
    /\ low' = Tail(low) /\ Deliver(Head(low))
    /\ UNCHANGED <<clock, alarm, high, socket, device, keys, user, dialogs, woken, memory,
                   inputs>>

\* There was no message: the timeout is made shorter by the time since getMsg_us was
\* called.  A negative difference is a huge one once it is unsigned.
Recalculate ==
    LET diff == Wall - getKeyBegin
    IN  /\ AtLow /\ low = <<>> /\ pc # "select"
        /\ woken' = woken + 1
        /\ IF diff < 0 \/ Timeout <= diff
             THEN Deliver(Info("TIMEOUT"))
             ELSE /\ Timeout' = Timeout - diff /\ pc' = "loop"
                  /\ UNCHANGED <<getKeyBegin, timer_id, wake, msg>>
        /\ UNCHANGED <<clock, alarm, sources, keys, user, dialogs, memory, inputs>>

-----------------------------------------------------------------------------
\* sure: history, the dialog was the innermost whenever the clock was set.
Dialog == [end |-> Wall + DialogTimeout, due |-> now + DialogTimeout, sure |-> TRUE]

UncorrectedEnd(end, diff) == end  \* mutant
CorrectedEnd(end, diff)   == end + diff

\* getMsgAbsoluteTimeout corrects the end of the dialog that gets the message.
AfterTimeset(diff) ==
    [i \in DOMAIN dialogs |-> IF i = 1 THEN [dialogs[i] EXCEPT !.end = CorrectedEnd(@, diff)]
                                       ELSE [dialogs[i] EXCEPT !.sure = FALSE]]

\* Keys that mean nothing to a dialog make it stay, "ok" ends it or opens one.
Handle ==
    /\ pc = "caller" /\ msg # Nothing
    /\ msg' = Nothing /\ woken' = 0
    /\ dialogs' = CASE msg.name = "BOX" \/ (msg.name = "ok" /\ dialogs = <<>>) ->
                         <<Dialog>> \o dialogs
                    [] msg.name \in {"TIMEOUT", "ok"} /\ dialogs # <<>> -> Tail(dialogs)
                    [] msg.name \in Keys \ {"ok", "standby"} /\ dialogs # <<>> ->
                         <<Dialog>> \o Tail(dialogs)
                    [] msg.name = "TIMESET" -> AfterTimeset(msg.data)
                    [] OTHER -> dialogs
    /\ UNCHANGED <<clock, alarm, sources, keys, user, pc, locals, memory, inputs>>

\* What handlers do: set and kill timers, write to the pipes.
SetsTimer ==
    /\ pc = "caller"
    /\ \E i \in Intervals :
         \/ Using("oneshot")   /\ AddTimer(i, TRUE, TRUE)
         \/ Using("periodic")  /\ AddTimer(i, FALSE, TRUE)
         \/ Using("programme") /\ AddTimer(i, TRUE, FALSE)
    /\ UNCHANGED <<clock, sources, keys, user, dialogs, pc, call, msg, memory>>

KillsTimer ==
    /\ pc = "caller" /\ Using("kill")
    /\ \E t \in Range(timers) : KillTimer(t.id) /\ due' = [due EXCEPT ![t.id] = 0]
    /\ UNCHANGED <<clock, timerid, sources, keys, user, dialogs, pc, call, msg, memory>>

PostMsg(m, priority) ==
    IF priority THEN high' = Append(high, m) /\ UNCHANGED low
                ELSE low' = Append(low, m) /\ UNCHANGED high

Posts ==
    /\ Arrives("post")
    /\ \E priority \in BOOLEAN : PostMsg(Info("INFO"), priority)
    /\ UNCHANGED <<clock, alarm, socket, device, keys, user, dialogs, pc, call, msg,
                   memory>>

\* clearRCMsg: pending keys are forgotten, and which key was the last.
ClearRCMsg ==
    /\ pc = "caller" /\ Using("clear")
    /\ device' = <<>> /\ rc_last_key' = None
    /\ torn' = (held # None)
    /\ UNCHANGED <<clock, alarm, high, low, socket, rc_last_repeat_key, last_keypress,
                   accepted, held, dialogs, pc, call, msg, memory>>

\* Events of other processes.
SendsEvent ==
    /\ \E m \in {"BOX", "UNKNOWN"} : Arrives(m) /\ socket' = Append(socket, Info(m))
    /\ UNCHANGED <<clock, alarm, high, low, device, keys, user, dialogs, pc, call, msg,
                   memory>>

\* sectionsd has received the time from the transponder and leaves the clock to neutrino.
SendsTime ==
    /\ Arrives("dvb")
    /\ \E o \in Offsets : socket' = Append(socket, [name |-> "TIMESET", data |-> now + o])
    /\ UNCHANGED <<clock, alarm, high, low, device, keys, user, dialogs, pc, call, msg,
                   memory>>

\* sectionsd has the time from NTP and sets the clock before it sends the event.
SetsClock ==
    /\ Arrives("ntp")
    /\ offset' \in Offsets \ {offset}
    /\ socket' = Append(socket, [name |-> "TIMESET", data |-> now + offset'])
    /\ follows' = FALSE /\ Moves(offset' - offset, offset' > offset)
    /\ dialogs' = [i \in DOMAIN dialogs |-> [dialogs[i] EXCEPT !.sure = FALSE]]
    /\ UNCHANGED <<now, alarm, high, low, device, keys, user, pc, call, msg, users>>

\* The kernel sends a key when it goes down, again while it is held, and when it goes up.
UsesKey ==
    /\ Arrives("keys")
    /\ \E k \in Keys, down, fresh \in BOOLEAN :
         /\ IF down /\ fresh THEN held = None ELSE held = k
         /\ ~down => ~fresh
         /\ held' = IF down THEN k ELSE None
         /\ torn' = FALSE
         /\ device' = Append(device, [key |-> k, down |-> down, time |-> Wall, at |-> now,
                                      fresh |-> fresh, torn |-> torn])
    /\ UNCHANGED <<clock, alarm, high, low, socket, keys, dialogs, pc, call, msg, memory>>

\* Time passes in the handlers, and in select while it has nothing to return for.
Tick ==
    /\ now < MaxTime
    /\ pc = "caller" \/ (pc = "select" /\ ~Ready /\ now < wake)
    /\ now' = now + 1
    /\ UNCHANGED <<offset, alarm, sources, keys, user, dialogs, pc, call, msg, memory,
                   inputs>>

Init ==
    /\ now = 0 /\ offset \in Offsets
    /\ timers = <<>> /\ timerid = 1 /\ due = [id \in 1..MaxTimers |-> 0]
    /\ high = <<>> /\ low = <<>> /\ socket = <<>> /\ device = <<>>
    /\ held = None /\ torn = FALSE
    /\ rc_last_key = None /\ rc_last_repeat_key = None /\ last_keypress = 0
    /\ accepted = -(GenericBlock + 1)
    /\ dialogs = <<>> /\ pc = "caller" /\ msg = Nothing
    /\ Timeout = 0 /\ getKeyBegin = 0 /\ timer_id = 0 /\ wake = 0 /\ woken = 0
    /\ follows = TRUE /\ moved = "never" /\ users \in Scenarios /\ inputs = 0

Next ==
    \/ GetMsg \/ TimerFirst \/ EnterSelect \/ SelectTimesOut
    \/ ReadHigh \/ ReadEvent \/ ReadKey \/ ReadLow \/ Recalculate
    \/ Handle \/ SetsTimer \/ KillsTimer \/ Posts \/ ClearRCMsg
    \/ SendsEvent \/ SendsTime \/ SetsClock \/ UsesKey
    \/ Tick

Spec == Init /\ [][Next]_vars
-----------------------------------------------------------------------------
(***************************************************************************)
(* Properties                                                              *)
(***************************************************************************)
Messages == [name : Keys \cup {"nothing"} \cup Names, data : Int]
Events   == [key : Keys, down : BOOLEAN, time : Int, at : 0..MaxTime,
             fresh : BOOLEAN, torn : BOOLEAN]

\* Types, and the ids of the timers in the vector are different: killTimer stops the
\* timer that its caller has set.
TypeOK ==
    /\ now \in 0..MaxTime /\ offset \in Int
    /\ timers \in Seq([id : 1..MaxTimers, times_out : Int, interval : Intervals \cup {0},
                       correct_time : BOOLEAN])
    /\ timerid \in 1..(MaxTimers + 1)
    /\ \A i, j \in DOMAIN timers : timers[i].id = timers[j].id => i = j
    /\ {high, low, socket} \subseteq Seq(Messages) /\ device \in Seq(Events)
    /\ {held, rc_last_key} \subseteq Keys \cup {None}
    /\ rc_last_repeat_key \in Repeating \cup {None} /\ last_keypress \in Int
    /\ dialogs \in Seq([end : Int, due : Nat, sure : BOOLEAN])
    /\ pc \in {"caller", "loop", "select", "keys", "low"}
    /\ Timeout \in Nat /\ timer_id \in 0..MaxTimers
    /\ msg \in Messages /\ inputs \in 0..MaxInputs

Overdue(t) == IF t.correct_time THEN now >= due[t.id] ELSE Wall >= t.times_out

Fires(t) == pc # "caller" /\ pc' = "caller" /\ msg' = [name |-> "TIMER", data |-> t.id]

\* The main thread never sleeps over a timer: checkTimers and the timeout of select trust
\* that the first timer of the vector is the first that is due.  (After the clock was set
\* while some of the timers followed it and others did not, they may be wrong.)
TimersAreNotLate ==
    [][pc = "select" /\ now' # now /\ follows => \A t \in Range(timers) : ~Overdue(t)]_vars

\* A timer does not fire before the time it was set to has passed, although EVT_TIMESET
\* moves the clock it is compared with.
TimersAreNotEarly ==
    [][\A t \in Range(timers) : Fires(t) /\ follows => Overdue(t)]_vars

\* Timers fire in time, neither late nor early.
TimersFireInTime == TimersAreNotLate /\ TimersAreNotEarly

\* A dialog closes in time although timers, keys and events wake the main thread:
\* getMsg_us never sleeps longer than its caller has time.
DialogsAreNotLate ==
    [][pc = "select" /\ now' # now /\ dialogs # <<>> /\ Head(dialogs).sure
         => now < Head(dialogs).due]_vars

GivesUp == pc # "caller" /\ pc' = "caller" /\ msg'.name = "TIMEOUT" /\ dialogs # <<>>

\* A dialog does not close by itself before its time, whenever the clock is set, as long
\* as the main thread is woken up for nothing at most once in a call: the time since the
\* call is then taken off its timeout once.
DialogsAreNotCutShort ==
    [][GivesUp /\ Head(dialogs).sure /\ woken' <= 1 => now >= Head(dialogs).due]_vars

\* Dialogs close by themselves in time, neither late nor early.
DialogsCloseInTime == DialogsAreNotLate /\ DialogsAreNotCutShort

\* rcinput.cpp:511 wants to wait "really the whole time until the timeout", however often
\* the main thread is woken up.
WaitsTheWholeTime ==
    [][GivesUp /\ Head(dialogs).sure => now >= Head(dialogs).due]_vars

Reads(e) ==
    /\ pc \in {"select", "keys"} /\ device # <<>>
    /\ e = Head(device) /\ device' = Tail(device)

\* A key pressed after the last one was released, and later than repeat_block_generic
\* after the last accepted one, reaches the caller: neither the filter of repetitions swallows
\* it, nor a clock that is set while no key waits in the device, nor one that another process
\* sets forward, nor one that is set once, by a long step, while the key waits.
PressesAreSeen ==
    [][\A e \in Range(device) :
         Reads(e) /\ moved # "anyhow" /\ e.down /\ e.fresh /\ e.at > accepted + GenericBlock
           => msg'.name = e.key]_vars

\* A key that must not repeat reaches its caller once, however long it is held, and once
\* more when clearRCMsg has made the loop forget it.
HeldKeysAreSeenOnce ==
    [][\A e \in Range(device) :
         Reads(e) /\ e.down /\ ~e.fresh /\ e.key \in Plain /\ ~e.torn
           => pc' # "caller"]_vars

\* A press acts, and acts once.
PressesActOnce == PressesAreSeen /\ HeldKeysAreSeenOnce
=============================================================================

# Verification of the AZtrino set-top box software

TLA+ models of the parts of AZtrino (neutrino for the AZbox) that several
threads, processes or message senders work on at once, the TLC runs that check
them, and the TLAPS proofs of what holds for every value of the parameters.
Paths are relative to `src/`, the repository.

1. The system
2. Modules
3. Runs and what they show
4. Proofs
5. Disagreements
6. What is not modelled
7. Plan

## 1. The system

The box runs a handful of processes and threads that talk through UNIX sockets.
A client opens a connection, sends one command, waits for the answer if there is
one, and closes (`lib/connection`). Events go the other way: a server opens a
connection to each registered client and writes one event
(`lib/libeventserver`). The user interface, `CNeutrinoApp`, is single threaded:
it takes one message at a time from `CRCInput`, and a handler may show a dialog,
which runs the message loop again.

| Component | State | Operations | Talks to |
|---|---|---|---|
| **timerd** `src/timerd` | list of timers, `m_saveEvents`, `m_isTimeSet`, safety times, `timerd.conf` | client commands (add, remove, stop, modify, reschedule, apids, safety times, shutdown), the timer thread's pass, load, save | events to neutrino; EPG ids from sectionsd |
| **timer client library** `lib/timerdclient` | none | marshalling; `setSleeptimer` makes two commands | timerd |
| **configuration file** `lib/libconfigfile` | key/value map, file | load, save in place | file system |
| **connection** `lib/connection` | sockets | one command per connection | everything |
| **event server** `lib/libeventserver` | map of registered clients | register, send | neutrino |
| **rcinput** `src/driver/rcinput.cpp` | input timers, two message pipes, event socket, remote control devices | wait for the next message, add and kill timers, post | event servers, main thread |
| **neutrino main thread** `src/neutrino.cpp` | `mode`, `recordingstatus`, `recording_id`, `nextRecordingInfo`, `autoshift`, `shift_timer`, `was_record`, `wasshift` | handlers of messages and keys | zapit, timerd, sectionsd, vcrcontrol |
| **vcrcontrol** `src/driver/vcrcontrol.cpp` | `deviceState`, `g_movieInfo` | Record, Stop | zapit, stream2file |
| **stream2file** and **cRecord** `src/driver/stream2file.cpp`, `lib/libazbox/record_cs.cpp` | the recording under way, ring buffer, file | start, stop, reader and writer threads | demux |
| **zapit** `src/zapit` | `currentMode`, `standby`, `playing`, current channel | zap, record mode, standby, playback, scan | EVT_RECORDMODE and EVT_ZAP_COMPLETE to neutrino; camd |
| **zapit cam, pmt, frontend, scan** | CA module state, tuner, channel list | descrambling lists, tuning, scan | hardware |
| **ring buffer** `src/driver/ringbuffer.c` | memory, two pointers | vectors, advances, one writer and one reader without a lock | cRecord, stream2file |
| **sectionsd** `src/sectionsd` | current and next event, EPG cache, flags and key of the channel, demultiplexers, time set flag | a thread per table, the main loop with one command at a time, queries from threads of neutrino | neutrino, zapit's channel changes, demux |
| **common interface** `lib/libdvb-ci` | slot and session states | insert, open, close | zapit |
| **dvb subtitles** `lib/libdvbsub` | flags, packet queue, bitmaps, converter | init, pause, start, stop, close; reader and decoder threads | demux, frame buffer, zapit and the main thread |
| **teletext** `lib/libtuxtxt` | pages | decoder thread | demux, frame buffer |
| **shutdown counter** `src/driver/shutdown_count.cpp` | minutes left | its own thread | main thread |
| **web server** `src/nhttpd` | connections, sessions | requests | timerd, zapit, neutrino |
| **players, mounter, user interface** | playback and widget state | front ends | main thread |

### Hard behaviours and correctness

* *timerd.* Two threads share the list under `tm_eventsMutex`, and the flag and
  the safety times without it: the timer thread tests the flag after it has released
  the mutex at the end of a pass, and `setRecordingSafety` sets it without the mutex.
  The file is rewritten in place. A repetition that nobody has implemented is
  looped over for ever with the mutex held. The
  time is unknown after a start until sectionsd has seen a broadcast, and the
  file is loaded only then. The pass over the list erases from the map it
  iterates over. Correct means: nothing programmed is lost, nothing removed comes
  back, every due timer starts, as often as asked, and every recording that was
  started is stopped.
* *neutrino and recording.* "Is something being recorded" is kept in five
  places: timerd's timer, `recordingstatus`, `deviceState`, zapit's record mode
  and the file being written. They are reconciled by messages that may be
  overtaken by keys, by further timers, by nested message loops in error boxes
  and questions, and by standby. Correct means: they agree when
  everything has been handled, one recording is never opened over another, each
  recording ends, one that has to wait is started or dropped, only time shifts
  are deleted, and zapit sleeps exactly when the television is off and nothing is
  recorded.
* *Input loop.* Timeouts are computed from the wall clock, which the broadcast
  time moves; input timers are kept in a sorted vector. Correct means: a timer
  fires once, not before its time, a dialog lasts as long as it was asked to,
  and a press of a key acts once.
* *Ring buffer and recording threads.* Two threads share a buffer without a lock,
  with an advance in two statements. The threads of a recording are joined by nobody and
  read an object that `stop_recording` deletes, and that `start_recording` uses again when
  nobody has stopped the last recording. Correct means: the file holds the
  stream without a gap, and a recording that ends gives everything back.
* *Subtitles.* Up to four threads start, stop and wait for each other through
  flags tested outside the mutex of the condition. Correct means: calls return,
  packets are shown, and a pause leaves nothing on the menu.
* *sectionsd.* The thread of the current and next events reads flags that
  commands, questions and a version filter change, and sleeps on a condition
  whose mutex it takes late. It gives up after 35 seconds, counted from a stamp that a
  pause does not reset, and waits for the time before it reads at all, while commands are
  already handled. Correct means: what is shown is of the channel
  that is watched, it follows the broadcast, and the exit does not hang.
* *Calls between daemons.* timerd sends events to neutrino while holding its
  mutex; neutrino may be waiting for an answer of timerd at that time; sockets
  have backlogs and timeouts.
* *Common interface.* Slots and sessions may vanish at any time.

`PROJECT.json` lists these hazards with the lines at which they bite and the
properties that cover them.

## 2. Modules

| Module | Models |
|---|---|
| `TimerEvent` | one timer: the tests and state changes that the loop of `timerThread` makes to it, `Reschedule`, the reduction of "weekdays without a weekday", the tests of `loadEventsFromConfig` |
| `TimerManager` | the list, the timer thread, the command thread, `timerd.conf`, power failures and restarts; uses `TimerEvent` |
| `MCTimerManager` | the timers and changes used by the runs; every command and fault at once, with a history of what went wrong |
| `TimerManagerProofs` | the proofs about `TimerManager` |
| `TimerHistoryProofs` | the proofs about `MCTimerManager`: promises that hold but for the troubles its history names |
| `Recorder`, `MCRecorder` | neutrino's main thread with vcrcontrol, stream2file and zapit's modes; timerd is reduced to the life of its recording timers |
| `RCInput`, `MCRCInput` | `CRCInput`: input timers, the order of the message sources, timeouts, the key filter, corrections of the clock; the loops of dialogs |
| `ByteStream` | what a buffer between one writer and one reader promises (the abstract specification) |
| `RingBuffer`, `MCRingBuffer` | `ringbuffer.c`: vectors, pieces, advances in two statements; implements `ByteStream` |
| `RingBufferProofs` | the proofs about `RingBuffer`, the refinement among them |
| `RecorderProofs`, `RCInputProofs`, `RecordThreadsProofs`, `DvbSubProofs`, `CurrentNextProofs` | the proofs about the modules of these names |
| `RecordThreads`, `MCRecordThreads` | `start_recording`, `stop_recording`, `DMXThread` and `FileThread` of `cRecord`; the ring buffer is the stream that `RingBuffer` implements |
| `DvbSub`, `MCDvbSub` | the subtitle library: clients, reader, decoder, packet queue, converter |
| `CurrentNext`, `MCCurrentNext` | sectionsd's `cnThread`, `dmxCN`, main loop and exit, and a thread that asks |

### TimerEvent and TimerManager

Times are integers, 0 is "none", as in the code. A timer is the record of its
state, repetition, repeat count and three times; its payload is a single value
`info` by which the history variables recognise it across restarts, because ids
are given anew when the file is loaded. Types are those timerd treats
differently: RECORD (has a stop event), ZAPTO (has audio pids), OTHER. The
calendar repetitions are reduced to a fixed period `Day`. There are two
repetitions `Reschedule` cannot advance: WEEKDAYS is the one that has no day set, which
`addEvent` and `modifyEvent` reduce to ONCE; BYEVENTDESCRIPTION, "todo" in the code, stands also for
the types nobody has defined, which the web interface passes on and nobody reduces.

Each action is what one thread does between two points where someone else could
tell the difference. The threads' program counters are named after their
place: the timer thread is in `wait` (for the time), `load`, `pass`, `check`
(inside the pass), `test` (of the flag, after the mutex was released), `collect`,
`write`, `clear` (the parts of a save) and `sleep`; the command thread is `idle`,
between the two assignments of `setRecordingSafety` (`flag`), or in the parts of
`shutdown`. `CheckEvent` is one iteration of the loop with all four tests in
their order; after `events.erase(pos)` the loop increments a dangling iterator, so the
model lets it go on at any timer or end. An iteration that never returns
(`Diverges`) is the action `HangInReschedule`: the thread is `hung` and the mutex never given
back. `Torn` is what is left of the file when it is cut off while
`saveConfig` writes it: the keys are in alphabetical order, so the safety times
come before IDS, the repeat counts and the stop times.

The history variables `recording`, `starts` and `life` say what clients were
told and what they asked; no action reads them except `AddTimer`, which uses
`life` so that a payload is programmed once. `MCTimerManager` adds `trouble`, the
kinds of trouble a behaviour has met, at most one kind in each.

### Recorder

The main thread's call stack is `agenda`, a stack of the pieces of handlers that
are still to be run; a piece is what happens between two points where another
process can put a message on the event socket `queue`. So `Record` has two pieces
(`CutBackNeutrino`, which wakes zapit, zaps and sets record mode; then
`StartRecording` or `FailRecording`), between which RECORD_STOP or a message from
zapit may be queued, although it is handled only later. A dialog is a
piece during which messages are handled, with everything below it still on the
stack: that is how a RECORD_START can be handled inside a RECORD_START. Keys are
seen only when the queue is empty and no handler runs. What zapit sends because
of a call is queued before the call returns; a zap nobody waits for ends at any
later time, and zapit answers no other command before. `recording_id` is not
initialised by the constructor, so `Init` allows any value.

`box` is the box the behaviour is about and never changes: its timers, its settings
(`IsSet`), what its users do, how often, and which faults it meets. One run so
checks several kinds of boxes.

The time shift's input timer (`shift_timer`) takes seconds, so it does not
expire while the main thread does nothing but read messages that already wait.
Everything else may take any time. `alive` becomes false when `Stop` writes through
a null `g_movieInfo`; `erased` collects what `stop_recording` has deleted.

### RCInput

`now` is real time and `now + offset` the wall clock, on which the code compares
everything; select sleeps in real time. One tick is longer than the tolerances of
the code (2 ms and 100 us), and the blocks of the key filter are small numbers of
ticks: nothing depends on the scale. `pc` is where the main thread is: with its
caller, at the top of the loop of `getMsg_us`, in `select`, or past the event
socket or the keys with nothing to return yet. What is read after one return of
select is read in one step per source; an arrival in between is as if it had come before,
because each source is read once. `dialogs` are the callers of
`getMsgAbsoluteTimeout`, the innermost first. Time passes only in handlers and in
`select` while it has nothing to return for, so that a thread that
sleeps too long is seen as a tick that should not happen.

The clock is set in two ways. With time from the transponder (`dvb`) sectionsd
sends EVT_TIMESET and neutrino sets the clock to the time in the event, which may
have waited; with NTP the clock is set first and the event corrects nothing.
The history variables `due`, of a timer and of a dialog, hold the real time at which it
should end; `sure` and `follows` record whether the clock was set in a way the code
does not follow: under NTP, below another dialog, or with timers of both kinds
in the vector. `moved` records how the key filter met the clock: `calmly`, when EVT_TIMESET corrected
`last_keypress` while no key waited with an older time, or NTP set the clock forward; `once`, by a single
long step; or `anyhow`.
Bounded scenarios (`Scenarios`) say who is active in a behaviour.

### ByteStream, RingBuffer and RecordThreads

`RingBuffer` has a program counter for the writer and one for the reader: with a
vector (`vec`), after filling or emptying a piece of it (`add`), and between the two
statements of an advance (`mask`), where the other thread sees a pointer equal to
the size. Lengths are computed with the operators of C's unsigned arithmetic
(`% Size`). A piece may be of any length up to the vector's first stretch, which
covers `ringbuffer_read`, `ringbuffer_write` and the use in `record_cs.cpp`.
`buf` holds the numbers of the bytes, `put` and `out` are the stream: what has been added, and
what the reader has taken. `Overtaking` is the one behaviour of the scheduler that
breaks it: a reader that looks again while the writer is between the two
statements, having already wrapped around.

`RecordThreads` follows `start_recording` and `stop_recording` of one recording
after the other. `block` is the memory an object is in. The threads go on using it after
`stop_recording` has deleted it, so a new object may get the memory of one whose threads
still run; and `start_recording` makes no new object when the last recording was not stopped,
so its `Open` and `Start` then overwrite the flag and the descriptors under the threads. The history
`mixed` holds the recordings to which that has happened, the old one and the new. The members
of an object (`mem`) name the recording whose descriptor or ring buffer they hold, so that a thread
finds what the object says and not what it began with. A packet is
read in pieces (`Chunk`, `Check`, `Read`), `FileThread` writes a vector that may be
taken in part. Every call can fail, `pthread_create` of either thread too: a file thread that
was `refused` is joined through a handle nobody has set, which returns or leaves `DMXThread`
`lost` (that it ends the program is left out, as nothing is left to follow then). The branch for a
ring buffer that was not made is not modelled: `ringbuffer_create` never returns NULL. The file is the
sequence of the bytes written, each named by its recording and its number.
Threads that share an object close its descriptors twice, and a number that was closed twice may be that
of anything opened since; the numbers are not followed, so after a first mixed recording all later
ones count as mixed. Freed memory keeps its contents until the object of a later recording gets it.

### DvbSub

The clients are the main thread and zapit's thread; each call of the library is
a sequence of steps split where a flag, a mutex or a condition is touched. `missed` is a
history variable: a wake-up was sent while the reader was between its tests of the flags
and its wait. The
reader's read and the decoder's conversion may complete a bitmap or not. `Action` tests
`running`, locks, takes the first bitmap, sleeps without the lock and draws; a pause
may come in between, so `DecoderAfterSleep` goes on with a bitmap that may be
deleted, which is undefined behaviour and may end the program (`dead`). So may
`PacketQueue::pop` on an empty list.

### CurrentNext

`cn` is where `cnThread` is. It begins with `addfilter` done, which constructs `dmxCN`: what a command did to
it before would be undefined. Then it starts the demultiplexer (`start`), looks whether scanning is on
(`own`) and, if not, asks for a pause itself in two steps (`ownpause`, `owncount`); it waits for the time
(`time`, `timegap` between the test of `timeset` and the wait, `timewait`), all while commands are handled. After that it is at the top of its loop, reading (`getSection`, with the
restart of the demultiplexer as a second step), in the tests of version,
of what has been stored and of sleeping, in the steps of going to sleep, waiting,
woken, and in the two steps of `addEvent`: the look at the key and the store, which
hold different locks. A command of the main loop is the sequence `main` of the steps it
still has to do, so that the thread runs between any two of them; `request_pause` is two
steps because the code closes the filter and counts under two different locks of
the mutex. While a channel broadcasts version v, event v is running and
event v + 1 is next; the filter for new versions lets pass what has the other parity.
The timeouts of 35 seconds may be over whenever the thread looks at the clock, except at the
look that sets the stamp: they are counted from the last channel change or the first look for a version,
and a thread that was paused meanwhile finds them over without having read anything. `dmx` says whether `dmxCN` has
a `cDemux` yet; it has none while it was only ever paused, and a read then goes through a null pointer (`ReadUnmade`, `crashed`).
The first channel is not counted as an input.
`trouble` is the history of what the properties except: `missed`, a signal or broadcast that came while the thread was
about to wait, until a later one is heard; `gaveup`, a give-up after 35 seconds while what the thread
waited for is on the air or the exit has begun, until a later signal; `twice`, the thread's own pause, which is counted besides
that of `commandPauseScanning`; `overtaken`, a channel change that ran between the two
steps of a store; `turned`, a version that changed while a part of the old one was read.
`Hesitate` leaves open whether the last request is less than 11 seconds old.

## 3. Runs and what they show

| Run | Properties | Environment | States |
|---|---|---|---|
| `TimerSafety` | `TypeOK`, `IntactRecordingIsOwned`, `UnsavedIsFlagged`, `UndisturbedStartsBounded`, `IntactTimersSurvive` | a recording with safety times and a repeating zap; every command; power failures anywhere, files torn, shutdowns and restarts, one kind of trouble in each behaviour | 4.1 million |
| `TimerLive` | `RemovedNeverStarts`, `RemovedIsForgotten`, `DueTimersStart`, `RecordingsEnd`, `MutexReleased` | a repeating recording and one without weekdays, either may become one "by event description"; add, remove, modify; fairness | 145,000 |
| `RecorderSafety` | `TypeOK`, `NeverCrashes`, `TimersTakeTurns`, `WaitingIsServed`, `ZapitFollowsTelevision` | three boxes: one timer with standby and zaps; two timers that overlap in any way; every key, the menu, automatic time shift, recordings that fail and that end while they start | 3.8 million |
| `RecorderKeys` | `StatusIsTrue`, `RecordingIsStoppable`, `TimedRecordingsAreKept`, `RecordingsEnd`, `WaitingEnds` | two recording timers, record, time shift and standby keys, zaps; fairness | 390,000 |
| `RCInputLoop` | `TypeOK`, `TimersFireInTime`, `DialogsCloseInTime`, `PressesActOnce` | eight scenarios: timers of each kind, nested dialogs, keys, unknown events, posted messages, the clock set by transponder and by NTP | 7.9 million |
| `RingStream` | `TypeOK`, `StretchesAreDisjoint`, `ImplementsStream`, `EverythingArrives` | four bytes of memory, nine bytes of stream, pieces of every length; fairness | 1,779 |
| `RecordThreads` | `TypeOK`, `FilesAreGapless`, `RecordingsEnd` | two recordings, every call may fail, partial writes, stops at any time; the second in new memory, in that of the first, or in its object; fairness | 410,000 |
| `DvbSub` | `TypeOK`, `PausedShowsNothing`, `HangsOnlyIfMissed`, `CallsReturn`, `QueueIsServed` | three calls of the main thread alone, or two each of the main thread and zapit's; two pids, two packets; fairness | 414,000 |
| `CurrentNext` | `PausesAreCounted`, `NowNextIsOfChannel`, `FollowsTheBroadcast`, `ShutdownEnds` | from the start of the thread on; two channels, the first may be silent or the other blacklisted; a first channel and two inputs among channel changes, scanning off and on, questions, new programmes, exit; fairness | 1.6 million |
| `TimerLost`, `RecorderOver`, `RingOvertaken` | `StoredTimersSurvive`, `OneRecording`, `ReadsWhatWasWritten` | violated, see section 5 | |

*Why each passing run has the environment it has.* The properties do not hold in
every environment; section 5 and the list below say where they stop. A run
states the widest environment, of those that finish in minutes, in which its properties hold,
or the property itself names what it excepts:

* `StoredTimersSurvive` fails when the file can be torn or the box is shut down
  before the time is known. `StartsBounded` fails after a reschedule, which puts a running timer
  back to SCHEDULED, and after a torn file, which loses repeat counts. The
  properties of `MCTimerManager` except exactly these by `trouble`.
  `RemovedNeverStarts` fails after a shutdown, a power failure, or a stop or
  rescheduling of the removed timer before the next pass. Nothing of timerd goes on once a timer "by event
  description" is over: the liveness properties of timers except a thread that hangs (`Hung`), and `MutexReleased` that it hangs for this reason.
* `OneRecording` and `WaitingIsServed` fail with the record key, with a time shift, with three timers,
  and when a recording ends while it is being started: hence `OnlyTimers` and `AtMostTwo` in `TimersTakeTurns`,
  `WaitingIsServed` and `ZapitFollowsTelevision`. `StatusIsTrue` fails when
  recording is stopped from the menu, which clears `recordingstatus` itself.
  `AsleepWhenOff` fails with two timers, because a late EVT_RECORDMODE tells of
  the earlier one, and with a recording begun by key before standby.
  `AwakeWhenOn` fails with STANDBY_OFF.
  `TimedRecordingsAreKept` fails with automatic time shift, where `autoshift` may
  become true during a timer's recording that is being started; with STANDBY_OFF, because a late
  EVT_RECORDMODE of a time shift lets a timer's recording begin while `autoshift` is still
  set; with the menu's stop; and when recordings fail to open.
  `RecordingIsStoppable` fails when recordings fail to open.
* The properties of `RCInput` state in themselves where they stop: timers are late or early, and
  dialogs too, after NTP has set the clock; a timer set to a time of day may be late when the
  clock is set while interval timers are in the vector; a dialog below another keeps its end on the
  old clock; a key press that waits while the clock is set, or that comes after NTP has set
  it back, may be swallowed (`moved`); a dialog that is woken up twice for nothing closes early.
* The properties of `RingBuffer` fail with `Overtaking`. Those of `RecordThreads` except the recordings in
  `mixed`, and `RecordingsEnd` also a `DMXThread` that is `lost`. Of two recordings that share an object both
  are mixed, so `MCRecordThreads` follows a behaviour up to there; the theorems follow it further, and with any number of recordings.
* `CallsReturn` is about the main thread alone: with two clients, one may pause what the other waits
  for in the loop of `dvbsub_start`, and both hang. `HangsOnlyIfMissed` and the join in
  `dvbsub_close` except the lost wake-up.
* The properties of `CurrentNext` except histories of `trouble`: `PausesAreCounted` counts the pause of `twice`,
  `NowNextIsOfChannel` excepts `overtaken`, `ShutdownEnds` `missed`, `gaveup` and a blacklisted channel,
  `FollowsTheBroadcast` all five and the exit. Nothing is followed while the
  time is not set, scanning is off, the channel is silent or blacklisted, or after a crash. Each of
  the five is a real behaviour of the code, see section 5.

*Bounds.* `MaxTime` 3 to 5 with `Day` 2 lets a timer be announced, started,
stopped, rescheduled and started again. `MaxCmds` 3 or 4 allows every pair of commands on a
timer that was added, and one more; the races found need three. `MaxBoots` 2 lets a
file written after a restart be loaded again. Two timers are enough for the
iteration over the list and for ids to change at a restart. In `Recorder` two
timers and two further recordings by key are what one recording under way, one
waiting and one replacing it need; the inputs (2 to 4) of a box bound keys and client
messages, not the messages of timerd and zapit. `Manual` bounds how many recordings can be
begun by key or time shift: an action that would need another timer is not taken.
In `RCInput` two timers give every order in the vector, four inputs a key pressed, released,
the clock set and the key pressed again, or two dialogs and two disturbances; two
pending inputs are an event and a key that wait together; `MaxTime` 4 is longer than any timeout.
`RingBuffer` asks for three bytes, which are rounded up to four, and goes around twice: every relative position
of the pointers occurs; the theorems hold for every size. `RecordThreads` has a packet that is
smaller than a chunk and a stream longer than the buffer, so that it is full and wraps;
two recordings are one whose threads outlive it and one that follows, anywhere. In `DvbSub` three
calls are start, pause and close, or the like with another pid; two packets are one on
the screen and one in the queue. In `CurrentNext` two inputs, after the first channel, are a channel change
and any disturbance of it, two changes, or a pause and an exit; that a pause is lifted is no input. The two channels are alike, so
the first to be watched is always the same (`Firsts`); it may be silent, and the other one may be in the blacklist. The two invariants have also been checked
with three inputs and any silent channel (11.3 million states), and are proved. `MaxVersion` 1 is one new
programme on each channel; more would repeat parities the filter does not tell apart,
which `Turn` excludes because a version lasts for minutes.

*Deadlock.* No run is checked for it, because all come to
rest: when the thread of timerd hangs; after `shutdown` with no boots left in timerd; when all keys and timers
are used up in `Recorder`; at the end of time in `RCInput`, of the stream in `RingBuffer` and
`RecordThreads`, of the calls in `DvbSub`; when `CurrentNext` sleeps, has ended or has crashed.

*Fairness.* `TimerManager` assumes that the scheduler runs both threads
(`WF_vars(TimerThread)`, `WF_vars(ServerSteps)`), that the clock runs, and that a
broadcast time comes after a start: `timerThread` loops for ever with sleeps of at most
seconds, and every wait on the mutex is for a thread that is running. `Recorder` assumes that the main thread
handles what is there, that dialogs time out (`CloseBox` and `Answer` are among its
pieces), that zapit finishes a zap, and that timers
end. No fairness is assumed of `RCInput`: that something happens in time is stated as a bound on
what time may pass over. `RingBuffer` assumes that threads run, that a vector that is not empty is worked
on, and that the reader looks again: `FileThread` polls. `RecordThreads` and `DvbSub` assume weak fairness of
each thread: every wait in them is a poll, a read or a `cond_timedwait` with a timeout, or
a wait that is itself not enabled until someone signals. `CurrentNext` assumes it of the thread, of the main loop
(a poll every 20 ms) and of the one who asks, and strong fairness of reading each kind of section of
the current channel: a broadcast repeats its sections every few seconds, so a thread that reads
again and again meets each of them. Nothing is assumed of users, of clients, of the programme on the air
or of timerd starting anything.

### The properties

* `UnsavedIsFlagged`: once the timers are loaded, what differs between list and file in
  anything but the end of a timer has `m_saveEvents` set. It is what
  makes it harmless that the flag is tested without the mutex, and set without it by `setRecordingSafety`.
* `RecordingIsOwned`: what clients were told to record belongs to a running timer with a stop time.
* `StoredTimersSurvive`, `StartsBounded`, `RemovedNeverStarts`, `RemovedIsForgotten`, `DueTimersStart`,
  `RecordingsEnd`: the promises of `src/timerd/doku.html`.
* `MutexReleased`: the mutex is kept for ever only by a pass that comes to a timer "by event description" that
  is over. That a timer without weekdays does not do the same depends on `addEvent` and `modifyEvent` reducing it to ONCE.
* `TimersTakeTurns`, `StatusIsTrue`, `RecordingIsStoppable`, `WaitingIsServed`: the five
  places in which a recording is kept agree when nothing is being handled (`Quiet`), and at the moment a file is opened.
* `ZapitFollowsTelevision`: zapit's standby follows the television and the recording.
* `NeverCrashes`, `TimedRecordingsAreKept`, `RecordingsEnd`, `WaitingEnds` (of `Recorder`).
* `TimersFireInTime`: the vector of input timers, ordered by the wall
  clock, keeps real time although the clock is set. It needs the insertion to keep the order, the correction of
  every interval timer, and select to sleep for the first timer.
* `DialogsCloseInTime`: a dialog lasts its timeout, whatever wakes the loop and moves the clock.
* `PressesActOnce`: the two ways in which the key filter can be wrong. `PressesAreSeen`: a press that comes late
  enough acts, although its time and `last_keypress` are times of a clock that is set meanwhile.
  `HeldKeysAreSeenOnce`: a repetition of a held key carries
  `torn`: whether `clearRCMsg` has made the loop forget the key since its press, because the key then
  acts once more, also when a fresh press came between.
* `StretchesAreDisjoint`: what the writer may fill and the reader may take never overlap, although each
  computes its vector from a pointer of the other that is out of date.
  `ImplementsStream`: so the buffer is a stream of one byte less than its size. `EverythingArrives`.
* `FilesAreGapless`: the n-th byte of a file is the n-th of its recording, whatever was taken in part or failed,
  while threads of earlier recordings still end elsewhere.
  `RecordingsEnd` (of `RecordThreads`): filters, device and both threads are given back. Both say nothing of recordings
  that share an object or its memory.
* `PausedShowsNothing`, `HangsOnlyIfMissed`, `CallsReturn`, `QueueIsServed`: see the comments.
* `PausesAreCounted`: `real_pauseCounter` is counted by commands that come in any order; one too many
  and the demultiplexer never starts again, one too few and a blacklisted channel is read. The thread's own
  pause, of a start while scanning is off, is the one too many the code does make.
* `NowNextIsOfChannel`: an old channel's event does not come back after the change has cleared it.
  `FollowsTheBroadcast`: the two events that are shown become those on the air, again and again, whoever changes
  the channel, pauses, asks or broadcasts meanwhile. `ShutdownEnds`: `pthread_join` returns. Both name the
  ways in which the code fails them, and fail in no other.

Each property of a passing run has a mutant of the code's model that violates it;
they are the definitions marked "Mutant".

## 4. Proofs

`TimerManagerProofs` proves, for every set of timers, requests, changes, time
differences, margins, commands, faults and bounds that `ConstantsAssumption` and
`DayAssumption` allow (types only):

* `TypeCorrect`: `Spec => []TypeOK`. The work is in the lemmas about one timer
  (`Reschedule`, `Settled`, `Requested` keep `Event`) and in that a
  truncated file is a file.
* `UnsavedIsFlaggedCorrect`: `Spec => []UnsavedIsFlagged`. It is not inductive.
  The strengthening says why the race on `m_saveEvents` is
  harmless: whoever is between collecting the list and clearing the flag holds
  the mutex, and no two threads save at once (`SavesAreExclusive`, the timer thread is
  gone before `shutdown` saves); so what was collected is still the list when
  the flag is cleared, except for changes that are flagged later anyway. While the
  file is being loaded, list and file may differ, and the save that ends the load is
  unconditional (`RestoresWhileLoading`).

`TimerHistoryProofs` proves, with the same freedom, what `MCTimerManager` promises of timers and recordings:

* `TimersSurvive` (`IntactTimersSurvive`), by `Kept`: from the load on, whatever the file holds is in the list, still
  to be loaded, or over. A file is rewritten only from what was collected of such a list, and `Phases` says
  why nothing is left to load then: the timer thread saves after its load, and `shutdown` when that thread is gone.
  The two troubles it excludes are the two ways to break this, a file that was cut off and a
  `shutdown` before the load (section 5).
* `RecordingsOwned` (`IntactRecordingIsOwned`), by `Owned`: each recording that clients were told to start and not to stop
  has a running RECORD timer, and each RECORD timer of the list, of what is left to load, of the file and of what
  is being saved has a time to stop. Repetitions and margins keep that time positive (`AdvanceIsForward`,
  `SafetyTimes`). It rests on `StopTimesAssumption`, an assumption on
  what clients ask for: only a recording is started at once, recordings have a stop time, also after a change, and
  margins are not negative.
* `StartsAreBounded` (`UndisturbedStartsBounded`), by `Budget`: what a timer has been started and what it has still to
  start, in the list, in what is left to load and in the file, are together no more than what was asked for. Each
  repetition takes one off the count before the timer is SCHEDULED again, and it is not loaded twice (`Unique`). The file may
  lag behind the list only while a save is asked for, so a shutdown saves; only a power failure, a torn file
  or a reschedule break this, the three troubles the property excludes. The assumption `ChangesEnd` says that
  clients' changes do not make a timer repeat; one that does resets the count.
* `RemovedStaysRemoved` (`RemovedNeverStarts`), under `RunsOn`: no timer is stopped or rescheduled by a client, and
  timerd is neither shut down nor loses power. `stopEvent` and `rescheduleEvent` take a removed timer out of TERMINATED, and
  a restart brings it back from the file, so these are exactly the exceptions of section 3. `Unique` is needed:
  a timer is in the list once, so that no second entry starts what the first has ended.

`RingBufferProofs` proves, for every size of at least two bytes and every length of the stream, provided
that the reader does not overtake an advance (`~Overtaking`):

* `Invariance`: `Spec => []IInv`. The invariant says that the pointers, wrapped, are `Held` bytes apart
  (`Pointers`); that each thread's vector lies in the memory and is no longer than what is
  free, or held, now, which the other thread only makes more (`Vectors`); and that the bytes between the
  pointers are the next ones of the stream (`Contents`). The lemmas `SpaceForWriting` and `SpaceForReading` show that
  the modular arithmetic of the code computes these lengths also from a pointer that is
  not masked yet. It is here that `~Overtaking` is needed: with `write_ptr` equal to the size and
  `read_ptr` 0 the reader would compute a full buffer.
* `TypeCorrectness`, `Disjointness` and `Integrity`: types, `StretchesAreDisjoint` and `ReadsWhatWasWritten`.
* `Refinement`: `Spec => ImplementsStream`. An addition of the writer is `Put`, emptying a piece is
  `Get`, every other step a stutter.

`RecordThreadsProofs` proves, for every number of recordings, every size of the buffer, of packets and of
chunks and every length of the stream, whatever fails and wherever the objects are:

* `TypeCorrect`, `Gapless` (`FilesAreGapless`) and `Released`, the safety part of `RecordingsEnd`, the last two for the
  recordings outside `mixed`, as the properties say. The invariant has a part for all recordings: memory that two of
  them use mixes both (`Owned`), and what the members of an object name, and so what its threads touch, is the recording
  itself, or for a mixed one some mixed recording (`Members`, `Home`); so the others are left alone whatever the mixed ones do to each other.
  For a recording outside `mixed`, `Pure` holds. Of that `Flow` is the argument: the file, what is in the buffer and
  what `DMXThread` has in its hands are together the stream from its first byte, and nothing is missing as
  long as the thread goes on reading. It needs that `FileThread` lives within the time of `DMXThread`
  (`Together`), and that `DMXThread` has tested for room before it reads. `TypeCorrect` holds for the
  mixed ones too: the room is tested by the thread that fills the buffer, which is its own.

`DvbSubProofs` proves, for every set of pids and any number of calls and packets:

* `TypeCorrect`, `PausedIsDark` (`PausedShowsNothing`) and `HangsAreMisses` (`HangsOnlyIfMissed`). The second
  needs `Gap`: from the moment the reader has decided to stop, either the one who starts subtitles is still
  on the way to wake it, or the wake-up was missed.

`CurrentNextProofs` proves, for any channels, blacklists, versions and inputs:

* `PausesCounted` (`PausesAreCounted`). The invariant names the sequences of steps the main loop can have
  before it (`Mains`), and counts the pauses with those a command under way has still to make and with the
  thread's own (`Account`), which it makes at most once (`Once`);
  only then do the halves of `request_pause` and `request_unpause` add up. The counter never exceeds four: blacklist,
  scanning, the thread's own pause and the exit's.
* `EventsAreOfChannel` (`NowNextIsOfChannel`). `Watched` adds that a section about to be stored is of the
  current channel, or a change has overtaken the store, and that the events are cleared before the key
  changes. `TypeCorrect` is proved too.

`RecorderProofs` proves, for any boxes, timers, users, keys and faults:

* `TypeCorrect`, of a state that includes the stack of pieces, and `NoCrash` (`NeverCrashes`). `Stop` writes
  through `g_movieInfo` without a test. The invariant `Allocated` says why that is harmless: the
  movie information is there while `deviceState` is RECORD, and while `autoshift` is set, except
  for the piece in which `Record` of the time shift has not opened its file yet, which no other piece
  can run on top of. A RECORD_START that waits comes from a timer, never from a recording begun by key (`Sent`).
* `StatusStaysTrue` (`StatusIsTrue`) and `RecordingStaysStoppable` (`RecordingIsStoppable`), for every box on which nobody
  uses the menu to stop a recording and recordings open (`Plain`). `StatusInv` says for each piece on the
  stack and each EVT_RECORDMODE in the socket what becomes of `recordingstatus`, zapit's record mode and the file;
  `StopInv`, that the messages of a timer stay in the order timerd sends them, and that its RECORD_STOP
  comes after whatever made `recording_id` its own.
* `TimersTakeTheirTurns` (`TimersTakeTurns`) and `WaitingStaysServed` (`WaitingIsServed`), for all boxes: the
  properties themselves name two timers alone. `TurnsInv` says that a late EVT_RECORDMODE tells of the
  timer that is over, so that the other one, which waits or records, is not hurt by it.
* `TimedRecordingsStay` (`TimedRecordingsAreKept`), where also time shifts are begun by hand and the television is
  switched on with a key (`ByKey`). `KeptInv` follows `autoshift`: while it is set, the recording under way or
  being begun is the time shift, and a time shift to be resumed after standby has not been left to a
  timer. TLC finds the property violated when any one of the four hypotheses is dropped (section 3).
* `ZapitStaysFollowing` (`ZapitFollowsTelevision`), for all boxes: `ZapitInv` says what zapit does after each piece of
  standby, of a recording's begin and of its end, and that an announcement precedes what it announces.

`RCInputProofs` proves, for any timers, intervals, keys, dialogs, messages and settings of the clock:

* `TypeCorrect`; with it, that the ids in the vector are different (`Distinct`), on which `killTimer` and
  the event that names a timer rely.
* `TimersInTime` (`TimersFireInTime`), from `Ordered`: as long as all timers follow the clock, the vector is sorted by the
  wall clock, an entry is its due time plus the offset of the clock (`OnTime`), and a thread in select
  does not sleep past the first (`Asleep`). The lemmas `Inserted...` and `Removed...` show that the insertion, the
  repetition of an interval and the correction after EVT_TIMESET keep the order.
* `DialogsInTime` (`DialogsCloseInTime`), from `Ends`, the end on the wall clock is right except between the arrival of
  EVT_TIMESET and the correction, and `Budget`: the timeout that is left never reaches past the end of the
  dialog, and falls short of it only after a second wake-up for nothing.
* `PressesOnce` (`PressesActOnce`). Its first part, `PressesSeen`, rests on `Clocks`, the clocks of the times that are
  compared: that of each key that waits, of the accepted one with its corrections (`Kept`), and the present one. While the clock is
  set calmly they go forward from each press to the next (`Forward`), and after one long step any two are
  the same or further `Apart` than a behaviour lasts; either way a press that is late enough is `Distant`. The
  assumption `ClockAssumption` says that the clock is far from 1970, without which the first press of all could be swallowed.
  Small steps of EVT_TIMESET are no exception, steps back by NTP are. Its second part is `HeldKeysOnce`.
* `HeldKeysOnce` (`HeldKeysAreSeenOnce`), from `Chain`: a repetition that waits in the device comes after the key that
  `rc_last_key` holds, or will hold once what is before it has been read.
* `LeastIndex`: the code takes the first expired timer of the vector, the model the least index that has
  expired. That a set of indices has a least one is proved through the well-foundedness of inclusion among finite
  sets, since the library's theorem on induction takes an operator as a parameter.

Each inductive invariant was checked by TLC on small instances before it was proved. Each theorem has one step per
action; leaves name the definitions they expand.

Every safety property of a passing run is stated by a theorem. Only model-checked are the liveness
properties, which need fairness and ENABLED: those of `TimerLive`, `RecorderKeys`, `RingStream`,
`RecordThreads`, `DvbSub` and `CurrentNext`.

## 5. Disagreements

Three runs show one. `TimerLost`: `shutdown()` saves when `m_saveEvents` is set, also before the timers
were loaded; the stored ones are overwritten, although `src/timerd/doku.html:12-13`
says they survive a shutdown.
`RecorderOver`: EVT_RECORDMODE of an earlier recording clears `recordingstatus`,
and the next RECORD_START opens a recording over the one under way.
`RingOvertaken`: a reader that empties the buffer, wraps around and looks again between the two statements
of `ringbuffer_write_advance` reads the whole memory again, although `src/driver/ringbuffer.c:19` calls the
buffer safe for one reader and one writer.

Others can be reproduced by changing a configuration or a property:

* A timer that repeats "by event description" ("todo" at `src/timerd/timermanager.cpp:855`), or with a number that
  is no repetition (line 878), leaves its alarm time where it is, and the loop of `Reschedule` around it never ends. The thread
  keeps the mutex, and no timer is due again, although `src/timerd/doku.html:96` promises of a daily one "Der Timer wird jeden Tag
  zur selben Zeit ausgeführt." `addEvent` and `modifyEvent` reduce only weekdays, and the web interface
  (`src/nhttpd/tuxboxapi/controlapi.cpp:1861`) lets any number through (`TimerLive` with `DueTimersStart` without `Hung`).
* `removeEvent` leaves the rest to
  the timer thread without asking for a save, so a shutdown in between brings the timer
  back (`TimerLive` with `Spec`, one boot and the command `shutdown` violates
  `RemovedNeverStarts`).
* A box that is woken by STANDBY_OFF when its recording has just ended
  is put to sleep again by EVT_RECORDMODE (`ZapitFollowsTelevision` without its exception).
* The end of a recording may be read after the next one has begun, and `was_record` stays set when that one ends
  too; a third recording, made with the television on, then puts zapit to sleep
  (`ZapitFollowsTelevision` without `AtMostTwo`).
* A key that waits in the device while EVT_TIMESET moves the clock by less than the block is compared with a
  `last_keypress` that was corrected, although its own time was not, and is swallowed; so is one after NTP
  has set the clock back a little, which corrects nothing (`PressesAreSeen` without `moved`).
* Every wake-up without a message subtracts the time since the call
  began from a timeout that was already shortened; a dialog in which a key is held closes
  early, although `src/driver/rcinput.cpp:511` wants to wait the whole time
  (`WaitsTheWholeTime` in `RCInputLoop.cfg`).
* `stop_recording` tests an `exit_flag` of its own file, which no thread sets: a recording whose thread failed
  is reported as successful, and `STREAM2FILE_RECORDING_THREADS_FAILED` is returned only to a second stop.
* A recording that is started while threads of an earlier one still run in its object (`stream2file.cpp:125`), or in the same
  memory (line 164), loses bytes to them, gets theirs, or ends with them (`mixed` out of `FilesAreGapless` and
  `RecordingsEnd`). The behaviour of `RecorderOver` leads to the first.
* When the file thread cannot be made (`record_cs.cpp:203`), `DMXThread` joins a thread whose handle was never set
  (line 304), before it has unset the filters (`lost` out of `RecordingsEnd`).
* `ringbuffer.c:30` promises "at least sz bytes": for a power of two it is one byte less.
* Subtitles: a wake-up between the reader's tests and its wait is lost, and the reader, or
  `dvbsub_close`, hangs (`missed` out of the properties); `dvbsub.cpp:313` expects NULL from an empty queue, whose
  `pop` is undefined; `Action` goes on with a bitmap that a pause has deleted; after a quick pause and
  start the filter may still have the old pid.
* sectionsd: an event of the old channel may be stored after a channel change, although
  `sectionsd.cpp:715` says "but only if it is the current channel" (`overtaken` out of `NowNextIsOfChannel`); a
  channel change between the decision to sleep and `pthread_cond_wait` leaves the thread asleep on a channel it has
  not read (`missed`); `sendToSleepNow`, "reset after channel change" (line 7548), is not when the first
  section after the change already carries a version; a question that restarts the thread while it has
  both events makes it take note of a new version and sleep without storing it, and a version that turns
  between current and next leaves the old event until the next version (`turned`); when scanning is
  switched off before the thread has looked at it (7509), both count a pause, one continue lifts only one, and current and
  next stay dark (`twice` out of `FollowsTheBroadcast`); after a pause of scanning, or of a blacklisted channel, the 35 seconds are over at the first look at
  the clock (7551, 7683) whatever is on the air, because nothing resets the stamp (`gaveup`); a thread that starts with
  its demultiplexer paused and is then let on reads through a null pointer (`dmx.cpp:282`); the exit hangs when the
  broadcasts from line 8624 on find the thread about to wait, for the time or for a change, when it gives up waiting for a version after
  them, or when the channel is blacklisted, because the loop at line 7660 does not test `sectionsd_stop`.

## 6. What is not modelled

In timerd: the calendar (months, daylight saving, weekday sets), read-only
commands, the wake-up from deep standby, the choice of audio pids, timer types
other than above, the cancellation of the timer thread inside a save. In the main thread: radio and scart modes, ZAPTO, sleep timer,
SHUTDOWN, menus other than the recording switch, recording directories, pausing
sectionsd, VCR and streaming-server devices. In zapit: everything but record
mode, standby, playback and the unanswered zap. `Recorder` assumes that events
arrive, in order, and that calls return. In rcinput: opening and closing the devices, the
decoding of events other than EVT_TIMESET, a full pipe, errors of `select`, calls with timeout 0.
In the recording threads: the .xml file, the tables at the start of the file, the CA module. In the
subtitles: the segments and the teletext fallback. In sectionsd: the threads of the full EPG, of services and of time,
the EPG cache with its clients and its housekeeping, EVT_GOT_CN_EPG, the parsing of sections.

Parsing of DVB tables, drawing, hardware access, the decoders and vendored
libraries are data transformation or pure I/O and stay out; they are most of the
repository's lines. `PROJECT.json` gives the reason for each remaining component.

## 7. Plan

1. `TimerEvent`, `TimerManager`, `Recorder`, `RCInput`, `RingBuffer` with `ByteStream`, `RecordThreads`, `DvbSub`,
   `CurrentNext` (done).
2. Proofs: the stream and its refinement, `UnsavedIsFlagged`, `FilesAreGapless`, `PausedShowsNothing`,
   `HangsOnlyIfMissed`, `PausesAreCounted`, `NowNextIsOfChannel`, `NeverCrashes`, `TimersFireInTime`, `DialogsCloseInTime`,
   `PressesActOnce`, `IntactTimersSurvive`, `IntactRecordingIsOwned`, `RemovedNeverStarts`, `UndisturbedStartsBounded` and the
   properties of `Recorder` (done): every safety property that the runs check.
3. Candidates for further modules: `EventServer` (connection backlog, lost events, timerd's mutex and
   neutrino's calls, as one composition in which everyone may wait for everyone); `ZapitCam` (what the
   CA module is told while live picture and recording start and stop); the shutdown counter, sleep
   timer and standby with their threads; the slots of the common interface; the thread of full EPG in sectionsd.
4. Pure algorithms against a reference: `Reschedule` with the calendar, the choice of audio pids
   (`vcrcontrol.cpp` 132-225).

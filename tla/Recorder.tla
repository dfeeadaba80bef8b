------------------------------ MODULE Recorder ------------------------------
(***************************************************************************)
(* Recording in neutrino: the main thread of class CNeutrinoApp            *)
(* (neutrino.cpp), the file recorder it drives (vcrcontrol.cpp,            *)
(* stream2file.cpp) and the record, standby and playback modes of zapit    *)
(* (zapit.cpp).                                                            *)
(*                                                                         *)
(* The main thread takes one message at a time out of its event socket.    *)
(* timerd, zapit and the web server put them there at any time; remote     *)
(* control keys are looked at only when the socket is empty, a timer of    *)
(* the input loop that has expired comes before everything else.  Handlers *)
(* call each other, and a dialog or an error box shown by one of them runs *)
(* the message loop again: "agenda" is the call stack, a stack of the      *)
(* pieces of handlers still to be run.  A piece is what the main thread    *)
(* does between two points where a message can be added to the socket.     *)
(*                                                                         *)
(* zapit answers the calls of the main thread in their order, so what it   *)
(* sends to the socket because of a call is there before the next one.     *)
(* The box shows television channels only, and records to files.           *)
(***************************************************************************)
EXTENDS Integers, Sequences, Functions

CONSTANTS
    Timed,    \* the recording timers of timerd
    Manual,   \* bound: the timers timerd has left for recordings begun now
    None,     \* no timer, no recording
    Boxes     \* the settings and the surroundings of the boxes looked at

\* A box has
\*   timed, manual    the timers of Timed and Manual it may use
\*   settings         of g_settings: auto_timeshift, auto_delete, zap_on_announce, and
\*                    stopplayback (no live picture while recording)
\*   users, inputs    what users and clients do, and how often (a bound)
\*   faults           what may go wrong: "open" the file of a recording, "short" recordings
\*                    that end while they are being started
Settings == {"auto_timeshift", "auto_delete", "zap_on_announce", "stopplayback"}

ASSUME ConstantsAssumption ==
    /\ Timed \cap Manual = {} /\ None \notin Timed \cup Manual
    /\ {"key", "shift"} \cap (Timed \cup Manual \cup {None}) = {}
    /\ \A b \in Boxes : /\ b.timed \subseteq Timed /\ b.manual \subseteq Manual
                        /\ b.settings \subseteq Settings /\ b.inputs \in Nat

VARIABLES
    timers,          \* timerd: the state of its recording timers
    queue,           \* the event socket
    agenda,          \* the call stack of the main thread
    mode,            \* CNeutrinoApp::mode
    recordingstatus, \* CNeutrinoApp::recordingstatus
    recording_id,    \* CNeutrinoApp::recording_id
    nextRecordingInfo,
    autoshift,       \* the recording is a timeshift
    shift_timer,     \* the timer that starts a timeshift is set
    was_record, wasshift,
    device,          \* CVCRControl::CDevice::deviceState
    movieInfo,       \* g_movieInfo is allocated
    taping,          \* what cRecord writes to a file
    recmode,         \* zapit: currentMode & RECORD_MODE
    standby,         \* zapit: standby
    playing,         \* zapit: playing
    zapping,         \* zapit: a zap nobody waits for is under way
    alive,           \* history: no null pointer was used
    erased,          \* history: the recordings that were deleted when they ended
    inputs,          \* the counter that box.inputs bounds
    box              \* the box of this behaviour

shift    == <<autoshift, shift_timer, wasshift>>
recorder == <<device, movieInfo, taping, alive, erased>>
zapit    == <<recmode, standby, playing>>
vars == <<timers, queue, agenda, mode, recordingstatus, recording_id, nextRecordingInfo,
          shift, was_record, recorder, zapit, zapping, inputs, box>>

IsSet(setting) == setting \in box.settings

Ids      == Timed \cup Manual
Programs == Timed \cup {"key", "shift"}
Pieces   == {"next", "cut", "open", "box", "failed", "ask", "answer", "leaveShift", "sleep",
             "wake", "tv", "reshift", "shifted"}

Msg(m, i)     == [msg |-> m, timer |-> i]
RecordMode(b) == Msg(IF b THEN "RECORDMODE_ON" ELSE "RECORDMODE_OFF", None)
ZapComplete   == Msg("ZAP_COMPLETE", None)

Do(piece)         == [do |-> piece, for |-> None]
Cut(program)      == [do |-> "cut", for |-> program]
Doing(piece)      == alive /\ agenda # <<>> /\ Head(agenda).do = piece
Dialog            == agenda # <<>> /\ Head(agenda).do \in {"box", "ask"}
Return            == agenda' = Tail(agenda)
Continue(pieces)  == agenda' = pieces \o Tail(agenda)

-----------------------------------------------------------------------------
\* zapit serves one command at a time, a zap that nobody waits for included.
ZapitAnswers == ~zapping

UnsetRecordModeSilently(q) == ZapitAnswers /\ recmode' = FALSE /\ queue' = q  \* mutant

UnsetRecordMode(q) ==
    /\ ZapitAnswers
    /\ recmode' = FALSE
    /\ queue' = IF recmode THEN Append(q, RecordMode(FALSE)) ELSE q

RestoreRecordMode(q) == UnsetRecordMode(q) /\ UNCHANGED <<standby, playing>>  \* mutant

RestoreNeutrino(q) ==
    /\ UnsetRecordMode(q)
    /\ playing' = (playing \/ (mode # "standby" /\ ~standby))
    /\ UNCHANGED standby

DeletedAlways   == IF IsSet("auto_delete") THEN {taping} \ {None} ELSE {}  \* mutant
DeletedUnopened == IF autoshift /\ IsSet("auto_delete") THEN {taping} ELSE {}  \* mutant

\* stop_recording deletes the file of a timeshift.
Deleted == IF autoshift /\ IsSet("auto_delete") THEN {taping} \ {None} ELSE {}

\* CFileDevice::Stop: it writes to *g_movieInfo without asking whether it is there.
Stop(q) ==
    /\ alive' = movieInfo
    /\ taping' = None
    /\ erased' = erased \cup Deleted
    /\ RestoreNeutrino(q)
    /\ device' = "STOP" /\ movieInfo' = FALSE

\* g_Timerd->stopTimerEvent: timerd will send RECORD_STOP if the timer runs.
AskToStop(i) ==
    timers' = [j \in Ids |-> IF j = i /\ timers[j] = "running" THEN "asked" ELSE timers[j]]

\* stopAutoRecord
StopAutoRecord(q, status) ==
    \/ /\ autoshift /\ status
       /\ Stop(q)
       /\ autoshift' = FALSE
       /\ AskToStop(recording_id)
       /\ recording_id' = None
       /\ UNCHANGED shift_timer
    \/ /\ ~(autoshift /\ status)
       /\ shift_timer' = "off"
       /\ queue' = q
       /\ UNCHANGED <<autoshift, recorder, zapit, timers, recording_id>>

\* "if(autoshift) { stopAutoRecord(); recordingstatus = 0; }"
LeaveTimeshift(q) ==
    \/ autoshift /\ StopAutoRecord(q, recordingstatus) /\ recordingstatus' = FALSE
    \/ /\ ~autoshift /\ queue' = q
       /\ UNCHANGED <<autoshift, shift_timer, recorder, zapit, timers, recording_id, recordingstatus>>

-----------------------------------------------------------------------------
Init ==
    /\ box \in Boxes
    /\ timers = [i \in Ids |-> IF i \in box.timed THEN "waiting"
                              ELSE IF i \in box.manual THEN "unused" ELSE "over"]
    /\ queue = <<>> /\ agenda = <<>> /\ mode = "tv"
    /\ recordingstatus = FALSE /\ nextRecordingInfo = None
    /\ recording_id \in box.timed \cup box.manual \cup {None}  \* the constructor leaves it uninitialised
    /\ autoshift = FALSE /\ shift_timer = "off" /\ wasshift = FALSE /\ was_record = FALSE
    /\ device = "STOP" /\ movieInfo = FALSE /\ taping = None
    /\ recmode = FALSE /\ standby = FALSE /\ playing = TRUE /\ zapping = FALSE
    /\ alive = TRUE /\ erased = {} /\ inputs = 0

-----------------------------------------------------------------------------
\* timerd sends a message and the timer goes on to its next state.
Announces(i, from, to, m) ==
    /\ alive /\ timers[i] = from
    /\ timers' = [timers EXCEPT ![i] = to]
    /\ queue' = Append(queue, Msg(m, i))
    /\ UNCHANGED <<agenda, mode, recordingstatus, recording_id, nextRecordingInfo, shift,
                   was_record, recorder, zapit, zapping, inputs>>

TimerAnnounced(i) == Announces(i, "waiting", "announced", "ANNOUNCE_RECORD")
TimerStarts(i)    == \E from \in {"waiting", "announced"} :
                         Announces(i, from, "running", "RECORD_START")

\* The main thread has not yet finished with the start of the recording of a timer.
Starting(i) ==
    \/ Msg("RECORD_START", i) \in Range(queue)
    \/ RecordMode(TRUE) \in Range(queue) /\ i = recording_id
    \/ Do("next") \in Range(agenda) /\ i = nextRecordingInfo
    \/ \E piece \in Range(agenda) : piece.for = i

TimerStops(i) ==
    /\ "short" \in box.faults \/ ~Starting(i)
    /\ \E from \in {"running", "asked"} : Announces(i, from, "over", "RECORD_STOP")

\* zapit has finished a zap.
ZapDone ==
    /\ alive /\ zapping /\ zapping' = FALSE
    /\ queue' = Append(queue, ZapComplete)
    /\ playing' = (playing \/ ~standby)
    /\ UNCHANGED <<timers, agenda, mode, recordingstatus, recording_id, nextRecordingInfo, shift,
                   was_record, recorder, recmode, standby, inputs>>

\* A client of the web server, or a standby timer, sends a message.
ClientSends(m) ==
    /\ alive /\ m \in box.users /\ inputs < box.inputs /\ inputs' = inputs + 1
    /\ queue' = Append(queue, Msg(m, None))
    /\ UNCHANGED <<timers, agenda, mode, recordingstatus, recording_id, nextRecordingInfo, shift,
                   was_record, recorder, zapit, zapping>>

-----------------------------------------------------------------------------
\* The message loop: in the main loop or in a dialog.
Receptive   == alive /\ (agenda = <<>> \/ Dialog)
Receives(m) == Receptive /\ queue # <<>> /\ Head(queue).msg = m
Sender      == Head(queue).timer
Rest        == Tail(queue)
Call(pieces) == agenda' = pieces \o agenda

\* RECORD_START ends the dialog it is handled in.
EndDialog(pieces) ==
    agenda' = pieces \o (IF ~Dialog THEN agenda
                         ELSE IF Head(agenda).do = "ask" THEN <<Do("answer")>> \o Tail(agenda)
                         ELSE Tail(agenda))

HandleRecordStart ==
    /\ Receives("RECORD_START")
    /\ LeaveTimeshift(Rest)
    /\ nextRecordingInfo' = Sender
    /\ EndDialog(<<Do("next")>>)
    /\ UNCHANGED <<mode, wasshift, was_record, zapping, inputs>>

ResetStatusOnly == recordingstatus' = FALSE /\ UNCHANGED autoshift  \* mutant
Reset           == recordingstatus' = FALSE /\ autoshift' = FALSE

NoNext    == UNCHANGED agenda  \* mutant
AfterStop == Call(<<Do("next")>>)

NeverDropped(i) == nextRecordingInfo  \* mutant
Dropped(i)      == IF i = nextRecordingInfo THEN None ELSE nextRecordingInfo

HandleRecordStop ==
    /\ Receives("RECORD_STOP")
    /\ \/ /\ Sender = recording_id /\ device = "RECORD"
          /\ Stop(Rest)
          /\ Reset
          /\ AfterStop
          /\ UNCHANGED nextRecordingInfo
       \/ /\ Sender = recording_id /\ device # "RECORD"
          /\ queue' = Rest
          /\ AfterStop
          /\ UNCHANGED <<recordingstatus, nextRecordingInfo, autoshift, recorder, zapit>>
       \/ /\ Sender # recording_id
          /\ queue' = Rest
          /\ nextRecordingInfo' = Dropped(Sender)
          /\ UNCHANGED <<agenda, recordingstatus, autoshift, recorder, zapit>>
    /\ UNCHANGED <<timers, mode, recording_id, shift_timer, wasshift, was_record, zapping, inputs>>

HandleAnnounceRecord ==
    /\ Receives("ANNOUNCE_RECORD")
    /\ LeaveTimeshift(Rest)
    /\ zapping' = (zapping \/ (IsSet("zap_on_announce") /\ ~recordingstatus'))
    /\ UNCHANGED <<agenda, mode, nextRecordingInfo, wasshift, was_record, inputs>>

MustSleepRecording(on) == recordingstatus /\ was_record /\ ~on  \* mutant
MustSleep(on)          == ~recordingstatus /\ was_record /\ ~on

HandleRecordMode(on) ==
    /\ Receives(RecordMode(on).msg)
    /\ queue' = Rest
    /\ MustSleep(on) => ZapitAnswers
    /\ standby' = (standby \/ MustSleep(on))
    /\ playing' = (playing /\ ~MustSleep(on))
    /\ was_record' = ((mode = "standby" /\ on) \/ (was_record /\ ~MustSleep(on)))
    /\ recordingstatus' = on
    /\ UNCHANGED <<timers, agenda, mode, recording_id, nextRecordingInfo, shift, recorder, recmode,
                   zapping, inputs>>

HandleZapComplete ==
    /\ Receives("ZAP_COMPLETE")
    /\ queue' = Rest
    /\ shift_timer' = IF ~recordingstatus /\ IsSet("auto_timeshift") THEN "set" ELSE "off"
    /\ UNCHANGED <<timers, agenda, mode, recordingstatus, recording_id, nextRecordingInfo,
                   autoshift, wasshift, was_record, recorder, zapit, zapping, inputs>>

\* standbyMode: first what it does about a timeshift, then the rest.
StandbyMode(q, on) ==
    IF on
    THEN /\ LeaveTimeshift(q)
         /\ wasshift' = (wasshift \/ autoshift)
         /\ Call(<<Do("sleep")>>)
    ELSE /\ queue' = q
         /\ Call(<<Do("wake"), Do("tv"), Do("reshift")>>)
         /\ UNCHANGED <<timers, recordingstatus, recording_id, shift, recorder, zapit>>

HandleStandby(on) ==
    /\ Receives(IF on THEN "STANDBY_ON" ELSE "STANDBY_OFF")
    /\ \/ /\ (mode = "standby") # on
          /\ StandbyMode(Rest, on)
       \/ /\ (mode = "standby") = on
          /\ queue' = Rest
          /\ UNCHANGED <<timers, agenda, recordingstatus, recording_id, shift, recorder, zapit>>
    /\ UNCHANGED <<mode, nextRecordingInfo, was_record, zapping, inputs>>

\* startAutoRecord, which does nothing while recordingstatus is set.
StartAutoRecord(status) ==
    IF status THEN UNCHANGED <<autoshift, recordingstatus, agenda>>
    ELSE autoshift' = TRUE /\ recordingstatus' = TRUE /\ Call(<<Cut("shift")>>)

FreeId == \E m \in Manual : timers[m] = "unused"

\* The timer of a timeshift takes seconds: it does not expire while the main
\* thread reads the messages that wait and none of them makes it do more.
ShiftTimerExpires ==
    /\ alive /\ shift_timer = "set" /\ (queue = <<>> \/ agenda # <<>>)
    /\ shift_timer' = "expired"
    /\ UNCHANGED <<timers, queue, agenda, mode, recordingstatus, recording_id, nextRecordingInfo,
                   autoshift, wasshift, was_record, recorder, zapit, zapping, inputs>>

ShiftTimer ==
    /\ Receptive /\ shift_timer = "expired" /\ (recordingstatus \/ FreeId)
    /\ shift_timer' = "off"
    /\ StartAutoRecord(recordingstatus)
    /\ UNCHANGED <<timers, queue, mode, recording_id, nextRecordingInfo, wasshift, was_record,
                   recorder, zapit, zapping, inputs>>

-----------------------------------------------------------------------------
\* Keys, while the live picture is shown and no message is waiting.
Key(k) ==
    /\ alive /\ agenda = <<>> /\ queue = <<>>
    /\ k \in box.users /\ inputs < box.inputs /\ inputs' = inputs + 1

\* RC_record: start a recording, or ask whether to stop the one under way.
PressRecord ==
    /\ Key("record") /\ mode = "tv" /\ (recordingstatus \/ FreeId)
    /\ IF recordingstatus
       THEN Call(<<Do("ask")>>) /\ UNCHANGED recordingstatus
       ELSE Call(<<Do("leaveShift"), Cut("key")>>) /\ recordingstatus' = TRUE
    /\ UNCHANGED <<timers, queue, mode, recording_id, nextRecordingInfo, shift, was_record,
                   recorder, zapit, zapping>>

\* The key for timeshift, with temporary timeshift on.
PressTimeshift ==
    /\ Key("timeshift") /\ mode = "tv" /\ ~recordingstatus /\ FreeId
    /\ StartAutoRecord(recordingstatus)
    /\ UNCHANGED <<timers, queue, mode, recording_id, nextRecordingInfo, shift_timer, wasshift,
                   was_record, recorder, zapit, zapping>>

\* The main menu's entry for recording, switched to "stop": the menu clears
\* recordingstatus itself before it calls doGuiRecord.
MenuStop ==
    /\ Key("menu") /\ mode = "tv" /\ recordingstatus
    /\ recordingstatus' = FALSE
    /\ AskToStop(recording_id)
    /\ shift_timer' = IF autoshift THEN "off" ELSE shift_timer
    /\ Call(<<Do("next")>>)
    /\ UNCHANGED <<queue, mode, recording_id, nextRecordingInfo, autoshift, wasshift, was_record,
                   recorder, zapit, zapping>>

PressStandby ==
    /\ Key("standby")
    /\ StandbyMode(queue, mode # "standby")
    /\ UNCHANGED <<mode, nextRecordingInfo, was_record, zapping>>

\* CRemoteControl::zapTo_ChannelID
PressZap ==
    /\ Key("zap") /\ mode = "tv"
    /\ LeaveTimeshift(queue)
    /\ zapping' = TRUE
    /\ UNCHANGED <<agenda, mode, nextRecordingInfo, wasshift, was_record>>

-----------------------------------------------------------------------------
\* The pieces of handlers.

MayStartWaiting == nextRecordingInfo # None  \* mutant
MayStart        == ~recordingstatus /\ nextRecordingInfo # None

StartNextRecordingUnnamed ==  \* mutant
    /\ Doing("next")
    /\ IF MayStart THEN Continue(<<Cut(nextRecordingInfo)>>) ELSE Return
    /\ UNCHANGED <<timers, queue, mode, recordingstatus, recording_id, nextRecordingInfo, shift,
                   was_record, recorder, zapit, zapping, inputs>>

\* startNextRecording
StartNextRecording ==
    /\ Doing("next")
    /\ IF MayStart
       THEN recording_id' = nextRecordingInfo /\ Continue(<<Cut(nextRecordingInfo)>>)
       ELSE Return /\ UNCHANGED recording_id
    /\ UNCHANGED <<timers, queue, mode, recordingstatus, nextRecordingInfo, shift, was_record,
                   recorder, zapit, zapping, inputs>>

\* Record, first part: zapit is woken, zaps to the channel of a timer when it
\* shows another one, and is set to record mode.
CutBackNeutrino ==
    /\ Doing("cut") /\ ZapitAnswers
    /\ was_record' = (was_record \/ mode = "standby")
    /\ standby' = FALSE /\ recmode' = TRUE
    /\ \E zap \in {<<>>} \cup (IF Head(agenda).for \in Timed THEN {<<ZapComplete>>} ELSE {}) :
          /\ queue' = queue \o zap \o (IF recmode THEN <<>> ELSE <<RecordMode(TRUE)>>)
          /\ playing' = (mode # "standby" /\ ~IsSet("stopplayback") /\ (playing \/ standby \/ zap # <<>>))
    /\ Continue(<<[do |-> "open", for |-> Head(agenda).for]>>)
    /\ UNCHANGED <<timers, mode, recordingstatus, recording_id, nextRecordingInfo, shift, recorder,
                   zapping, inputs>>

ServedAndKept == recordingstatus' = TRUE /\ UNCHANGED nextRecordingInfo  \* mutant
Served        == recordingstatus' = TRUE /\ nextRecordingInfo' = None

\* Record, second part, and what its callers do when it succeeds: a recording
\* begun now gets a timer, and timerd has served the earlier requests first.
StartRecording ==
    /\ Doing("open")
    /\ device' = "RECORD" /\ movieInfo' = TRUE /\ taping' = Head(agenda).for
    /\ \/ /\ Head(agenda).for \in Timed
          /\ Served
          /\ UNCHANGED <<timers, recording_id>>
       \/ /\ Head(agenda).for \notin Timed
          /\ \A i \in Ids : timers[i] # "asked"
          /\ \E m \in Manual :
                /\ timers[m] = "unused"
                /\ timers' = [timers EXCEPT ![m] = "running"]
                /\ recording_id' = m
          /\ UNCHANGED <<recordingstatus, nextRecordingInfo>>
    /\ Return
    /\ UNCHANGED <<queue, mode, shift, was_record, alive, erased, zapit, zapping, inputs>>

\* Record, second part, when the file or the device cannot be opened: an error
\* box is shown before Record returns.
FailRecording ==
    /\ Doing("open") /\ "open" \in box.faults
    /\ movieInfo' = TRUE /\ taping' \in {taping, None}
    /\ RestoreNeutrino(queue)
    /\ Continue(<<Do("box"), [do |-> "failed", for |-> Head(agenda).for]>>)
    /\ UNCHANGED <<timers, mode, recordingstatus, recording_id, nextRecordingInfo, shift,
                   was_record, device, alive, erased, zapping, inputs>>

\* What the callers do when Record has failed.
AfterFailure ==
    /\ Doing("failed")
    /\ recordingstatus' = FALSE
    /\ nextRecordingInfo' = IF Head(agenda).for \in Timed THEN None ELSE nextRecordingInfo
    /\ autoshift' = (autoshift /\ Head(agenda).for # "shift")
    /\ Return
    /\ UNCHANGED <<timers, queue, mode, recording_id, shift_timer, wasshift, was_record, recorder,
                   zapit, zapping, inputs>>

\* A dialog ends with a key or a timeout.
CloseBox ==
    /\ Doing("box") /\ Return
    /\ UNCHANGED <<timers, queue, mode, recordingstatus, recording_id, nextRecordingInfo, shift,
                   was_record, recorder, zapit, zapping, inputs>>

Answer ==
    /\ alive /\ agenda # <<>> /\ Head(agenda).do \in {"ask", "answer"}
    /\ AskToStop(recording_id) \/ UNCHANGED timers
    /\ Return
    /\ UNCHANGED <<queue, mode, recordingstatus, recording_id, nextRecordingInfo, shift, was_record,
                   recorder, zapit, zapping, inputs>>

\* doGuiRecord: "if(autoshift) stopAutoRecord();"
LeaveShift ==
    /\ Doing("leaveShift")
    /\ \/ autoshift /\ StopAutoRecord(queue, recordingstatus)
       \/ ~autoshift /\ UNCHANGED <<timers, queue, recording_id, autoshift, shift_timer, recorder, zapit>>
    /\ Return
    /\ UNCHANGED <<mode, recordingstatus, nextRecordingInfo, wasshift, was_record, zapping, inputs>>

\* The rest of standbyMode(true).
Sleep ==
    /\ Doing("sleep") /\ ZapitAnswers
    /\ was_record' = (was_record \/ recordingstatus)
    /\ standby' = (standby \/ ~was_record')
    /\ playing' = FALSE
    /\ mode' = "standby"
    /\ Return
    /\ UNCHANGED <<timers, queue, recordingstatus, recording_id, nextRecordingInfo, shift, recorder,
                   recmode, zapping, inputs>>

\* standbyMode(false): zapit is woken; tvMode; a timeshift is resumed.
Wake ==
    /\ Doing("wake") /\ ZapitAnswers
    /\ standby' = FALSE
    /\ playing' = (playing \/ standby \/ was_record)
    /\ was_record' = (was_record /\ ~recordingstatus)
    /\ mode' = "tv"
    /\ Return
    /\ UNCHANGED <<timers, queue, recordingstatus, recording_id, nextRecordingInfo, shift,
                   recorder, recmode, zapping, inputs>>

TvMode ==
    /\ Doing("tv")
    /\ LeaveTimeshift(queue)
    /\ Return
    /\ UNCHANGED <<mode, nextRecordingInfo, wasshift, was_record, zapping, inputs>>

Reshift ==
    /\ Doing("reshift") /\ (wasshift => recordingstatus \/ FreeId)
    /\ IF wasshift /\ ~recordingstatus
       THEN autoshift' = TRUE /\ recordingstatus' = TRUE /\ Continue(<<Cut("shift"), Do("shifted")>>)
       ELSE Continue(<<Do("shifted")>>) /\ UNCHANGED <<autoshift, recordingstatus>>
    /\ UNCHANGED <<timers, queue, mode, recording_id, nextRecordingInfo, shift_timer, wasshift,
                   was_record, recorder, zapit, zapping, inputs>>

Shifted ==
    /\ Doing("shifted")
    /\ wasshift' = FALSE
    /\ Return
    /\ UNCHANGED <<timers, queue, mode, recordingstatus, recording_id, nextRecordingInfo, autoshift,
                   shift_timer, was_record, recorder, zapit, zapping, inputs>>

-----------------------------------------------------------------------------
Handlers ==
    \/ HandleRecordStart \/ HandleRecordStop \/ HandleAnnounceRecord
    \/ \E on \in BOOLEAN : HandleRecordMode(on) \/ HandleStandby(on)
    \/ HandleZapComplete \/ ShiftTimer

PieceOfWork ==
    \/ StartNextRecording \/ CutBackNeutrino \/ StartRecording \/ FailRecording \/ AfterFailure
    \/ CloseBox \/ Answer \/ LeaveShift \/ Sleep \/ Wake \/ TvMode \/ Reshift \/ Shifted

Keys == PressRecord \/ PressTimeshift \/ MenuStop \/ PressStandby \/ PressZap

TimerEnds == \E i \in Ids : TimerStops(i)

Next ==
    /\ UNCHANGED box
    /\ \/ Handlers \/ PieceOfWork \/ Keys \/ ZapDone
       \/ \E i \in Timed : TimerAnnounced(i) \/ TimerStarts(i)
       \/ TimerEnds \/ ShiftTimerExpires
       \/ \E m \in {"STANDBY_ON", "STANDBY_OFF"} : ClientSends(m)

Spec == Init /\ [][Next]_vars

\* The main thread runs, dialogs time out, and timers end.
FairSpec ==
    /\ Spec
    /\ WF_vars((Handlers \/ PieceOfWork) /\ UNCHANGED box)
    /\ WF_vars(ZapDone /\ UNCHANGED box)
    /\ WF_vars(TimerEnds /\ UNCHANGED box)

-----------------------------------------------------------------------------
Tasks == [do : Pieces, for : Programs \cup {None}]
Messages == {"ANNOUNCE_RECORD", "RECORD_START", "RECORD_STOP", "RECORDMODE_ON", "RECORDMODE_OFF",
             "ZAP_COMPLETE", "STANDBY_ON", "STANDBY_OFF"}

\* Every variable has its type.
TypeOK ==
    /\ timers \in [Ids -> {"unused", "waiting", "announced", "running", "asked", "over"}]
    /\ queue \in Seq([msg : Messages, timer : Ids \cup {None}])
    /\ agenda \in Seq(Tasks)
    /\ mode \in {"tv", "standby"}
    /\ {recordingstatus, autoshift, was_record, wasshift, movieInfo, recmode, standby,
        playing, zapping, alive} \subseteq BOOLEAN
    /\ recording_id \in Ids \cup {None} /\ nextRecordingInfo \in Timed \cup {None}
    /\ shift_timer \in {"off", "set", "expired"}
    /\ device \in {"STOP", "RECORD"}
    /\ taping \in Programs \cup {None} /\ erased \subseteq Programs
    /\ inputs \in 0..box.inputs

\* Nothing is being handled, nothing waits to be handled.
Quiet == alive /\ queue = <<>> /\ agenda = <<>> /\ ~zapping

\* Nobody begins, stops or shifts recordings by hand.
OnlyTimers ==
    /\ box.users \cap {"record", "timeshift", "menu"} = {} /\ box.faults = {}
    /\ ~IsSet("auto_timeshift")

\* A recording is never opened over one that is under way: RECORD_START answers STREAM2FILE_BUSY
\* or waits (vcrcontrol.cpp:665).
OneRecording == Doing("open") => taping = None

\* Of three timers, the last may be started while what the end of the first has left in the socket
\* makes the recording of the second look ended.
AtMostTwo == \A i, j, k \in box.timed : i = j \/ j = k \/ i = k

\* With two timers alone recordings never overlap, whatever messages of the one before are still in
\* the socket and whoever switches the television on and off.
TimersTakeTurns == OnlyTimers /\ AtMostTwo => OneRecording

\* When nothing is being handled, recordingstatus and zapit's record mode say
\* whether a recording is under way.
StatusIsTrue == Quiet => recordingstatus = (taping # None) /\ recmode = (taping # None)

\* When nothing is being handled, a recording under way is the one of
\* recording_id and timerd has yet to send its RECORD_STOP: it will end.
RecordingIsStoppable ==
    Quiet /\ taping # None =>
        /\ recording_id # None /\ timers[recording_id] \in {"running", "asked"}
        /\ taping \in Timed => recording_id = taping

\* With two timers alone, and when nothing is being handled, a recording that waits waits for one
\* under way.
WaitingIsServed == OnlyTimers /\ AtMostTwo /\ Quiet /\ nextRecordingInfo # None => taping # None

AwakeWhenOn == ~standby /\ (playing \/ (IsSet("stopplayback") /\ taping # None))
AsleepWhenOff == ~playing /\ (taping = None => standby)

\* With one timer or two alone, and when nothing is being handled: while the television is on, zapit is
\* awake and shows a picture, unless a recording has stopped it; while it is off, zapit shows no
\* picture, and sleeps when nothing is recorded.  Excluded, for an EVT_RECORDMODE that is read late
\* tells of the recording before: a box somebody wakes by STANDBY_OFF, a third timer, and a second one
\* while the television is off.
ZapitFollowsTelevision ==
    OnlyTimers /\ AtMostTwo /\ Quiet =>
        /\ mode = "tv" /\ "STANDBY_OFF" \notin box.users => AwakeWhenOn
        /\ mode = "standby" /\ (\A i, j \in box.timed : i = j) => AsleepWhenOff

\* The movie info that Stop writes to is always there.
NeverCrashes == alive

\* Only a timeshift is ever deleted when it ends, on a box that is switched on and begins its
\* timeshifts by key, stops no recording from the menu, and whose recordings open.
TimedRecordingsAreKept == erased \subseteq {"shift"}

\* Every recording ends, and every waiting one stops waiting.
RecordingsEnd == \A p \in Programs : taping = p ~> taping # p
WaitingEnds   == \A i \in Timed : nextRecordingInfo = i ~> nextRecordingInfo # i
=============================================================================

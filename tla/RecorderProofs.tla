--------------------------- MODULE RecorderProofs ---------------------------
(***************************************************************************)
(* neutrino's main thread never stops a recorder that has nothing to stop: *)
(* for any timers, boxes, settings, users and faults.  Where recordings    *)
(* are not stopped from the menu and files open, what neutrino and zapit   *)
(* note of a recording under way is true whenever nothing is being handled,*)
(* and a recording under way will be stopped.  Two timers alone take turns,*)
(* and zapit follows the television.  Where time shifts are begun by hand  *)
(* only, no recording of a timer is deleted for one.                       *)
(***************************************************************************)
EXTENDS Recorder, SequenceTheorems, TLAPS

\* A RECORD_START comes from one of timerd's timers, never from one set for a recording that
\* has begun.
Sent == {m \in [msg : Messages, timer : Ids \cup {None}] :
            m.msg = "RECORD_START" => m.timer \in Timed}

\* What TypeOK leaves open.
Surroundings == box \in Boxes /\ queue \in Seq(Sent)

\* The main thread is in Record for a timeshift, and has not yet opened its file.
BeginsShift ==
    agenda # <<>> /\ Head(agenda).do \in {"cut", "open"} /\ Head(agenda).for = "shift"

\* The movie info is there while the device records, and while there is a timeshift to be left.
Allocated ==
    /\ alive
    /\ device = "RECORD" => movieInfo
    /\ autoshift => movieInfo \/ BeginsShift

IInv == TypeOK /\ Surroundings /\ Allocated

States  == {"unused", "waiting", "announced", "running", "asked", "over"}

-----------------------------------------------------------------------------
(* Sequences *)

LEMMA SeqGrows ==
    ASSUME NEW S, NEW T, S \subseteq T, NEW s \in Seq(S) PROVE s \in Seq(T)
  OBVIOUS

LEMMA SeqRest ==
    ASSUME NEW S, NEW s \in Seq(S), s # <<>> PROVE Head(s) \in S /\ Tail(s) \in Seq(S)
  OBVIOUS

\* Pieces put on the stack.
LEMMA Pushed ==
    ASSUME NEW S, NEW p \in Seq(S), NEW s \in Seq(S), p # <<>>
    PROVE  p \o s \in Seq(S) /\ p \o s # <<>> /\ Head(p \o s) = Head(p)
<1>1. p \o s \in Seq(S) /\ Len(p \o s) = Len(p) + Len(s) /\ Len(p) > 0
  OBVIOUS
<1>2. (p \o s)[1] = p[1]
  BY <1>1, ConcatProperties
<1> QED BY <1>1, <1>2

\* What is sent.
LEMMA SentMessages ==
    /\ ZapComplete \in Sent
    /\ \A b \in BOOLEAN : RecordMode(b) \in Sent
    /\ \A m \in Messages \ {"RECORD_START"}, i \in Ids \cup {None} : Msg(m, i) \in Sent
    /\ \A i \in Timed : Msg("RECORD_START", i) \in Sent
    /\ Sent \subseteq [msg : Messages, timer : Ids \cup {None}]
  BY DEF ZapComplete, RecordMode, Msg, Sent, Messages, Ids

\* Tasks.
LEMMA TaskTypes ==
    /\ \A piece \in Pieces : Do(piece) \in Tasks /\ Do(piece).do = piece
    /\ \A program \in Programs \cup {None} :
          /\ Cut(program) \in Tasks
          /\ Cut(program).do = "cut" /\ Cut(program).for = program
          /\ \A piece \in Pieces : [do |-> piece, for |-> program] \in Tasks
  BY DEF Do, Cut, Tasks, Pieces

LEMMA QueueTypes ==
    ASSUME NEW q \in Seq(Sent) PROVE q \in Seq([msg : Messages, timer : Ids \cup {None}])
<1>1. Sent \subseteq [msg : Messages, timer : Ids \cup {None}]
  BY SentMessages
<1> QED BY <1>1, SeqGrows

LEMMA Start == Init => IInv
<1> SUFFICES ASSUME Init PROVE IInv
  OBVIOUS
<1>1. timers \in [Ids -> States]
  BY DEF Init, States
<1>2. box \in Boxes /\ box.timed \subseteq Timed /\ box.manual \subseteq Manual /\ box.inputs \in Nat
  BY ConstantsAssumption DEF Init
<1>3. recording_id \in Ids \cup {None}
  BY <1>2 DEF Init, Ids
<1>4. timers \in [Ids -> {"unused", "waiting", "announced", "running", "asked", "over"}]
  BY <1>1 DEF States
<1>5. {recordingstatus, autoshift, was_record, wasshift, movieInfo, recmode, standby, playing,
       zapping, alive} \subseteq BOOLEAN
  BY DEF Init
<1>6. queue = <<>> /\ agenda = <<>> /\ mode = "tv" /\ nextRecordingInfo = None /\ shift_timer = "off"
      /\ device = "STOP" /\ taping = None /\ erased = {} /\ inputs = 0
  BY DEF Init
<1>7. TypeOK
  BY <1>2, <1>3, <1>4, <1>5, <1>6 DEF TypeOK
<1> QED BY <1>2, <1>7 DEF Init, IInv, Surroundings, Allocated

-----------------------------------------------------------------------------
(* What the recorder and zapit do *)

\* Types that stopping a recording has to keep.
LEMMA StopTypes ==
    ASSUME TypeOK, NEW q \in Seq(Sent), Stop(q)
    PROVE  /\ queue' \in Seq(Sent) /\ alive' = movieInfo
           /\ device' = "STOP" /\ movieInfo' = FALSE /\ taping' = None
           /\ erased' \subseteq Programs
           /\ {recmode', standby', playing'} \subseteq BOOLEAN
<1>1. queue' \in Seq(Sent)
  <2>1. Append(q, RecordMode(FALSE)) \in Seq(Sent)
    <3>1. RecordMode(FALSE) \in Sent
      BY SentMessages
    <3> QED BY <3>1, AppendProperties
  <2> QED BY <2>1 DEF Stop, RestoreNeutrino, UnsetRecordMode
<1>2. erased' \subseteq Programs
  BY DEF Stop, TypeOK, Deleted
<1>3. {recmode', standby', playing'} \subseteq BOOLEAN
  BY DEF Stop, RestoreNeutrino, UnsetRecordMode, TypeOK
<1> QED BY <1>1, <1>2, <1>3 DEF Stop

\* The timer's message to timerd.
LEMMA AskTypes ==
    ASSUME TypeOK, NEW i, AskToStop(i) PROVE timers' \in [Ids -> States]
  BY DEF TypeOK, AskToStop, States

\* A timeshift is left in a state in which nothing is lost.
ShiftLeft ==
    /\ timers' \in [Ids -> States] /\ queue' \in Seq(Sent)
    /\ recording_id' \in Ids \cup {None}
    /\ shift_timer' \in {"off", "set", "expired"}
    /\ {autoshift', movieInfo', recmode', standby', playing'} \subseteq BOOLEAN
    /\ device' \in {"STOP", "RECORD"}
    /\ taping' \in Programs \cup {None} /\ erased' \subseteq Programs
    /\ alive'
    /\ device' = "RECORD" => movieInfo'
    /\ autoshift' => movieInfo'

LEMMA StopAutoLeaves ==
    ASSUME IInv, ~BeginsShift, NEW q \in Seq(Sent), NEW status \in BOOLEAN, StopAutoRecord(q, status)
    PROVE  ShiftLeft
<1>1. TypeOK /\ Allocated
  BY DEF IInv
<1>2. autoshift => movieInfo
  BY <1>1 DEF Allocated
<1>3. CASE autoshift /\ status /\ Stop(q) /\ autoshift' = FALSE /\ AskToStop(recording_id)
           /\ recording_id' = None /\ UNCHANGED shift_timer
  <2>1. timers' \in [Ids -> States]
    BY <1>1, <1>3, AskTypes
  <2> QED BY <1>1, <1>2, <1>3, <2>1, StopTypes DEF TypeOK, ShiftLeft
<1>4. CASE ~(autoshift /\ status) /\ shift_timer' = "off" /\ queue' = q
           /\ UNCHANGED <<autoshift, recorder, zapit, timers, recording_id>>
  BY <1>1, <1>2, <1>4 DEF TypeOK, Allocated, ShiftLeft, recorder, zapit, States
<1> QED BY <1>3, <1>4 DEF StopAutoRecord

LEMMA LeaveLeaves ==
    ASSUME IInv, ~BeginsShift, NEW q \in Seq(Sent), LeaveTimeshift(q)
    PROVE  ShiftLeft /\ recordingstatus' \in BOOLEAN
<1>1. TypeOK /\ Allocated
  BY DEF IInv
<1>2. recordingstatus \in BOOLEAN
  BY <1>1 DEF TypeOK
<1>3. CASE autoshift
  BY <1>2, <1>3, StopAutoLeaves DEF LeaveTimeshift
<1>4. CASE ~autoshift
  <2>1. queue' = q
        /\ UNCHANGED <<autoshift, shift_timer, recorder, zapit, timers, recording_id, recordingstatus>>
    BY <1>4 DEF LeaveTimeshift
  <2> QED BY <1>1, <1>2, <1>4, <2>1 DEF TypeOK, Allocated, ShiftLeft, recorder, zapit, States
<1> QED BY <1>3, <1>4

\* What is left after a timeshift, with the types of the rest, is the invariant again.
LEMMA LeftIsKept ==
    ASSUME IInv, ShiftLeft, box' = box, agenda' \in Seq(Tasks), mode' \in {"tv", "standby"},
           {recordingstatus', was_record', wasshift', zapping'} \subseteq BOOLEAN,
           nextRecordingInfo' \in Timed \cup {None}, inputs' \in 0..box.inputs
    PROVE  IInv'
<1>1. queue' \in Seq([msg : Messages, timer : Ids \cup {None}])
  BY QueueTypes DEF ShiftLeft
<1>2. TypeOK'
  BY <1>1 DEF ShiftLeft, TypeOK, States
<1>3. Surroundings' /\ Allocated'
  BY DEF IInv, Surroundings, ShiftLeft, Allocated
<1> QED BY <1>2, <1>3 DEF IInv

\* The recorder is left alone.
LEMMA RecorderKept ==
    ASSUME IInv, box' = box, UNCHANGED recorder,
           timers' \in [Ids -> States], queue' \in Seq(Sent), agenda' \in Seq(Tasks),
           mode' \in {"tv", "standby"},
           {recordingstatus', autoshift', was_record', wasshift', recmode', standby', playing',
            zapping'} \subseteq BOOLEAN,
           recording_id' \in Ids \cup {None}, nextRecordingInfo' \in Timed \cup {None},
           shift_timer' \in {"off", "set", "expired"}, inputs' \in 0..box.inputs,
           autoshift' => movieInfo \/ BeginsShift'
    PROVE  IInv'
<1>1. queue' \in Seq([msg : Messages, timer : Ids \cup {None}])
  BY QueueTypes
<1>2. TypeOK'
  BY <1>1 DEF IInv, TypeOK, States, recorder
<1>3. Surroundings' /\ Allocated'
  BY DEF IInv, Surroundings, Allocated, recorder
<1> QED BY <1>2, <1>3 DEF IInv

-----------------------------------------------------------------------------
\* While a message or a key is taken, and in the pieces that leave a timeshift, none begins.
LEMMA NoShift ==
    /\ Receptive => ~BeginsShift
    /\ \A piece \in Pieces \ {"cut", "open"} : Doing(piece) => ~BeginsShift
  BY DEF Receptive, Dialog, Doing, BeginsShift

LEMMA Quantities ==
    ASSUME IInv
    PROVE  /\ inputs \in 0..box.inputs
           /\ inputs < box.inputs => inputs + 1 \in 0..box.inputs
<1> DEFINE n == box.inputs
<1>1. n \in Nat /\ inputs \in 0..n
  BY ConstantsAssumption DEF IInv, TypeOK, Surroundings
<1> HIDE DEF n
<1>2. inputs < n => inputs + 1 \in 0..n
  BY <1>1
<1> QED BY <1>1, <1>2 DEF n

\* The types of what the actions change, as the lemmas above take them.
LEMMA TypesNow ==
    ASSUME IInv
    PROVE  /\ timers \in [Ids -> States] /\ queue \in Seq(Sent) /\ agenda \in Seq(Tasks)
           /\ mode \in {"tv", "standby"}
           /\ {recordingstatus, autoshift, was_record, wasshift, recmode, standby, playing,
               zapping, movieInfo} \subseteq BOOLEAN
           /\ recording_id \in Ids \cup {None} /\ nextRecordingInfo \in Timed \cup {None}
           /\ shift_timer \in {"off", "set", "expired"} /\ inputs \in 0..box.inputs
           /\ autoshift => movieInfo \/ BeginsShift
           /\ queue # <<>> => Head(queue) \in Sent /\ Tail(queue) \in Seq(Sent)
           /\ agenda # <<>> => Head(agenda) \in Tasks /\ Tail(agenda) \in Seq(Tasks)
<1>1. queue \in Seq(Sent) /\ agenda \in Seq(Tasks)
  BY DEF IInv, TypeOK, Surroundings
<1>2. /\ queue # <<>> => Head(queue) \in Sent /\ Tail(queue) \in Seq(Sent)
      /\ agenda # <<>> => Head(agenda) \in Tasks /\ Tail(agenda) \in Seq(Tasks)
  BY <1>1, SeqRest
<1> QED BY <1>1, <1>2 DEF IInv, TypeOK, Allocated, States

\* Somebody sends a message.
LEMMA SendKeeps ==
    ASSUME IInv, box' = box, NEW m \in Sent, queue' = Append(queue, m),
           timers' \in [Ids -> States], {playing', zapping'} \subseteq BOOLEAN,
           inputs' \in 0..box.inputs,
           UNCHANGED <<agenda, mode, recordingstatus, recording_id, nextRecordingInfo, shift,
                       was_record, recorder, recmode, standby>>
    PROVE  IInv'
<1>1. queue' \in Seq(Sent)
  BY TypesNow, AppendProperties
<1>2. BeginsShift' <=> BeginsShift
  BY DEF BeginsShift
<1> QED BY <1>1, <1>2, TypesNow, RecorderKept DEF shift

LEMMA TimersKeep ==
    ASSUME IInv, box' = box, NEW i \in Ids,
           (i \in Timed /\ (TimerAnnounced(i) \/ TimerStarts(i))) \/ TimerStops(i)
    PROVE  IInv'
<1>1. PICK from \in States, to \in States, m \in Messages :
        Announces(i, from, to, m) /\ (m = "RECORD_START" => i \in Timed)
  <2>1. CASE i \in Timed /\ TimerAnnounced(i)
    BY <2>1 DEF TimerAnnounced, States, Messages
  <2>2. CASE i \in Timed /\ TimerStarts(i)
    BY <2>2 DEF TimerStarts, States, Messages
  <2>3. CASE TimerStops(i)
    BY <2>3 DEF TimerStops, States, Messages
  <2> QED BY <2>1, <2>2, <2>3
<1>2. Msg(m, i) \in Sent
  BY <1>1, SentMessages
<1>3. timers' \in [Ids -> States]
  BY <1>1, TypesNow DEF Announces
<1> QED BY <1>1, <1>2, <1>3, TypesNow, SendKeeps DEF Announces, zapit

LEMMA OthersKeep ==
    ASSUME IInv, box' = box,
           \/ ZapDone
           \/ ShiftTimerExpires
           \/ \E m \in {"STANDBY_ON", "STANDBY_OFF"} : ClientSends(m)
    PROVE  IInv'
<1>1. CASE ZapDone
  <2>1. ZapComplete \in Sent /\ {playing', zapping'} \subseteq BOOLEAN
    BY <1>1, SentMessages, TypesNow DEF ZapDone
  <2> QED BY <1>1, <2>1, TypesNow, SendKeeps DEF ZapDone
<1>2. ASSUME NEW m \in {"STANDBY_ON", "STANDBY_OFF"}, ClientSends(m) PROVE IInv'
  <2>1. Msg(m, None) \in Sent
    BY SentMessages DEF Messages
  <2>2. inputs' \in 0..box.inputs
    BY <1>2, Quantities DEF ClientSends
  <2> QED BY <1>2, <2>1, <2>2, TypesNow, SendKeeps DEF ClientSends, zapit
<1>3. CASE ShiftTimerExpires
  <2>1. BeginsShift' <=> BeginsShift
    BY <1>3 DEF ShiftTimerExpires, BeginsShift
  <2> QED BY <1>3, <2>1, TypesNow, RecorderKept DEF ShiftTimerExpires, zapit, recorder
<1> QED BY <1>1, <1>2, <1>3

-----------------------------------------------------------------------------
(* Messages that leave a timeshift *)

LEMMA RecordStartKeeps == ASSUME IInv, box' = box, HandleRecordStart PROVE IInv'
<1>1. Receptive /\ queue # <<>> /\ Head(queue).msg = "RECORD_START"
  BY DEF HandleRecordStart, Receives
<1>2. Rest \in Seq(Sent) /\ Sender \in Timed
  BY <1>1, TypesNow DEF Rest, Sender, Sent
<1>3. ShiftLeft /\ recordingstatus' \in BOOLEAN
  BY <1>1, <1>2, NoShift, LeaveLeaves DEF HandleRecordStart
<1>4. agenda' \in Seq(Tasks)
  <2> DEFINE under == IF ~Dialog THEN agenda
                      ELSE IF Head(agenda).do = "ask" THEN <<Do("answer")>> \o Tail(agenda)
                      ELSE Tail(agenda)
  <2>1. Do("next") \in Tasks /\ Do("answer") \in Tasks
    BY TaskTypes DEF Pieces
  <2>2. <<Do("next")>> \in Seq(Tasks) /\ <<Do("answer")>> \in Seq(Tasks)
        /\ <<Do("next")>> # <<>> /\ <<Do("answer")>> # <<>>
    BY <2>1
  <2>3. agenda \in Seq(Tasks) /\ (agenda # <<>> => Tail(agenda) \in Seq(Tasks))
    BY TypesNow
  <2>4. Dialog => agenda # <<>>
    BY DEF Dialog
  <2>5. Dialog => <<Do("answer")>> \o Tail(agenda) \in Seq(Tasks)
    BY <2>2, <2>3, <2>4, Pushed
  <2>6. under \in Seq(Tasks)
    BY <2>3, <2>4, <2>5
  <2>7. agenda' = <<Do("next")>> \o under
    BY DEF HandleRecordStart, EndDialog
  <2> HIDE DEF under
  <2> QED BY <2>2, <2>6, <2>7, Pushed
<1> QED BY <1>2, <1>3, <1>4, TypesNow, LeftIsKept DEF HandleRecordStart

LEMMA AnnounceKeeps == ASSUME IInv, box' = box, HandleAnnounceRecord PROVE IInv'
<1>1. Receptive /\ queue # <<>>
  BY DEF HandleAnnounceRecord, Receives
<1>2. Rest \in Seq(Sent)
  BY <1>1, TypesNow DEF Rest
<1>3. ShiftLeft /\ recordingstatus' \in BOOLEAN
  BY <1>1, <1>2, NoShift, LeaveLeaves DEF HandleAnnounceRecord
<1>4. zapping' \in BOOLEAN
  BY TypesNow DEF HandleAnnounceRecord
<1> QED BY <1>3, <1>4, TypesNow, LeftIsKept DEF HandleAnnounceRecord

LEMMA ZapKeyKeeps == ASSUME IInv, box' = box, PressZap PROVE IInv'
<1>1. ~BeginsShift /\ inputs' \in 0..box.inputs
  BY Quantities DEF PressZap, Key, BeginsShift
<1>2. ShiftLeft /\ recordingstatus' \in BOOLEAN
  BY <1>1, TypesNow, LeaveLeaves DEF PressZap
<1>3. zapping' \in BOOLEAN
  BY DEF PressZap
<1> QED BY <1>1, <1>2, <1>3, TypesNow, LeftIsKept DEF PressZap

LEMMA TvModeKeeps == ASSUME IInv, box' = box, TvMode PROVE IInv'
<1>1. ~BeginsShift /\ agenda # <<>>
  BY NoShift DEF TvMode, Doing, Pieces
<1>2. ShiftLeft /\ recordingstatus' \in BOOLEAN
  BY <1>1, TypesNow, LeaveLeaves DEF TvMode
<1> QED BY <1>1, <1>2, TypesNow, LeftIsKept DEF TvMode, Return

LEMMA LeaveShiftKeeps == ASSUME IInv, box' = box, LeaveShift PROVE IInv'
<1>1. ~BeginsShift /\ agenda # <<>>
  BY NoShift DEF LeaveShift, Doing, Pieces
<1>2. ShiftLeft
  <2>1. CASE autoshift /\ StopAutoRecord(queue, recordingstatus)
    BY <1>1, <2>1, TypesNow, StopAutoLeaves
  <2>2. CASE ~autoshift /\ UNCHANGED <<timers, queue, recording_id, autoshift, shift_timer,
                                       recorder, zapit>>
    BY <2>2, TypesNow DEF IInv, TypeOK, Allocated, ShiftLeft, recorder, zapit
  <2> QED BY <2>1, <2>2 DEF LeaveShift
<1> QED BY <1>1, <1>2, TypesNow, LeftIsKept DEF LeaveShift, Return

\* Standby, by a key or by a message: the queue is q then.
LEMMA StandbyLeaves ==
    ASSUME IInv, ~BeginsShift, NEW q \in Seq(Sent), NEW on \in BOOLEAN, StandbyMode(q, on)
    PROVE  /\ ShiftLeft /\ {recordingstatus', wasshift'} \subseteq BOOLEAN
           /\ agenda' \in Seq(Tasks)
<1>1. /\ Do("sleep") \in Tasks /\ Do("wake") \in Tasks /\ Do("tv") \in Tasks
      /\ Do("reshift") \in Tasks
  BY TaskTypes DEF Pieces
<1>2. CASE on
  <2>1. ShiftLeft /\ recordingstatus' \in BOOLEAN
    BY <1>2, LeaveLeaves DEF StandbyMode
  <2>2. wasshift' \in BOOLEAN
    BY <1>2, TypesNow DEF StandbyMode
  <2>3. agenda' = <<Do("sleep")>> \o agenda /\ <<Do("sleep")>> \in Seq(Tasks)
        /\ <<Do("sleep")>> # <<>>
    BY <1>1, <1>2 DEF StandbyMode, Call
  <2> QED BY <2>1, <2>2, <2>3, TypesNow, Pushed
<1>3. CASE ~on
  <2>1. queue' = q /\ UNCHANGED <<timers, recordingstatus, recording_id, shift, recorder, zapit>>
    BY <1>3 DEF StandbyMode
  <2>2. ShiftLeft /\ {recordingstatus', wasshift'} \subseteq BOOLEAN
    BY <2>1, TypesNow DEF IInv, TypeOK, Allocated, ShiftLeft, recorder, zapit, shift
  <2>3. agenda' = <<Do("wake"), Do("tv"), Do("reshift")>> \o agenda
        /\ <<Do("wake"), Do("tv"), Do("reshift")>> \in Seq(Tasks)
        /\ <<Do("wake"), Do("tv"), Do("reshift")>> # <<>>
    BY <1>1, <1>3 DEF StandbyMode, Call
  <2> QED BY <2>2, <2>3, TypesNow, Pushed
<1> QED BY <1>2, <1>3

LEMMA StandbyKeeps ==
    ASSUME IInv, box' = box, PressStandby \/ \E on \in BOOLEAN : HandleStandby(on) PROVE IInv'
<1>1. CASE PressStandby
  <2>1. ~BeginsShift /\ inputs' \in 0..box.inputs
    BY <1>1, Quantities DEF PressStandby, Key, BeginsShift
  <2>2. ShiftLeft /\ {recordingstatus', wasshift'} \subseteq BOOLEAN /\ agenda' \in Seq(Tasks)
    BY <1>1, <2>1, TypesNow, StandbyLeaves DEF PressStandby
  <2> QED BY <1>1, <2>1, <2>2, TypesNow, LeftIsKept DEF PressStandby
<1>2. ASSUME NEW on \in BOOLEAN, HandleStandby(on) PROVE IInv'
  <2>1. ~BeginsShift /\ Rest \in Seq(Sent)
    BY <1>2, NoShift, TypesNow DEF HandleStandby, Receives, Rest
  <2>2. ShiftLeft /\ {recordingstatus', wasshift'} \subseteq BOOLEAN /\ agenda' \in Seq(Tasks)
    <3>1. CASE StandbyMode(Rest, on)
      BY <2>1, <3>1, StandbyLeaves
    <3>2. CASE queue' = Rest /\ UNCHANGED <<timers, agenda, recordingstatus, recording_id, shift,
                                            recorder, zapit>>
      BY <2>1, <3>2, TypesNow DEF IInv, TypeOK, Allocated, ShiftLeft, recorder, zapit, shift
    <3> QED BY <1>2, <3>1, <3>2 DEF HandleStandby
  <2> QED BY <1>2, <2>2, TypesNow, LeftIsKept DEF HandleStandby
<1> QED BY <1>1, <1>2

-----------------------------------------------------------------------------
(* Other messages, the timer of the input loop, keys *)

\* RECORD_STOP of the recording under way stops it: the device records, so the movie info is
\* there.
LEMMA RecordStopKeeps == ASSUME IInv, box' = box, HandleRecordStop PROVE IInv'
<1>1. ~BeginsShift /\ queue # <<>> /\ Rest \in Seq(Sent) /\ Sender \in Ids \cup {None}
  BY NoShift, TypesNow DEF HandleRecordStop, Receives, Rest, Sender, Sent
<1>2. autoshift => movieInfo
  BY <1>1, TypesNow
<1>3. agenda' \in Seq(Tasks)
  <2>1. Do("next") \in Tasks
    BY TaskTypes DEF Pieces
  <2>2. <<Do("next")>> \in Seq(Tasks) /\ <<Do("next")>> # <<>>
    BY <2>1
  <2>3. agenda' = agenda \/ agenda' = <<Do("next")>> \o agenda
    BY DEF HandleRecordStop, AfterStop, Call
  <2> QED BY <2>2, <2>3, TypesNow, Pushed
<1>4. TypeOK /\ Allocated
  BY DEF IInv
<1>5. ShiftLeft /\ recordingstatus' \in BOOLEAN /\ nextRecordingInfo' \in Timed \cup {None}
  <2>1. CASE Sender = recording_id /\ device = "RECORD" /\ Stop(Rest) /\ Reset /\ AfterStop
             /\ UNCHANGED nextRecordingInfo
    <3>1. movieInfo = TRUE
      BY <2>1, <1>4 DEF Allocated, TypeOK
    <3>2. /\ queue' \in Seq(Sent) /\ alive' = movieInfo
          /\ device' = "STOP" /\ movieInfo' = FALSE /\ taping' = None
          /\ erased' \subseteq Programs
          /\ {recmode', standby', playing'} \subseteq BOOLEAN
      BY <1>1, <1>4, <2>1, StopTypes
    <3> QED BY <2>1, <3>1, <3>2, TypesNow DEF HandleRecordStop, Reset, ShiftLeft
  <2>2. CASE /\ queue' = Rest /\ AfterStop
             /\ UNCHANGED <<recordingstatus, nextRecordingInfo, autoshift, recorder, zapit>>
    BY <1>1, <1>2, <1>4, <2>2, TypesNow
       DEF HandleRecordStop, ShiftLeft, TypeOK, Allocated, recorder, zapit
  <2>3. CASE /\ queue' = Rest /\ nextRecordingInfo' = Dropped(Sender)
             /\ UNCHANGED <<agenda, recordingstatus, autoshift, recorder, zapit>>
    BY <1>1, <1>2, <1>4, <2>3, TypesNow
       DEF HandleRecordStop, ShiftLeft, TypeOK, Allocated, recorder, zapit, Dropped
  <2> QED BY <2>1, <2>2, <2>3 DEF HandleRecordStop
<1> QED BY <1>3, <1>5, TypesNow, LeftIsKept DEF HandleRecordStop

LEMMA MessagesKeep ==
    ASSUME IInv, box' = box, HandleZapComplete \/ \E on \in BOOLEAN : HandleRecordMode(on)
    PROVE  IInv'
<1>1. CASE HandleZapComplete
  <2>1. Rest \in Seq(Sent) /\ shift_timer' \in {"off", "set", "expired"}
    BY <1>1, TypesNow DEF HandleZapComplete, Receives, Rest
  <2>2. BeginsShift' <=> BeginsShift
    BY <1>1 DEF HandleZapComplete, BeginsShift
  <2> QED BY <1>1, <2>1, <2>2, TypesNow, RecorderKept DEF HandleZapComplete, zapit
<1>2. ASSUME NEW on \in BOOLEAN, HandleRecordMode(on) PROVE IInv'
  <2>1. Rest \in Seq(Sent)
    BY <1>2, TypesNow DEF HandleRecordMode, Receives, Rest
  <2>2. BeginsShift' <=> BeginsShift
    BY <1>2 DEF HandleRecordMode, BeginsShift
  <2>3. {standby', playing', was_record', recordingstatus'} \subseteq BOOLEAN
    BY <1>2, TypesNow DEF HandleRecordMode
  <2> QED BY <1>2, <2>1, <2>2, <2>3, TypesNow, RecorderKept DEF HandleRecordMode, shift
<1> QED BY <1>1, <1>2

\* A timeshift begins with a call of Record.
LEMMA ShiftBegins ==
    ASSUME NEW rest \in Seq(Tasks), NEW s \in Seq(Tasks),
           s = <<Cut("shift")>> \/ s = <<Cut("shift"), Do("shifted")>>,
           agenda' = s \o rest
    PROVE  agenda' \in Seq(Tasks) /\ BeginsShift'
<1>1. Head(s) = Cut("shift") /\ s # <<>>
  OBVIOUS
<1>2. Cut("shift").do = "cut" /\ Cut("shift").for = "shift"
  BY TaskTypes DEF Programs
<1> QED BY <1>1, <1>2, Pushed DEF BeginsShift

LEMMA ShiftTasks ==
    /\ <<Cut("shift")>> \in Seq(Tasks) /\ <<Cut("shift"), Do("shifted")>> \in Seq(Tasks)
    /\ <<Do("shifted")>> \in Seq(Tasks)
<1>1. Cut("shift") \in Tasks /\ Do("shifted") \in Tasks
  BY TaskTypes DEF Programs, Pieces
<1> QED BY <1>1

LEMMA ShiftKeeps == ASSUME IInv, box' = box, ShiftTimer \/ PressTimeshift PROVE IInv'
<1>1. ~BeginsShift /\ inputs' \in 0..box.inputs
  BY NoShift, Quantities DEF ShiftTimer, PressTimeshift, Key, BeginsShift
<1>2. {autoshift', recordingstatus'} \subseteq BOOLEAN /\ agenda' \in Seq(Tasks)
      /\ (autoshift' => movieInfo \/ BeginsShift')
  <2>1. CASE recordingstatus /\ UNCHANGED <<autoshift, recordingstatus, agenda>>
    BY <1>1, <2>1, TypesNow
  <2>2. CASE autoshift' = TRUE /\ recordingstatus' = TRUE /\ Call(<<Cut("shift")>>)
    BY <2>2, TypesNow, ShiftTasks, ShiftBegins DEF Call
  <2> QED BY <2>1, <2>2 DEF ShiftTimer, PressTimeshift, StartAutoRecord
<1>3. CASE ShiftTimer
  BY <1>1, <1>2, <1>3, TypesNow, RecorderKept DEF ShiftTimer, zapit
<1>4. CASE PressTimeshift
  BY <1>1, <1>2, <1>4, TypesNow, RecorderKept DEF PressTimeshift, zapit
<1> QED BY <1>3, <1>4

LEMMA ReshiftKeeps == ASSUME IInv, box' = box, Reshift PROVE IInv'
<1>1. ~BeginsShift /\ agenda # <<>> /\ Tail(agenda) \in Seq(Tasks)
  BY NoShift, TypesNow DEF Reshift, Doing, Pieces
<1>2. {autoshift', recordingstatus'} \subseteq BOOLEAN /\ agenda' \in Seq(Tasks)
      /\ (autoshift' => movieInfo \/ BeginsShift')
  <2>1. CASE /\ autoshift' = TRUE /\ recordingstatus' = TRUE
             /\ Continue(<<Cut("shift"), Do("shifted")>>)
    BY <1>1, <2>1, ShiftTasks, ShiftBegins DEF Continue
  <2>2. CASE Continue(<<Do("shifted")>>) /\ UNCHANGED <<autoshift, recordingstatus>>
    <3>1. agenda' \in Seq(Tasks)
      BY <1>1, <2>2, ShiftTasks, Pushed DEF Continue
    <3> QED BY <1>1, <2>2, <3>1, TypesNow
  <2> QED BY <2>1, <2>2 DEF Reshift
<1> QED BY <1>1, <1>2, TypesNow, RecorderKept DEF Reshift, zapit

LEMMA KeysKeep == ASSUME IInv, box' = box, PressRecord \/ MenuStop PROVE IInv'
<1>1. ~BeginsShift /\ inputs' \in 0..box.inputs
  BY Quantities DEF PressRecord, MenuStop, Key, BeginsShift
<1>2. /\ Do("ask") \in Tasks /\ Do("leaveShift") \in Tasks /\ Cut("key") \in Tasks
      /\ Do("next") \in Tasks
  BY TaskTypes DEF Pieces, Programs
<1>3. /\ <<Do("ask")>> \in Seq(Tasks) /\ <<Do("leaveShift"), Cut("key")>> \in Seq(Tasks)
      /\ <<Do("next")>> \in Seq(Tasks)
      /\ <<Do("ask")>> # <<>> /\ <<Do("leaveShift"), Cut("key")>> # <<>> /\ <<Do("next")>> # <<>>
  BY <1>2
<1>4. agenda' \in Seq(Tasks)
  BY <1>3, TypesNow, Pushed DEF PressRecord, MenuStop, Call
<1>5. CASE PressRecord
  <2>1. recordingstatus' \in BOOLEAN
    BY <1>5, TypesNow DEF PressRecord
  <2> QED BY <1>1, <1>4, <1>5, <2>1, TypesNow, RecorderKept DEF PressRecord, zapit, shift
<1>6. CASE MenuStop
  <2>1. timers' \in [Ids -> States]
    BY <1>6, AskTypes DEF MenuStop, IInv
  <2>2. shift_timer' \in {"off", "set", "expired"} /\ recordingstatus' \in BOOLEAN
    BY <1>6, TypesNow DEF MenuStop
  <2> QED BY <1>1, <1>4, <1>6, <2>1, <2>2, TypesNow, RecorderKept DEF MenuStop, zapit
<1> QED BY <1>5, <1>6

-----------------------------------------------------------------------------
(* The pieces of handlers *)

LEMMA NextRecordingKeeps == ASSUME IInv, box' = box, StartNextRecording PROVE IInv'
<1>1. ~BeginsShift /\ agenda # <<>> /\ Tail(agenda) \in Seq(Tasks)
  BY NoShift, TypesNow DEF StartNextRecording, Doing, Pieces
<1>2. agenda' \in Seq(Tasks) /\ recording_id' \in Ids \cup {None}
  <2>1. CASE MayStart
    <3>1. nextRecordingInfo \in Timed
      BY <2>1, TypesNow DEF MayStart
    <3>2. Cut(nextRecordingInfo) \in Tasks
      BY <3>1, TaskTypes DEF Programs
    <3>3. <<Cut(nextRecordingInfo)>> \in Seq(Tasks) /\ <<Cut(nextRecordingInfo)>> # <<>>
      BY <3>2
    <3> QED BY <1>1, <2>1, <3>1, <3>3, Pushed DEF StartNextRecording, Continue, Ids
  <2>2. CASE ~MayStart
    BY <1>1, <2>2, TypesNow DEF StartNextRecording, Return
  <2> QED BY <2>1, <2>2
<1> QED BY <1>1, <1>2, TypesNow, RecorderKept DEF StartNextRecording, zapit, shift

LEMMA CutKeeps == ASSUME IInv, box' = box, CutBackNeutrino PROVE IInv'
<1> DEFINE open == [do |-> "open", for |-> Head(agenda).for]
<1>1. /\ agenda # <<>> /\ Head(agenda) \in Tasks /\ Tail(agenda) \in Seq(Tasks)
      /\ Head(agenda).do = "cut"
  BY TypesNow DEF CutBackNeutrino, Doing
<1>2. Head(agenda).for \in Programs \cup {None}
  BY <1>1 DEF Tasks
<1>3. open \in Tasks /\ open.do = "open" /\ open.for = Head(agenda).for
  BY <1>2, TaskTypes DEF Pieces
<1>4. agenda' = <<open>> \o Tail(agenda)
  BY DEF CutBackNeutrino, Continue
<1> HIDE DEF open
<1>5. <<open>> \in Seq(Tasks) /\ <<open>> # <<>> /\ Head(<<open>>) = open
  BY <1>3
<1>6. agenda' \in Seq(Tasks) /\ agenda' # <<>> /\ Head(agenda') = open
  BY <1>1, <1>4, <1>5, Pushed
<1>7. BeginsShift => BeginsShift'
  BY <1>3, <1>6 DEF BeginsShift
<1>8. /\ \E zap \in {<<>>, <<ZapComplete>>}, on \in {<<>>, <<RecordMode(TRUE)>>} :
            queue' = queue \o zap \o on
      /\ {playing', was_record', standby', recmode'} \subseteq BOOLEAN
  BY TypesNow DEF CutBackNeutrino
<1>9. queue' \in Seq(Sent)
  <2>1. PICK zap \in {<<>>, <<ZapComplete>>}, on \in {<<>>, <<RecordMode(TRUE)>>} :
          queue' = queue \o zap \o on
    BY <1>8
  <2>2. ZapComplete \in Sent /\ RecordMode(TRUE) \in Sent
    BY SentMessages
  <2>3. zap \in Seq(Sent) /\ on \in Seq(Sent) /\ queue \in Seq(Sent)
    <3>1. <<>> \in Seq(Sent)
      OBVIOUS
    <3>2. <<ZapComplete>> \in Seq(Sent)
      BY <2>2
    <3>3. <<RecordMode(TRUE)>> \in Seq(Sent)
      <4> DEFINE m == RecordMode(TRUE)
      <4>1. m \in Sent
        BY <2>2
      <4> HIDE DEF m
      <4>2. <<m>> \in Seq(Sent)
        BY <4>1
      <4> QED BY <4>2 DEF m
    <3> QED BY <2>1, <3>1, <3>2, <3>3, TypesNow
  <2>4. queue \o zap \in Seq(Sent)
    BY <2>3, ConcatProperties
  <2> QED BY <2>1, <2>3, <2>4, ConcatProperties
<1> QED BY <1>6, <1>7, <1>8, <1>9, TypesNow, RecorderKept DEF CutBackNeutrino, shift

\* The file is open and the movie info is there.
LEMMA OpenKeeps == ASSUME IInv, box' = box, StartRecording PROVE IInv'
<1>1. agenda # <<>> /\ Head(agenda) \in Tasks /\ Tail(agenda) \in Seq(Tasks)
  BY TypesNow DEF StartRecording, Doing
<1>2. taping' \in Programs \cup {None} /\ agenda' = Tail(agenda)
  BY <1>1 DEF StartRecording, Return, Tasks
<1>3. /\ timers' \in [Ids -> States] /\ recording_id' \in Ids \cup {None}
      /\ recordingstatus' \in BOOLEAN /\ nextRecordingInfo' \in Timed \cup {None}
  BY TypesNow DEF StartRecording, Served, Ids, States
<1>4. ShiftLeft
  BY <1>2, <1>3, TypesNow DEF StartRecording, ShiftLeft, IInv, TypeOK, Allocated, shift, zapit
<1> QED BY <1>1, <1>2, <1>3, <1>4, TypesNow, LeftIsKept DEF StartRecording, shift

LEMMA FailKeeps == ASSUME IInv, box' = box, FailRecording PROVE IInv'
<1> DEFINE failed == [do |-> "failed", for |-> Head(agenda).for]
<1>1. agenda # <<>> /\ Head(agenda) \in Tasks /\ Tail(agenda) \in Seq(Tasks)
  BY TypesNow DEF FailRecording, Doing
<1>2. Head(agenda).for \in Programs \cup {None}
  BY <1>1 DEF Tasks
<1>3. failed \in Tasks /\ Do("box") \in Tasks
  BY <1>2, TaskTypes DEF Pieces
<1>4. agenda' = <<Do("box"), failed>> \o Tail(agenda)
  BY DEF FailRecording, Continue
<1> HIDE DEF failed
<1>5. <<Do("box"), failed>> \in Seq(Tasks) /\ <<Do("box"), failed>> # <<>>
  BY <1>3
<1>6. agenda' \in Seq(Tasks)
  BY <1>1, <1>4, <1>5, Pushed
<1>7. queue' \in Seq(Sent) /\ {recmode', playing', standby'} \subseteq BOOLEAN
  <2>1. RecordMode(FALSE) \in Sent
    BY SentMessages
  <2>2. Append(queue, RecordMode(FALSE)) \in Seq(Sent)
    BY <2>1, TypesNow, AppendProperties
  <2> QED BY <2>2, TypesNow DEF FailRecording, RestoreNeutrino, UnsetRecordMode
<1>8. ShiftLeft
  BY <1>7, TypesNow DEF FailRecording, ShiftLeft, IInv, TypeOK, Allocated, shift
<1> QED BY <1>6, <1>8, TypesNow, LeftIsKept DEF FailRecording, shift

LEMMA PiecesKeep ==
    ASSUME IInv, box' = box,
           AfterFailure \/ CloseBox \/ Answer \/ Sleep \/ Wake \/ Shifted
    PROVE  IInv'
<1>1. ~BeginsShift /\ agenda # <<>> /\ agenda' = Tail(agenda) /\ agenda' \in Seq(Tasks)
  BY NoShift, TypesNow
     DEF AfterFailure, CloseBox, Answer, Sleep, Wake, Shifted, Return, Doing, BeginsShift
<1>2. autoshift => movieInfo
  BY <1>1, TypesNow
<1>3. CASE AfterFailure
  <2>1. {autoshift', recordingstatus'} \subseteq BOOLEAN /\ (autoshift' => autoshift)
        /\ nextRecordingInfo' \in Timed \cup {None}
    BY <1>3, TypesNow DEF AfterFailure
  <2> QED BY <1>1, <1>2, <1>3, <2>1, TypesNow, RecorderKept DEF AfterFailure, zapit
<1>4. CASE CloseBox
  BY <1>1, <1>2, <1>4, TypesNow, RecorderKept DEF CloseBox, zapit, shift
<1>5. CASE Answer
  <2>1. timers' \in [Ids -> States]
    BY <1>5, TypesNow, AskTypes DEF Answer, IInv
  <2> QED BY <1>1, <1>2, <1>5, <2>1, TypesNow, RecorderKept DEF Answer, zapit, shift
<1>6. CASE Sleep
  <2>1. {was_record', standby', playing'} \subseteq BOOLEAN
    BY <1>6, TypesNow DEF Sleep
  <2> QED BY <1>1, <1>2, <1>6, <2>1, TypesNow, RecorderKept DEF Sleep, shift
<1>7. CASE Wake
  <2>1. {was_record', standby', playing'} \subseteq BOOLEAN
    BY <1>7, TypesNow DEF Wake
  <2> QED BY <1>1, <1>2, <1>7, <2>1, TypesNow, RecorderKept DEF Wake, shift
<1>8. CASE Shifted
  BY <1>1, <1>2, <1>8, TypesNow, RecorderKept DEF Shifted, zapit
<1> QED BY <1>3, <1>4, <1>5, <1>6, <1>7, <1>8

-----------------------------------------------------------------------------
LEMMA NextKeeps == ASSUME IInv, [Next]_vars PROVE IInv'
<1>1. CASE UNCHANGED vars
  <2>1. BeginsShift' <=> BeginsShift
    BY <1>1 DEF BeginsShift, vars
  <2> QED BY <1>1, <2>1, TypesNow, RecorderKept DEF vars, shift, zapit
<1>2. CASE Next
  <2>1. box' = box
    BY <1>2 DEF Next
  <2>2. CASE Handlers
    BY <2>1, <2>2, RecordStartKeeps, RecordStopKeeps, AnnounceKeeps, MessagesKeep, StandbyKeeps,
       ShiftKeeps DEF Handlers
  <2>3. CASE PieceOfWork
    BY <2>1, <2>3, NextRecordingKeeps, CutKeeps, OpenKeeps, FailKeeps, PiecesKeep, LeaveShiftKeeps,
       TvModeKeeps, ReshiftKeeps DEF PieceOfWork
  <2>4. CASE Keys
    BY <2>1, <2>4, KeysKeep, ShiftKeeps, StandbyKeeps, ZapKeyKeeps DEF Keys
  <2>5. CASE TimerEnds \/ \E i \in Timed : TimerAnnounced(i) \/ TimerStarts(i)
    BY <2>1, <2>5, TimersKeep DEF TimerEnds, Ids
  <2> QED BY <1>2, <2>1, <2>2, <2>3, <2>4, <2>5, OthersKeep DEF Next
<1> QED BY <1>1, <1>2

LEMMA Invariance == Spec => []IInv
  BY Start, NextKeeps, PTL DEF Spec

\* The variables have their types; a recording that waits is one of timerd's
\* (neutrino.cpp:2880-2990).
THEOREM TypeCorrect == Spec => []TypeOK
<1>1. IInv => TypeOK
  BY DEF IInv
<1> QED BY <1>1, Invariance, PTL

\* Stop finds the movie info it writes to (vcrcontrol.cpp:490-520), whatever is stopped, shifted,
\* announced or failed at the time, and from whatever dialog.
THEOREM NoCrash == Spec => []NeverCrashes
<1>1. IInv => NeverCrashes
  BY DEF IInv, Allocated, NeverCrashes
<1> QED BY <1>1, Invariance, PTL

-----------------------------------------------------------------------------
(* What neutrino and zapit think of the recording under way. *)

\* Boxes whose recordings are not stopped from the menu and whose files open.
Plain(b) == "menu" \notin b.users /\ "open" \notin b.faults

\* The messages that set recordingstatus, the last of those in a queue, and queues without.
Modes          == {"RECORDMODE_ON", "RECORDMODE_OFF"}
LastMode(q, p) == q[p].msg \in Modes /\ \A r \in DOMAIN q : r > p => q[r].msg \notin Modes
NoMode(q)      == \A p \in DOMAIN q : q[p].msg \notin Modes

\* The last message of its kind in a queue tells b.
Told(q, b) == \A p \in DOMAIN q : LastMode(q, p) => q[p].msg = RecordMode(b).msg

\* A recording is begun by one handler at a time: it is on top of the stack, or below the piece that
\* leaves a timeshift first.
Busy    == {"cut", "open", "leaveShift", "box", "failed"}
Idle(s) == \A p \in DOMAIN s : s[p].do \notin Busy
InShape(s) ==
    \/ Idle(s)
    \/ s # <<>> /\ Head(s).do \in {"cut", "open"} /\ Head(s).for \in Programs /\ Idle(Tail(s))
    \/ s # <<>> /\ Head(s).do = "leaveShift"
          /\ Tail(s) # <<>> /\ Head(Tail(s)) = Cut("key") /\ Idle(Tail(Tail(s)))

Opening  == agenda # <<>> /\ Head(agenda).do = "open"
ByHand   == agenda # <<>> /\ \/ Head(agenda).do = "cut" /\ Head(agenda).for \in {"key", "shift"}
                             \/ Head(agenda).do = "leaveShift"

\* zapit's record mode is that of the recording, the last message tells of it, and without messages
\* recordingstatus is right, or set already for a recording that is about to begin.
Agreed(q, status, on, hand) == Told(q, on) /\ (NoMode(q) => status = on \/ (status /\ hand))

StatusInv ==
    /\ InShape(agenda)
    /\ recmode <=> taping # None \/ Opening
    /\ device = "RECORD" <=> taping # None
    /\ Agreed(queue, recordingstatus, recmode, ByHand)

-----------------------------------------------------------------------------
\* Queues.
LEMMA QueueGrows ==
    ASSUME NEW S, NEW q \in Seq(S), NEW m \in S
    PROVE  LET r == Append(q, m)
           IN  /\ r \in Seq(S) /\ Len(r) = Len(q) + 1 /\ r[Len(r)] = m /\ Len(q) \in Nat
               /\ \A p \in 1..Len(q) : r[p] = q[p]
  BY AppendProperties

LEMMA QueueRest ==
    ASSUME NEW S, NEW q \in Seq(S), q # <<>>
    PROVE  LET r == Tail(q)
           IN  /\ r \in Seq(S) /\ Len(r) = Len(q) - 1 /\ Len(q) \in Nat /\ Len(q) > 0 /\ Head(q) = q[1]
               /\ \A p \in 1..Len(r) : r[p] = q[p + 1]
  OBVIOUS

LEMMA ModeNames == \A b \in BOOLEAN : RecordMode(b).msg \in Modes /\ (RecordMode(b).msg = RecordMode(TRUE).msg => b)
  BY DEF RecordMode, Msg, Modes

LEMMA ToldOther ==
    ASSUME NEW S, NEW q \in Seq(S), NEW m \in S, m.msg \notin Modes, NEW b
    PROVE  LET r == Append(q, m) IN (Told(q, b) => Told(r, b)) /\ (NoMode(r) <=> NoMode(q))
<1> DEFINE r == Append(q, m)
<1>1. /\ DOMAIN r = 1..(Len(q) + 1) /\ DOMAIN q = 1..Len(q) /\ Len(q) \in Nat /\ r[Len(q) + 1] = m
      /\ \A p \in 1..Len(q) : r[p] = q[p]
  BY QueueGrows
<1> HIDE DEF r
<1>2. NoMode(r) <=> NoMode(q)
  BY <1>1 DEF NoMode
<1>3. ASSUME Told(q, b), NEW p \in DOMAIN r, LastMode(r, p) PROVE r[p].msg = RecordMode(b).msg
  <2>1. p \in DOMAIN q /\ r[p] = q[p]
    BY <1>1, <1>3 DEF LastMode
  <2>2. LastMode(q, p)
    BY <1>1, <1>3, <2>1 DEF LastMode
  <2> QED BY <1>3, <2>1, <2>2 DEF Told
<1>4. Told(q, b) => Told(r, b)
  BY <1>3 DEF Told
<1> QED BY <1>2, <1>4 DEF r

LEMMA ToldMode ==
    ASSUME NEW S, NEW q \in Seq(S), NEW b \in BOOLEAN, RecordMode(b) \in S
    PROVE  LET r == Append(q, RecordMode(b)) IN Told(r, b) /\ ~NoMode(r)
<1> DEFINE m == RecordMode(b)
           r == Append(q, m)
<1>1. m.msg \in Modes
  BY ModeNames
<1>2. m \in S
  OBVIOUS
<1> HIDE DEF m
<1>3. DOMAIN r = 1..(Len(q) + 1) /\ Len(q) \in Nat /\ r[Len(q) + 1] = m
  BY <1>2, QueueGrows
<1> HIDE DEF r
<1>4. ~NoMode(r)
  BY <1>1, <1>3 DEF NoMode
<1>5. ASSUME NEW p \in DOMAIN r, LastMode(r, p) PROVE r[p].msg = RecordMode(b).msg
  <2>1. p = Len(q) + 1
    BY <1>1, <1>3, <1>5 DEF LastMode
  <2> QED BY <1>3, <2>1 DEF m
<1>6. Told(r, b)
  BY <1>5 DEF Told
<1> QED BY <1>4, <1>6 DEF r, m

LEMMA ToldRest ==
    ASSUME NEW S, NEW q \in Seq(S), q # <<>>, NEW b, Told(q, b)
    PROVE  /\ Told(Tail(q), b)
           /\ NoMode(Tail(q)) => \/ NoMode(q) /\ Head(q).msg \notin Modes
                                 \/ Head(q).msg = RecordMode(b).msg
<1> DEFINE r == Tail(q)
<1>1. /\ DOMAIN r = 1..(Len(q) - 1) /\ DOMAIN q = 1..Len(q) /\ Len(q) \in Nat /\ Len(q) > 0
      /\ Head(q) = q[1] /\ \A p \in 1..(Len(q) - 1) : r[p] = q[p + 1]
  BY QueueRest
<1> HIDE DEF r
<1>2. \A p \in DOMAIN q : p = 1 \/ (p - 1 \in DOMAIN r /\ r[p - 1] = q[p])
  BY <1>1
<1>3. ASSUME NEW p \in DOMAIN r, LastMode(r, p) PROVE r[p].msg = RecordMode(b).msg
  <2>1. p + 1 \in DOMAIN q /\ r[p] = q[p + 1] /\ p \in Nat
    BY <1>1
  <2>2. ASSUME NEW k \in DOMAIN q, k > p + 1 PROVE q[k].msg \notin Modes
    <3>1. k - 1 \in DOMAIN r /\ r[k - 1] = q[k] /\ k - 1 > p
      BY <1>1, <1>2, <2>1, <2>2
    <3> QED BY <1>3, <3>1 DEF LastMode
  <2>3. LastMode(q, p + 1)
    BY <1>3, <2>1, <2>2 DEF LastMode
  <2> QED BY <2>1, <2>3 DEF Told
<1>4. ASSUME NoMode(r) PROVE (NoMode(q) /\ Head(q).msg \notin Modes) \/ Head(q).msg = RecordMode(b).msg
  <2>1. CASE q[1].msg \in Modes
    <3>1. \A k \in DOMAIN q : k > 1 => q[k].msg \notin Modes
      BY <1>1, <1>2, <1>4 DEF NoMode
    <3>2. LastMode(q, 1) /\ 1 \in DOMAIN q
      BY <1>1, <2>1, <3>1 DEF LastMode
    <3> QED BY <1>1, <3>2 DEF Told
  <2>2. CASE q[1].msg \notin Modes
    BY <1>1, <1>2, <1>4, <2>2 DEF NoMode
  <2> QED BY <2>1, <2>2
<1> QED BY <1>3, <1>4 DEF Told, r


-----------------------------------------------------------------------------
\* Stacks.
LEMMA Stacked ==
    ASSUME NEW t \in Tasks, NEW s \in Seq(Tasks)
    PROVE  LET r == <<t>> \o s
           IN  /\ r \in Seq(Tasks) /\ r # <<>> /\ Head(r) = t /\ Tail(r) = s
               /\ Idle(s) /\ t.do \notin Busy => Idle(r)
<1> DEFINE r == <<t>> \o s
<1>1. <<t>> \in Seq(Tasks) /\ Len(<<t>>) = 1 /\ <<t>>[1] = t
  OBVIOUS
<1>2. /\ r \in Seq(Tasks) /\ Len(r) = Len(s) + 1 /\ Len(s) \in Nat /\ r[1] = t
      /\ \A p \in 1..Len(s) : r[p + 1] = s[p]
  <2>1. /\ r \in Seq(Tasks) /\ Len(r) = Len(<<t>>) + Len(s)
        /\ \A p \in 1..(Len(<<t>>) + Len(s)) : r[p] = IF p <= Len(<<t>>) THEN <<t>>[p] ELSE s[p - Len(<<t>>)]
    BY <1>1, ConcatProperties
  <2>2. Len(s) \in Nat
    OBVIOUS
  <2> HIDE DEF r
  <2>3. r[1] = t
    BY <1>1, <2>1, <2>2
  <2>4. \A p \in 1..Len(s) : r[p + 1] = s[p]
    BY <1>1, <2>1, <2>2
  <2> QED BY <1>1, <2>1, <2>2, <2>3, <2>4
<1> HIDE DEF r
<1>3. r # <<>> /\ Head(r) = t
  BY <1>2
<1>4. Tail(r) = s
  <2>1. Tail(r) \in Seq(Tasks) /\ Len(Tail(r)) = Len(s) /\ \A p \in 1..Len(s) : Tail(r)[p] = s[p]
    BY <1>2, <1>3, HeadTailProperties
  <2> QED BY <2>1, SeqEqual
<1>5. Idle(s) /\ t.do \notin Busy => Idle(r)
  <2>1. DOMAIN r = 1..(Len(s) + 1) /\ DOMAIN s = 1..Len(s)
    BY <1>2
  <2>2. \A p \in DOMAIN r : p = 1 \/ (p - 1 \in DOMAIN s /\ r[p] = s[p - 1])
    BY <1>2, <2>1
  <2> QED BY <1>2, <2>1, <2>2 DEF Idle
<1> QED BY <1>2, <1>3, <1>4, <1>5 DEF r

LEMMA StackedTwo ==
    ASSUME NEW t \in Tasks, NEW u \in Tasks, NEW s \in Seq(Tasks)
    PROVE  <<t, u>> \o s = <<t>> \o (<<u>> \o s)
<1>1. <<t>> \in Seq(Tasks) /\ <<u>> \in Seq(Tasks)
  OBVIOUS
<1>2. <<t, u>> = <<t>> \o <<u>>
  <2>1. <<t, u>> \in Seq(Tasks) /\ Len(<<t, u>>) = 2 /\ <<t, u>>[1] = t /\ <<t, u>>[2] = u
    OBVIOUS
  <2>2. Append(<<t>>, u) \in Seq(Tasks) /\ Len(Append(<<t>>, u)) = 2
        /\ Append(<<t>>, u)[1] = t /\ Append(<<t>>, u)[2] = u
    BY <1>1
  <2>3. <<t, u>> = Append(<<t>>, u)
    BY <2>1, <2>2, SeqEqual
  <2> QED BY <1>1, <2>3, AppendIsConcat
<1> QED BY <1>1, <1>2, ConcatAssociative

LEMMA StackedThree ==
    ASSUME NEW t \in Tasks, NEW u \in Tasks, NEW v \in Tasks, NEW s \in Seq(Tasks)
    PROVE  <<t, u, v>> \o s = <<t>> \o (<<u>> \o (<<v>> \o s))
<1>1. <<t>> \in Seq(Tasks) /\ <<u, v>> \in Seq(Tasks) /\ <<t, u, v>> = <<t>> \o <<u, v>>
  OBVIOUS
<1>2. <<t, u, v>> \o s = <<t>> \o (<<u, v>> \o s)
  BY <1>1, ConcatAssociative
<1> QED BY <1>2, StackedTwo

LEMMA IdleRest ==
    ASSUME NEW s \in Seq(Tasks), s # <<>>, Idle(s)
    PROVE  Idle(Tail(s)) /\ Head(s).do \notin Busy
<1>1. /\ Len(Tail(s)) = Len(s) - 1 /\ Len(s) \in Nat /\ Len(s) > 0 /\ Head(s) = s[1]
      /\ Tail(s) \in Seq(Tasks)
      /\ \A p \in 1..Len(Tail(s)) : Tail(s)[p] = s[p + 1]
  BY QueueRest
<1>2. DOMAIN s = 1..Len(s) /\ DOMAIN Tail(s) = 1..Len(Tail(s))
  BY <1>1
<1>3. \A p \in DOMAIN Tail(s) : p + 1 \in DOMAIN s
  BY <1>1, <1>2
<1> QED BY <1>1, <1>2, <1>3 DEF Idle

LEMMA IdleEmpty == Idle(<<>>)
  BY DEF Idle

\* Handlers of messages and keys, and pieces that begin no recording, run over an idle stack.
LEMMA IdleNow ==
    ASSUME IInv, InShape(agenda)
    PROVE  /\ Receptive => Idle(agenda)
           /\ agenda = <<>> => Idle(agenda)
           /\ agenda # <<>> /\ Head(agenda).do \notin {"cut", "open", "leaveShift"} => Idle(agenda)
           /\ Head(agenda).do \in {"cut", "open"} /\ agenda # <<>> =>
                 Idle(Tail(agenda)) /\ Head(agenda).for \in Programs
           /\ Idle(agenda) => ~Opening /\ ~ByHand
           /\ Idle(agenda) /\ agenda # <<>> => Idle(Tail(agenda))
<1>1. agenda \in Seq(Tasks)
  BY TypesNow
<1>2. Idle(agenda) /\ agenda # <<>> => Idle(Tail(agenda)) /\ Head(agenda).do \notin Busy
  BY <1>1, IdleRest
<1>3. Idle(agenda) => ~Opening /\ ~ByHand
  BY <1>2 DEF Busy, Opening, ByHand
<1>4. agenda # <<>> /\ Head(agenda).do \notin {"cut", "open", "leaveShift"} => Idle(agenda)
  BY DEF InShape
<1>5. agenda = <<>> => Idle(agenda)
  BY IdleEmpty
<1>6. Receptive => Idle(agenda)
  BY <1>4, <1>5 DEF Receptive, Dialog
<1>7. Head(agenda).do \in {"cut", "open"} /\ agenda # <<>> => Idle(Tail(agenda)) /\ Head(agenda).for \in Programs
  BY <1>2 DEF InShape, Busy
<1> QED BY <1>2, <1>3, <1>4, <1>5, <1>6, <1>7

\* What an idle stack is under a new piece.
LEMMA IdleUnder ==
    ASSUME NEW s \in Seq(Tasks), Idle(s), NEW piece \in Pieces \ Busy
    PROVE  LET r == <<Do(piece)>> \o s IN Idle(r) /\ r \in Seq(Tasks)
<1>1. Do(piece) \in Tasks /\ Do(piece).do = piece
  BY TaskTypes
<1> QED BY <1>1, Stacked

-----------------------------------------------------------------------------
\* Stopping a recording tells that none is under way.
LEMMA StopAgrees ==
    ASSUME IInv, NEW q \in Seq(Sent), Told(q, recmode), Stop(q)
    PROVE  /\ recmode' = FALSE /\ device' = "STOP" /\ taping' = None /\ Told(queue', FALSE)
           /\ NoMode(queue') => NoMode(q) /\ recmode = FALSE
<1>1. recmode \in BOOLEAN /\ RecordMode(FALSE) \in Sent
  BY TypesNow, SentMessages
<1>2. CASE recmode
  <2>1. queue' = Append(q, RecordMode(FALSE))
    BY <1>2 DEF Stop, RestoreNeutrino, UnsetRecordMode
  <2> QED BY <1>1, <2>1, ToldMode DEF Stop, RestoreNeutrino, UnsetRecordMode
<1>3. CASE recmode = FALSE
  BY <1>3 DEF Stop, RestoreNeutrino, UnsetRecordMode
<1> QED BY <1>1, <1>2, <1>3

LEMMA StopAutoAgrees ==
    ASSUME IInv, NEW q \in Seq(Sent), Told(q, recmode), recmode <=> taping # None,
           device = "RECORD" <=> taping # None, NEW status \in BOOLEAN, StopAutoRecord(q, status)
    PROVE  /\ recmode' <=> taping' # None
           /\ device' = "RECORD" <=> taping' # None
           /\ Told(queue', recmode')
           /\ autoshift /\ status => recmode' = FALSE
           /\ ~(autoshift /\ status) => queue' = q /\ recmode' = recmode
<1>1. CASE autoshift /\ status
  <2>1. Stop(q)
    BY <1>1 DEF StopAutoRecord
  <2> QED BY <1>1, <2>1, StopAgrees
<1>2. CASE ~(autoshift /\ status)
  <2>1. queue' = q /\ UNCHANGED <<recmode, taping, device>>
    BY <1>2 DEF StopAutoRecord, recorder, zapit
  <2> QED BY <1>2, <2>1
<1> QED BY <1>1, <1>2

LEMMA LeaveAgrees ==
    ASSUME IInv, NEW q \in Seq(Sent), Told(q, recmode), NoMode(q) => recordingstatus = recmode,
           recmode <=> taping # None, device = "RECORD" <=> taping # None, LeaveTimeshift(q)
    PROVE  /\ recmode' <=> taping' # None
           /\ device' = "RECORD" <=> taping' # None
           /\ Agreed(queue', recordingstatus', recmode', FALSE)
<1>1. {recordingstatus, autoshift} \subseteq BOOLEAN
  BY TypesNow
<1>2. CASE autoshift
  <2>1. StopAutoRecord(q, recordingstatus) /\ recordingstatus' = FALSE
    BY <1>2 DEF LeaveTimeshift
  <2>2. /\ recmode' <=> taping' # None
        /\ device' = "RECORD" <=> taping' # None
        /\ Told(queue', recmode')
        /\ autoshift /\ recordingstatus => recmode' = FALSE
        /\ ~(autoshift /\ recordingstatus) => queue' = q /\ recmode' = recmode
    BY <1>1, <2>1, StopAutoAgrees
  <2>3. NoMode(queue') => recordingstatus' = recmode'
    BY <1>1, <1>2, <2>1, <2>2
  <2> QED BY <2>2, <2>3 DEF Agreed
<1>3. CASE ~autoshift
  <2>1. queue' = q /\ UNCHANGED <<recmode, taping, device, recordingstatus>>
    BY <1>3 DEF LeaveTimeshift, recorder, zapit
  <2> QED BY <2>1 DEF Agreed
<1> QED BY <1>2, <1>3


-----------------------------------------------------------------------------
\* What the steps have to show.
LEMMA IdleAgrees ==
    ASSUME agenda' \in Seq(Tasks), Idle(agenda'), recmode' <=> taping' # None,
           device' = "RECORD" <=> taping' # None, Agreed(queue', recordingstatus', recmode', FALSE)
    PROVE  StatusInv'
<1>1. ~Opening'
  <2>1. agenda' # <<>> => Head(agenda').do \notin Busy
    BY IdleRest
  <2> QED BY <2>1 DEF Opening, Busy
<1>2. InShape(agenda')
  BY DEF InShape
<1> QED BY <1>1, <1>2 DEF StatusInv, Agreed

\* What holds where a handler begins, of the queue and of the queue without a message of another kind.
LEMMA IdleKnows ==
    ASSUME IInv, StatusInv, Idle(agenda)
    PROVE  /\ Told(queue, recmode) /\ (NoMode(queue) => recordingstatus = recmode)
           /\ recmode <=> taping # None
           /\ device = "RECORD" <=> taping # None
           /\ queue # <<>> /\ Head(queue).msg \notin Modes =>
                 Told(Rest, recmode) /\ (NoMode(Rest) => recordingstatus = recmode)
<1>1. ~Opening /\ ~ByHand
  BY IdleNow DEF StatusInv
<1>2. Told(queue, recmode) /\ (NoMode(queue) => recordingstatus = recmode)
  BY <1>1 DEF StatusInv, Agreed
<1>3. ASSUME queue # <<>>, Head(queue).msg \notin Modes
      PROVE  Told(Rest, recmode) /\ (NoMode(Rest) => recordingstatus = recmode)
  <2>1. recmode \in BOOLEAN /\ queue \in Seq(Sent)
    BY TypesNow
  <2>2. RecordMode(recmode).msg \in Modes
    BY <2>1, ModeNames
  <2> QED BY <1>2, <1>3, <2>1, <2>2, ToldRest DEF Rest
<1> QED BY <1>1, <1>2, <1>3 DEF StatusInv

LEMMA SendAgrees ==
    ASSUME IInv, StatusInv, NEW m \in Sent, m.msg \notin Modes, queue' = Append(queue, m),
           UNCHANGED <<agenda, recordingstatus, recmode, taping, device>>
    PROVE  StatusInv'
<1>1. queue \in Seq(Sent)
  BY TypesNow
<1>2. /\ Told(queue, recmode) => Told(queue', recmode')
      /\ NoMode(queue') <=> NoMode(queue)
  BY <1>1, ToldOther
<1>3. (Opening' <=> Opening) /\ (ByHand' <=> ByHand)
  BY DEF Opening, ByHand
<1>4. Agreed(queue', recordingstatus', recmode', ByHand')
  BY <1>2, <1>3 DEF StatusInv, Agreed
<1> QED BY <1>3, <1>4 DEF StatusInv

LEMMA OthersAgree ==
    ASSUME IInv, StatusInv,
           \/ ZapDone \/ ShiftTimerExpires
           \/ \E m \in {"STANDBY_ON", "STANDBY_OFF"} : ClientSends(m)
           \/ \E i \in Timed : TimerAnnounced(i) \/ TimerStarts(i)
           \/ TimerEnds
    PROVE  StatusInv'
<1>1. CASE ZapDone
  <2>1. ZapComplete \in Sent /\ ZapComplete.msg \notin Modes
    BY SentMessages DEF ZapComplete, Msg, Modes
  <2> QED BY <1>1, <2>1, SendAgrees DEF ZapDone, recorder
<1>2. CASE ShiftTimerExpires
  <2>1. UNCHANGED <<agenda, queue, recordingstatus, recmode, taping, device>>
    BY <1>2 DEF ShiftTimerExpires, zapit, recorder
  <2> QED BY <2>1 DEF StatusInv, Opening, ByHand
<1>3. ASSUME NEW m \in {"STANDBY_ON", "STANDBY_OFF"}, ClientSends(m) PROVE StatusInv'
  <2>1. Msg(m, None) \in Sent /\ Msg(m, None).msg \notin Modes
    BY SentMessages DEF Messages, Msg, Modes
  <2> QED BY <1>3, <2>1, SendAgrees DEF ClientSends, zapit, recorder
<1>4. ASSUME NEW i \in Ids, NEW from, NEW to, NEW m \in Messages \ Modes, Announces(i, from, to, m),
             m = "RECORD_START" => i \in Timed
      PROVE  StatusInv'
  <2>1. Msg(m, i) \in Sent /\ Msg(m, i).msg = m
    BY <1>4, SentMessages DEF Msg
  <2> QED BY <1>4, <2>1, SendAgrees DEF Announces, zapit, recorder
<1>5. /\ {"ANNOUNCE_RECORD", "RECORD_START", "RECORD_STOP"} \subseteq Messages \ Modes
      /\ Timed \subseteq Ids
  BY DEF Messages, Modes, Ids
<1> QED BY <1>1, <1>2, <1>3, <1>4, <1>5 DEF TimerAnnounced, TimerStarts, TimerEnds, TimerStops

-----------------------------------------------------------------------------
(* Messages *)

LEMMA ReceivesKnows ==
    ASSUME IInv, StatusInv, NEW m, Receives(m)
    PROVE  /\ Idle(agenda) /\ agenda \in Seq(Tasks) /\ queue # <<>> /\ Rest \in Seq(Sent)
           /\ Head(queue).msg = m
           /\ recmode <=> taping # None
           /\ device = "RECORD" <=> taping # None
           /\ m \notin Modes => Told(Rest, recmode) /\ (NoMode(Rest) => recordingstatus = recmode)
<1>1. Receptive /\ queue # <<>> /\ Head(queue).msg = m
  BY DEF Receives
<1>2. Idle(agenda)
  BY <1>1, IdleNow DEF StatusInv
<1> QED BY <1>1, <1>2, IdleKnows, TypesNow DEF Rest

LEMMA OtherMessages ==
    \A m \in {"RECORD_START", "RECORD_STOP", "ANNOUNCE_RECORD", "ZAP_COMPLETE", "STANDBY_ON", "STANDBY_OFF"} :
        m \notin Modes
  BY DEF Modes

LEMMA RecordStartAgrees == ASSUME IInv, StatusInv, HandleRecordStart PROVE StatusInv'
<1>1. Receives("RECORD_START") /\ LeaveTimeshift(Rest) /\ EndDialog(<<Do("next")>>)
  BY DEF HandleRecordStart
<1>2. /\ recmode' <=> taping' # None
      /\ device' = "RECORD" <=> taping' # None
      /\ Agreed(queue', recordingstatus', recmode', FALSE)
  BY <1>1, OtherMessages, ReceivesKnows, LeaveAgrees
<1>3. agenda' \in Seq(Tasks) /\ Idle(agenda')
  <2> DEFINE under == IF ~Dialog THEN agenda
                      ELSE IF Head(agenda).do = "ask" THEN <<Do("answer")>> \o Tail(agenda)
                      ELSE Tail(agenda)
  <2>1. Idle(agenda) /\ agenda \in Seq(Tasks) /\ {"next", "answer"} \subseteq Pieces \ Busy
    BY <1>1, ReceivesKnows DEF Pieces, Busy
  <2>2. Dialog => Tail(agenda) \in Seq(Tasks) /\ Idle(Tail(agenda))
    BY <2>1, IdleRest, TypesNow DEF Dialog
  <2>3. Dialog => <<Do("answer")>> \o Tail(agenda) \in Seq(Tasks) /\ Idle(<<Do("answer")>> \o Tail(agenda))
    BY <2>1, <2>2, IdleUnder
  <2>4. under \in Seq(Tasks) /\ Idle(under)
    BY <2>1, <2>2, <2>3
  <2>5. agenda' = <<Do("next")>> \o under
    BY <1>1 DEF EndDialog
  <2> HIDE DEF under
  <2> QED BY <2>1, <2>4, <2>5, IdleUnder
<1> QED BY <1>2, <1>3, IdleAgrees

LEMMA AnnounceAgrees == ASSUME IInv, StatusInv, HandleAnnounceRecord PROVE StatusInv'
<1>1. Receives("ANNOUNCE_RECORD") /\ LeaveTimeshift(Rest) /\ agenda' = agenda
  BY DEF HandleAnnounceRecord
<1>2. /\ recmode' <=> taping' # None
      /\ device' = "RECORD" <=> taping' # None
      /\ Agreed(queue', recordingstatus', recmode', FALSE)
  BY <1>1, OtherMessages, ReceivesKnows, LeaveAgrees
<1> QED BY <1>1, <1>2, ReceivesKnows, IdleAgrees

LEMMA RecordStopAgrees == ASSUME IInv, StatusInv, HandleRecordStop PROVE StatusInv'
<1>1. Receives("RECORD_STOP")
  BY DEF HandleRecordStop
<1>2. /\ Told(Rest, recmode) /\ (NoMode(Rest) => recordingstatus = recmode) /\ Rest \in Seq(Sent)
      /\ recmode <=> taping # None
      /\ device = "RECORD" <=> taping # None
      /\ Idle(agenda) /\ agenda \in Seq(Tasks)
  BY <1>1, OtherMessages, ReceivesKnows
<1>3. agenda' \in Seq(Tasks) /\ Idle(agenda')
  <2>1. "next" \in Pieces \ Busy
    BY DEF Pieces, Busy
  <2>2. agenda' = agenda \/ agenda' = <<Do("next")>> \o agenda
    BY DEF HandleRecordStop, AfterStop, Call
  <2> QED BY <1>2, <2>1, <2>2, IdleUnder
<1>4. CASE Stop(Rest) /\ Reset
  <2>1. /\ recmode' = FALSE /\ device' = "STOP" /\ taping' = None /\ Told(queue', FALSE)
        /\ NoMode(queue') => NoMode(Rest) /\ recmode = FALSE
    BY <1>2, <1>4, StopAgrees
  <2>2. Agreed(queue', recordingstatus', recmode', FALSE)
    BY <1>4, <2>1 DEF Agreed, Reset
  <2> QED BY <1>3, <2>1, <2>2, IdleAgrees
<1>5. CASE queue' = Rest /\ UNCHANGED <<recordingstatus, recorder, zapit>>
  <2>1. UNCHANGED <<recordingstatus, recmode, taping, device>>
    BY <1>5 DEF recorder, zapit
  <2>2. Agreed(queue', recordingstatus', recmode', FALSE)
    BY <1>2, <1>5, <2>1 DEF Agreed
  <2> QED BY <1>2, <1>3, <2>1, <2>2, IdleAgrees
<1> QED BY <1>4, <1>5 DEF HandleRecordStop

\* recordingstatus becomes what the message tells; the last one tells the truth.
LEMMA RecordModeAgrees ==
    ASSUME IInv, StatusInv, NEW on \in BOOLEAN, HandleRecordMode(on) PROVE StatusInv'
<1>1. /\ Receives(RecordMode(on).msg) /\ queue' = Rest /\ recordingstatus' = on
      /\ UNCHANGED <<agenda, recmode, taping, device>>
  BY DEF HandleRecordMode, recorder
<1>2. /\ Idle(agenda) /\ agenda \in Seq(Tasks) /\ queue # <<>> /\ Head(queue).msg = RecordMode(on).msg
      /\ recmode <=> taping # None
      /\ device = "RECORD" <=> taping # None
  BY <1>1, ReceivesKnows
<1>3. recmode \in BOOLEAN /\ queue \in Seq(Sent)
  BY TypesNow
<1>4. Told(Rest, recmode) /\ (NoMode(Rest) => Head(queue).msg = RecordMode(recmode).msg)
  BY <1>2, <1>3, ModeNames, ToldRest DEF StatusInv, Agreed, Rest
<1>5. Head(queue).msg = RecordMode(recmode).msg => on = recmode
  BY <1>2, <1>3 DEF RecordMode, Msg
<1>6. Agreed(queue', recordingstatus', recmode', FALSE)
  BY <1>1, <1>4, <1>5 DEF Agreed
<1> QED BY <1>1, <1>2, <1>6, IdleAgrees

LEMMA ZapCompleteAgrees == ASSUME IInv, StatusInv, HandleZapComplete PROVE StatusInv'
<1>1. /\ Receives("ZAP_COMPLETE") /\ queue' = Rest
      /\ UNCHANGED <<agenda, recordingstatus, recmode, taping, device>>
  BY DEF HandleZapComplete, recorder, zapit
<1>2. Agreed(queue', recordingstatus', recmode', FALSE)
  BY <1>1, OtherMessages, ReceivesKnows DEF Agreed
<1> QED BY <1>1, <1>2, ReceivesKnows, IdleAgrees

LEMMA StandbyAgrees ==
    ASSUME IInv, StatusInv, PressStandby \/ \E on \in BOOLEAN : HandleStandby(on) PROVE StatusInv'
<1>1. ASSUME NEW q \in Seq(Sent), NEW on \in BOOLEAN, Idle(agenda), Told(q, recmode),
             NoMode(q) => recordingstatus = recmode, StandbyMode(q, on)
      PROVE  StatusInv'
  <2>1. /\ recmode <=> taping # None
        /\ device = "RECORD" <=> taping # None
        /\ agenda \in Seq(Tasks)
    BY <1>1, IdleKnows, TypesNow
  <2>2. {"sleep", "wake", "tv", "reshift"} \subseteq Pieces \ Busy
    BY DEF Pieces, Busy
  <2>3. CASE on
    <3>1. LeaveTimeshift(q) /\ agenda' = <<Do("sleep")>> \o agenda
      BY <1>1, <2>3 DEF StandbyMode, Call
    <3>2. agenda' \in Seq(Tasks) /\ Idle(agenda')
      BY <1>1, <2>1, <2>2, <3>1, IdleUnder
    <3> QED BY <1>1, <2>1, <3>1, <3>2, LeaveAgrees, IdleAgrees
  <2>4. CASE ~on
    <3>1. /\ queue' = q /\ agenda' = <<Do("wake"), Do("tv"), Do("reshift")>> \o agenda
          /\ UNCHANGED <<recordingstatus, recmode, taping, device>>
      BY <1>1, <2>4 DEF StandbyMode, Call, recorder, zapit
    <3>2. Do("wake") \in Tasks /\ Do("tv") \in Tasks /\ Do("reshift") \in Tasks
      BY TaskTypes DEF Pieces
    <3>3. agenda' = <<Do("wake")>> \o (<<Do("tv")>> \o (<<Do("reshift")>> \o agenda))
      BY <2>1, <3>1, <3>2, StackedThree
    <3>4. agenda' \in Seq(Tasks) /\ Idle(agenda')
      BY <1>1, <2>1, <2>2, <3>3, IdleUnder
    <3>5. Agreed(queue', recordingstatus', recmode', FALSE)
      BY <1>1, <3>1 DEF Agreed
    <3> QED BY <2>1, <3>1, <3>4, <3>5, IdleAgrees
  <2> QED BY <2>3, <2>4
<1>2. CASE PressStandby
  <2>1. agenda = <<>> /\ StandbyMode(queue, mode # "standby")
    BY <1>2 DEF PressStandby, Key
  <2> QED BY <1>1, <2>1, IdleNow, IdleKnows, TypesNow DEF StatusInv
<1>3. ASSUME NEW on \in BOOLEAN, HandleStandby(on) PROVE StatusInv'
  <2>1. /\ \E m \in {"STANDBY_ON", "STANDBY_OFF"} : Receives(m)
        /\ \/ StandbyMode(Rest, on)
           \/ queue' = Rest /\ UNCHANGED <<agenda, recordingstatus, recorder, zapit>>
    BY <1>3 DEF HandleStandby
  <2>2. /\ Idle(agenda) /\ agenda \in Seq(Tasks) /\ Rest \in Seq(Sent)
        /\ recmode <=> taping # None
        /\ device = "RECORD" <=> taping # None
        /\ Told(Rest, recmode) /\ (NoMode(Rest) => recordingstatus = recmode)
    BY <2>1, OtherMessages, ReceivesKnows
  <2>3. CASE queue' = Rest /\ UNCHANGED <<agenda, recordingstatus, recorder, zapit>>
    <3>1. UNCHANGED <<recordingstatus, recmode, taping, device>>
      BY <2>3 DEF recorder, zapit
    <3>2. Agreed(queue', recordingstatus', recmode', FALSE)
      BY <2>2, <2>3, <3>1 DEF Agreed
    <3> QED BY <2>2, <2>3, <3>1, <3>2, IdleAgrees
  <2> QED BY <1>1, <2>1, <2>2, <2>3
<1> QED BY <1>2, <1>3


-----------------------------------------------------------------------------
(* Recordings begun by hand, keys, pieces *)

\* A recording that is about to begin.
LEMMA CutShape ==
    ASSUME NEW program \in Programs, NEW s \in Seq(Tasks), Idle(s), agenda' = <<Cut(program)>> \o s
    PROVE  InShape(agenda') /\ ~Opening' /\ (program \in {"key", "shift"} => ByHand')
<1>1. Cut(program) \in Tasks /\ Cut(program).do = "cut" /\ Cut(program).for = program
  BY TaskTypes
<1>2. agenda' # <<>> /\ Head(agenda') = Cut(program) /\ Tail(agenda') = s
  BY <1>1, Stacked
<1> QED BY <1>1, <1>2 DEF InShape, Opening, ByHand

LEMMA BeginAgrees ==
    ASSUME IInv, StatusInv, NEW s \in Seq(Tasks), Idle(s), NEW program \in {"key", "shift"},
           \/ agenda' = <<Cut(program)>> \o s
           \/ program = "key" /\ agenda' = <<Do("leaveShift")>> \o (<<Cut(program)>> \o s),
           recordingstatus' = TRUE, UNCHANGED <<queue, recmode, taping, device>>, ~Opening
    PROVE  StatusInv'
<1>1. program \in Programs /\ Cut(program) \in Tasks
  BY TaskTypes DEF Programs
<1>2. InShape(agenda') /\ ~Opening' /\ ByHand'
  <2>1. CASE agenda' = <<Cut(program)>> \o s
    BY <1>1, <2>1, CutShape
  <2>2. CASE program = "key" /\ agenda' = <<Do("leaveShift")>> \o (<<Cut(program)>> \o s)
    <3> DEFINE below == <<Cut(program)>> \o s
               leave == Do("leaveShift")
    <3>1. below \in Seq(Tasks) /\ below # <<>> /\ Head(below) = Cut(program) /\ Tail(below) = s
      BY <1>1, Stacked
    <3>2. leave \in Tasks /\ leave.do = "leaveShift"
      BY TaskTypes DEF Pieces
    <3> HIDE DEF below, leave
    <3>3. <<leave>> \o below # <<>> /\ Head(<<leave>> \o below) = leave /\ Tail(<<leave>> \o below) = below
      BY <3>1, <3>2, Stacked
    <3>4. agenda' # <<>> /\ Head(agenda') = leave /\ Tail(agenda') = below
      BY <2>2, <3>3 DEF below, leave
    <3> QED BY <2>2, <3>1, <3>2, <3>4 DEF InShape, Opening, ByHand
  <2> QED BY <2>1, <2>2
<1>3. Agreed(queue', recordingstatus', recmode', ByHand')
  BY <1>2 DEF StatusInv, Agreed
<1> QED BY <1>2, <1>3 DEF StatusInv

LEMMA ShiftAgrees == ASSUME IInv, StatusInv, ShiftTimer \/ PressTimeshift PROVE StatusInv'
<1>1. /\ StartAutoRecord(recordingstatus)
      /\ UNCHANGED <<queue, recmode, taping, device>>
  BY DEF ShiftTimer, PressTimeshift, zapit, recorder
<1>2. Idle(agenda) /\ agenda \in Seq(Tasks) /\ ~Opening
  BY IdleNow, TypesNow DEF StatusInv, ShiftTimer, PressTimeshift, Key
<1>3. CASE UNCHANGED <<recordingstatus, agenda>>
  BY <1>1, <1>3 DEF StatusInv, Opening, ByHand
<1>4. CASE recordingstatus' = TRUE /\ Call(<<Cut("shift")>>)
  BY <1>1, <1>2, <1>4, BeginAgrees DEF Call
<1> QED BY <1>1, <1>3, <1>4 DEF StartAutoRecord

LEMMA RecordKeyAgrees == ASSUME IInv, StatusInv, PressRecord PROVE StatusInv'
<1>1. UNCHANGED <<queue, recmode, taping, device>>
  BY DEF PressRecord, zapit, recorder
<1>2. Idle(agenda) /\ agenda \in Seq(Tasks) /\ ~Opening
  BY IdleNow, TypesNow DEF StatusInv, PressRecord, Key
<1>3. CASE agenda' = <<Do("ask")>> \o agenda /\ UNCHANGED recordingstatus
  <2>1. "ask" \in Pieces \ Busy
    BY DEF Pieces, Busy
  <2>2. agenda' \in Seq(Tasks) /\ Idle(agenda')
    BY <1>2, <1>3, <2>1, IdleUnder
  <2>3. Agreed(queue', recordingstatus', recmode', FALSE)
    BY <1>1, <1>2, <1>3, IdleKnows DEF Agreed
  <2> QED BY <1>1, <1>2, <2>2, <2>3, IdleKnows, IdleAgrees
<1>4. CASE agenda' = <<Do("leaveShift"), Cut("key")>> \o agenda /\ recordingstatus' = TRUE
  <2>1. Do("leaveShift") \in Tasks /\ Cut("key") \in Tasks
    BY TaskTypes DEF Pieces, Programs
  <2>2. agenda' = <<Do("leaveShift")>> \o (<<Cut("key")>> \o agenda)
    BY <1>2, <1>4, <2>1, StackedTwo
  <2> QED BY <1>1, <1>2, <1>4, <2>2, BeginAgrees
<1> QED BY <1>3, <1>4 DEF PressRecord, Call

LEMMA ZapKeyAgrees == ASSUME IInv, StatusInv, PressZap PROVE StatusInv'
<1>1. LeaveTimeshift(queue) /\ agenda' = agenda /\ agenda = <<>>
  BY DEF PressZap, Key
<1>2. Idle(agenda) /\ agenda \in Seq(Tasks) /\ queue \in Seq(Sent)
  BY <1>1, IdleNow, TypesNow DEF StatusInv
<1>3. /\ recmode' <=> taping' # None
      /\ device' = "RECORD" <=> taping' # None
      /\ Agreed(queue', recordingstatus', recmode', FALSE)
  BY <1>1, <1>2, IdleKnows, LeaveAgrees
<1> QED BY <1>1, <1>2, <1>3, IdleAgrees

\* Pieces that begin no recording.
LEMMA PiecesAgree ==
    ASSUME IInv, StatusInv, Answer \/ Sleep \/ Wake \/ TvMode \/ Shifted PROVE StatusInv'
<1>1. /\ Doing("ask") \/ Doing("answer") \/ Doing("sleep") \/ Doing("wake") \/ Doing("tv") \/ Doing("shifted")
      /\ agenda' = Tail(agenda)
  BY DEF Answer, Sleep, Wake, TvMode, Shifted, Return, Doing
<1>2. /\ Idle(agenda) /\ agenda # <<>> /\ Idle(Tail(agenda)) /\ Tail(agenda) \in Seq(Tasks)
      /\ queue \in Seq(Sent)
  BY <1>1, IdleNow, TypesNow DEF StatusInv, Doing
<1>3. CASE TvMode
  <2>1. /\ recmode' <=> taping' # None
        /\ device' = "RECORD" <=> taping' # None
        /\ Agreed(queue', recordingstatus', recmode', FALSE)
    BY <1>2, <1>3, IdleKnows, LeaveAgrees DEF TvMode
  <2> QED BY <1>1, <1>2, <2>1, IdleAgrees
<1>4. CASE Answer \/ Sleep \/ Wake \/ Shifted
  <2>1. UNCHANGED <<queue, recordingstatus, recmode, taping, device>>
    BY <1>4 DEF Answer, Sleep, Wake, Shifted, recorder, zapit
  <2>2. Agreed(queue', recordingstatus', recmode', FALSE)
    BY <1>2, <2>1, IdleKnows DEF Agreed
  <2> QED BY <1>1, <1>2, <2>1, <2>2, IdleKnows, IdleAgrees
<1> QED BY <1>3, <1>4

LEMMA ReshiftAgrees == ASSUME IInv, StatusInv, Reshift PROVE StatusInv'
<1>1. /\ UNCHANGED <<queue, recmode, taping, device>>
      /\ agenda # <<>> /\ Head(agenda).do = "reshift"
  BY DEF Reshift, Doing, zapit, recorder
<1>2. Idle(agenda) /\ Idle(Tail(agenda)) /\ Tail(agenda) \in Seq(Tasks) /\ ~Opening
  BY <1>1, IdleNow, TypesNow DEF StatusInv
<1> DEFINE s == <<Do("shifted")>> \o Tail(agenda)
<1>3. s \in Seq(Tasks) /\ Idle(s)
  <2>1. "shifted" \in Pieces \ Busy
    BY DEF Pieces, Busy
  <2> QED BY <1>2, <2>1, IdleUnder
<1>4. CASE recordingstatus' = TRUE /\ agenda' = <<Cut("shift"), Do("shifted")>> \o Tail(agenda)
  <2>1. Cut("shift") \in Tasks /\ Do("shifted") \in Tasks
    BY TaskTypes DEF Pieces, Programs
  <2>2. agenda' = <<Cut("shift")>> \o s
    BY <1>2, <1>4, <2>1, StackedTwo
  <2> HIDE DEF s
  <2> QED BY <1>1, <1>2, <1>3, <1>4, <2>2, BeginAgrees
<1>5. CASE recordingstatus' = recordingstatus /\ agenda' = s
  <2>1. Agreed(queue', recordingstatus', recmode', FALSE)
    BY <1>1, <1>2, <1>5, IdleKnows DEF Agreed
  <2> QED BY <1>1, <1>2, <1>3, <1>5, <2>1, IdleKnows, IdleAgrees
<1> QED BY <1>4, <1>5 DEF Reshift, Continue

LEMMA LeaveShiftAgrees == ASSUME IInv, StatusInv, LeaveShift PROVE StatusInv'
<1>1. /\ agenda # <<>> /\ Head(agenda).do = "leaveShift" /\ agenda' = Tail(agenda)
      /\ recordingstatus' = recordingstatus
  BY DEF LeaveShift, Doing, Return
<1>2. /\ Tail(agenda) # <<>> /\ Head(Tail(agenda)) = Cut("key") /\ Idle(Tail(Tail(agenda)))
      /\ ~Opening
  <2>1. ~Idle(agenda)
    BY <1>1, TypesNow, IdleRest DEF Busy
  <2> QED BY <1>1, <2>1 DEF StatusInv, InShape, Opening
<1>3. InShape(agenda') /\ ~Opening' /\ ByHand'
  <2>1. Cut("key").do = "cut" /\ Cut("key").for = "key" /\ "key" \in Programs
    BY TaskTypes DEF Programs
  <2> QED BY <1>1, <1>2, <2>1 DEF InShape, Opening, ByHand
<1>4. /\ recmode <=> taping # None
      /\ device = "RECORD" <=> taping # None
      /\ Told(queue, recmode) /\ (NoMode(queue) => recordingstatus = recmode \/ recordingstatus)
      /\ queue \in Seq(Sent) /\ {recordingstatus, autoshift, recmode} \subseteq BOOLEAN
  BY <1>2, TypesNow DEF StatusInv, Agreed
<1>5. CASE autoshift /\ StopAutoRecord(queue, recordingstatus)
  <2>1. /\ recmode' <=> taping' # None
        /\ device' = "RECORD" <=> taping' # None
        /\ Told(queue', recmode')
        /\ autoshift /\ recordingstatus => recmode' = FALSE
        /\ ~(autoshift /\ recordingstatus) => queue' = queue /\ recmode' = recmode
    BY <1>4, <1>5, StopAutoAgrees
  <2>2. Agreed(queue', recordingstatus', recmode', ByHand')
    BY <1>1, <1>3, <1>4, <1>5, <2>1 DEF Agreed
  <2> QED BY <1>3, <2>1, <2>2 DEF StatusInv
<1>6. CASE UNCHANGED <<queue, recorder, zapit>>
  <2>1. UNCHANGED <<recmode, taping, device>>
    BY <1>6 DEF recorder, zapit
  <2>2. Agreed(queue', recordingstatus', recmode', ByHand')
    BY <1>1, <1>3, <1>4, <1>6, <2>1 DEF Agreed
  <2> QED BY <1>3, <1>4, <2>1, <2>2 DEF StatusInv
<1> QED BY <1>5, <1>6 DEF LeaveShift

LEMMA NextRecordingAgrees == ASSUME IInv, StatusInv, StartNextRecording PROVE StatusInv'
<1>1. /\ agenda # <<>> /\ Head(agenda).do = "next"
      /\ UNCHANGED <<queue, recordingstatus, recmode, taping, device>>
  BY DEF StartNextRecording, Doing, recorder, zapit
<1>2. Idle(agenda) /\ Idle(Tail(agenda)) /\ Tail(agenda) \in Seq(Tasks)
  BY <1>1, IdleNow, TypesNow DEF StatusInv
<1>3. Agreed(queue', recordingstatus', recmode', FALSE)
  BY <1>1, <1>2, IdleKnows DEF Agreed
<1>4. CASE MayStart /\ agenda' = <<Cut(nextRecordingInfo)>> \o Tail(agenda)
  <2>1. nextRecordingInfo \in Programs
    BY <1>4, TypesNow DEF MayStart, Programs
  <2>2. InShape(agenda') /\ ~Opening'
    BY <1>2, <1>4, <2>1, CutShape
  <2> QED BY <1>1, <1>2, <1>3, <2>2, IdleKnows DEF StatusInv, Agreed
<1>5. CASE agenda' = Tail(agenda)
  BY <1>1, <1>2, <1>3, <1>5, IdleKnows, IdleAgrees
<1> QED BY <1>4, <1>5 DEF StartNextRecording, Continue, Return

\* What zapit sends when it is set to record mode.
LEMMA CutSends ==
    ASSUME IInv, CutBackNeutrino
    PROVE  \E z \in {queue, Append(queue, ZapComplete)} :
               z \in Seq(Sent) /\ queue' = IF recmode THEN z ELSE Append(z, RecordMode(TRUE))
<1> DEFINE on == RecordMode(TRUE)
<1>1. PICK zap \in {<<>>, <<ZapComplete>>} : queue' = queue \o zap \o (IF recmode THEN <<>> ELSE <<on>>)
  BY DEF CutBackNeutrino
<1>2. ZapComplete \in Sent /\ on \in Sent /\ queue \in Seq(Sent)
  BY SentMessages, TypesNow
<1> HIDE DEF on
<1>3. queue \o <<>> = queue /\ queue \o <<ZapComplete>> = Append(queue, ZapComplete)
  BY <1>2, ConcatEmptySeq, AppendIsConcat
<1> DEFINE z == queue \o zap
<1>4. z \in {queue, Append(queue, ZapComplete)}
  BY <1>1, <1>3
<1>5. z \in Seq(Sent)
  <2> DEFINE r == ZapComplete
  <2>1. r \in Sent
    BY <1>2
  <2> HIDE DEF r
  <2>2. Append(queue, r) \in Seq(Sent)
    BY <1>2, <2>1, AppendProperties
  <2> QED BY <1>2, <1>4, <2>2 DEF r
<1>6. queue' = z \o (IF recmode THEN <<>> ELSE <<on>>)
  BY <1>1
<1> HIDE DEF z
<1>7. z \o <<>> = z /\ z \o <<on>> = Append(z, on)
  BY <1>2, <1>5, ConcatEmptySeq, AppendIsConcat
<1> QED BY <1>4, <1>5, <1>6, <1>7 DEF on

\* zapit is set to record mode, and tells unless it was.
LEMMA CutAgrees == ASSUME IInv, StatusInv, CutBackNeutrino PROVE StatusInv'
<1> DEFINE open == [do |-> "open", for |-> Head(agenda).for]
           on == RecordMode(TRUE)
<1>1. /\ agenda # <<>> /\ Head(agenda).do = "cut" /\ agenda' = <<open>> \o Tail(agenda)
      /\ recmode' = TRUE /\ UNCHANGED <<recordingstatus, taping, device>>
  BY DEF CutBackNeutrino, Doing, Continue, recorder
<1>2. /\ Idle(Tail(agenda)) /\ Tail(agenda) \in Seq(Tasks) /\ Head(agenda).for \in Programs
      /\ queue \in Seq(Sent) /\ {recmode, recordingstatus} \subseteq BOOLEAN
  BY <1>1, IdleNow, TypesNow DEF StatusInv
<1>3. open \in Tasks /\ open.do = "open" /\ open.for = Head(agenda).for
  BY <1>2, TaskTypes DEF Pieces
<1> HIDE DEF open
<1>4. agenda' # <<>> /\ Head(agenda') = open /\ Tail(agenda') = Tail(agenda)
  BY <1>1, <1>2, <1>3, Stacked
<1>5. InShape(agenda') /\ Opening'
  BY <1>2, <1>3, <1>4 DEF InShape, Opening
<1>6. ~Opening
  BY <1>1 DEF Opening
<1>7. PICK z \in {queue, Append(queue, ZapComplete)} :
        z \in Seq(Sent) /\ queue' = IF recmode THEN z ELSE Append(z, on)
  BY CutSends
<1>8. z \in Seq(Sent) /\ Told(z, recmode) /\ (NoMode(z) <=> NoMode(queue))
  <2>1. ZapComplete \in Sent /\ ZapComplete.msg \notin Modes
    BY SentMessages DEF ZapComplete, Msg, Modes
  <2>2. Told(queue, recmode)
    BY DEF StatusInv, Agreed
  <2> DEFINE r == ZapComplete
             w == Append(queue, r)
  <2>3. r \in Sent /\ r.msg \notin Modes
    BY <2>1
  <2> HIDE DEF r
  <2>4. w \in Seq(Sent)
    BY <1>2, <2>3, AppendProperties
  <2>5. (Told(queue, recmode) => Told(w, recmode)) /\ (NoMode(w) <=> NoMode(queue))
    BY <1>2, <2>3, ToldOther
  <2>6. z = queue \/ z = w
    BY <1>7 DEF r
  <2> HIDE DEF w
  <2>7. CASE z = queue
    BY <1>2, <2>2, <2>7
  <2>8. CASE z = w
    BY <2>2, <2>4, <2>5, <2>8
  <2> QED BY <2>6, <2>7, <2>8
<1>9. Agreed(queue', recordingstatus', recmode', ByHand')
  <2>1. CASE recmode
    <3>1. NoMode(queue) => recordingstatus = TRUE
      BY <1>2, <2>1 DEF StatusInv, Agreed
    <3> QED BY <1>1, <1>2, <1>7, <1>8, <2>1, <3>1 DEF Agreed
  <2>2. CASE ~recmode
    <3>1. on \in Sent
      BY SentMessages
    <3>2. Told(queue', TRUE) /\ ~NoMode(queue')
      BY <1>7, <1>8, <2>2, <3>1, ToldMode
    <3> QED BY <1>1, <3>2 DEF Agreed
  <2> QED BY <2>1, <2>2
<1> QED BY <1>1, <1>5, <1>6, <1>9 DEF StatusInv

LEMMA OpenAgrees == ASSUME IInv, StatusInv, StartRecording PROVE StatusInv'
<1>1. /\ agenda # <<>> /\ Head(agenda).do = "open" /\ agenda' = Tail(agenda) /\ UNCHANGED <<queue, recmode>>
      /\ device' = "RECORD" /\ taping' = Head(agenda).for
      /\ recordingstatus' = TRUE \/ recordingstatus' = recordingstatus
  BY DEF StartRecording, Doing, Return, Served, zapit
<1>2. /\ Idle(Tail(agenda)) /\ Tail(agenda) \in Seq(Tasks) /\ Head(agenda).for \in Programs
      /\ {recmode, recordingstatus} \subseteq BOOLEAN
  BY <1>1, IdleNow, TypesNow DEF StatusInv
<1>3. taping' # None
  BY <1>1, <1>2, ConstantsAssumption DEF Programs
<1>4. recmode = TRUE /\ (NoMode(queue) => recordingstatus = TRUE) /\ Told(queue, recmode)
  BY <1>1, <1>2 DEF StatusInv, Opening, Agreed
<1>5. Agreed(queue', recordingstatus', recmode', FALSE)
  BY <1>1, <1>4 DEF Agreed
<1> QED BY <1>1, <1>2, <1>3, <1>4, <1>5, IdleAgrees

-----------------------------------------------------------------------------
LEMMA StatusKept == ASSUME Plain(box), IInv, StatusInv, Next PROVE StatusInv'
<1>1. ~MenuStop /\ ~FailRecording
  BY DEF Plain, MenuStop, Key, FailRecording
<1>2. ~AfterFailure /\ ~CloseBox
  <2>1. agenda # <<>> => Head(agenda).do \notin {"box", "failed"}
    BY IdleRest, TypesNow DEF StatusInv, InShape, Busy
  <2> QED BY <2>1 DEF AfterFailure, CloseBox, Doing
<1>3. CASE Handlers
  BY <1>3, RecordStartAgrees, RecordStopAgrees, AnnounceAgrees, RecordModeAgrees, StandbyAgrees,
     ZapCompleteAgrees, ShiftAgrees DEF Handlers
<1>4. CASE PieceOfWork
  BY <1>1, <1>2, <1>4, NextRecordingAgrees, CutAgrees, OpenAgrees, PiecesAgree, LeaveShiftAgrees,
     ReshiftAgrees DEF PieceOfWork
<1>5. CASE Keys
  BY <1>1, <1>5, RecordKeyAgrees, ShiftAgrees, StandbyAgrees, ZapKeyAgrees DEF Keys
<1> QED BY <1>3, <1>4, <1>5, OthersAgree DEF Next

LEMMA StatusInvariance == Spec => [](Plain(box) => StatusInv)
<1>1. Init => StatusInv
  <2> SUFFICES ASSUME Init PROVE StatusInv
    OBVIOUS
  <2>1. agenda = <<>> /\ queue = <<>> /\ taping = None /\ device = "STOP" /\ ~recmode /\ ~recordingstatus
    BY DEF Init
  <2>2. Told(<<>>, recmode)
    BY DEF Told
  <2> QED BY <2>1, <2>2, IdleEmpty DEF Init, StatusInv, InShape, Opening, Agreed
<1>2. IInv /\ (Plain(box) => StatusInv) /\ [Next]_vars => (Plain(box) => StatusInv)'
  <2>1. ASSUME StatusInv, UNCHANGED vars PROVE StatusInv'
    BY <2>1 DEF vars, zapit, recorder, StatusInv, Opening, ByHand
  <2>2. [Next]_vars => box' = box
    BY DEF Next, vars
  <2> QED BY <2>1, <2>2, StatusKept
<1> QED BY <1>1, <1>2, Invariance, PTL DEF Spec

\* When nothing is being handled, recordingstatus and zapit's record mode say whether a recording is
\* under way, whatever timers, keys, time shifts and zaps have met: every change of the record mode is
\* told by the last EVT_RECORDMODE in the socket (zapit.cpp, neutrino.cpp:2882-2899), and
\* recordingstatus is set ahead of it only for a recording that is about to begin. Not with the menu's
\* stop, which clears recordingstatus itself, and not where files fail to open.
THEOREM StatusStaysTrue == Spec => [](Plain(box) => StatusIsTrue)
<1>1. IInv /\ StatusInv => StatusIsTrue
  <2> SUFFICES ASSUME IInv, StatusInv, Quiet
               PROVE  recordingstatus = (taping # None) /\ recmode = (taping # None)
    BY DEF StatusIsTrue
  <2>1. NoMode(queue) /\ Idle(agenda) /\ {recmode, recordingstatus} \subseteq BOOLEAN
    BY IdleEmpty, TypesNow DEF Quiet, NoMode
  <2> QED BY <2>1, IdleKnows
<1> QED BY <1>1, Invariance, StatusInvariance, PTL

-----------------------------------------------------------------------------
(* The timer of the recording under way. *)

\* A queue has a message about a timer.
Has(q, m, i) == \E p \in DOMAIN q : q[p].msg = m /\ q[p].timer = i

\* The recording of a timer is still to be asked for; its end has been announced, or will be.
Ahead(q, ts, i) == ts[i] \in {"waiting", "announced"} \/ Has(q, "RECORD_START", i)
Ends(q, ts, i)  == ts[i] \in {"running", "asked"} \/ Has(q, "RECORD_STOP", i)

\* timerd asks for a recording once, and for its end after that.
InOrder(q, ts) ==
    \A p \in DOMAIN q :
        LET i == q[p].timer
        IN  /\ q[p].msg = "RECORD_START" => /\ ts[i] \notin {"waiting", "announced"} /\ Ends(q, ts, i)
                                            /\ \A r \in DOMAIN q : r # p /\ q[r].timer = i =>
                                                  /\ q[r].msg # "RECORD_START"
                                                  /\ q[r].msg = "RECORD_STOP" => r > p
            /\ q[p].msg = "RECORD_STOP" => i \in Ids /\ ts[i] = "over"

Beginning == agenda # <<>> /\ Head(agenda).do \in {"cut", "open"}

\* The recording that is being begun for a timer is the one that waits.
BeginsNext == Beginning /\ Head(agenda).for \in Timed =>
                  recording_id = Head(agenda).for /\ nextRecordingInfo = Head(agenda).for

\* One that waits will end, and is not the one of recording_id, unless it is about to begin.
WaitingEndsLater ==
    nextRecordingInfo # None =>
        /\ Ends(queue, timers, nextRecordingInfo) /\ ~Ahead(queue, timers, nextRecordingInfo)
        /\ recording_id = nextRecordingInfo =>
               \/ Beginning /\ Head(agenda).for = nextRecordingInfo
               \/ agenda # <<>> /\ Head(agenda).do = "next" /\ ~recordingstatus

\* recording_id is a timer that has not begun only while there was no recording at all.
NothingBegun ==
    recording_id \in Timed /\ Ahead(queue, timers, recording_id) =>
        ByHand \/ Opening \/ (~recordingstatus /\ NoMode(queue))

\* The recording under way is the one of recording_id, and will end.
TapedEnds ==
    taping # None /\ ~Beginning =>
        /\ recording_id # None /\ Ends(queue, timers, recording_id)
        /\ taping \in Timed => recording_id = taping

StopInv ==
    /\ InOrder(queue, timers) /\ BeginsNext /\ WaitingEndsLater /\ NothingBegun /\ TapedEnds

LEMMA HasMore ==
    ASSUME NEW q \in Seq(Sent), NEW e \in Sent, NEW m, NEW i
    PROVE  Has(Append(q, e), m, i) <=> Has(q, m, i) \/ (e.msg = m /\ e.timer = i)
<1> DEFINE r == Append(q, e)
<1>1. /\ DOMAIN r = 1..(Len(q) + 1) /\ DOMAIN q = 1..Len(q) /\ Len(q) \in Nat /\ r[Len(q) + 1] = e
      /\ \A p \in 1..Len(q) : r[p] = q[p]
  BY QueueGrows
<1> HIDE DEF r
<1>2. Has(r, m, i) <=> Has(q, m, i) \/ (e.msg = m /\ e.timer = i)
  BY <1>1 DEF Has
<1> QED BY <1>2 DEF r

LEMMA HasRest ==
    ASSUME NEW q \in Seq(Sent), q # <<>>, NEW m, NEW i
    PROVE  Has(q, m, i) <=> Has(Tail(q), m, i) \/ (Head(q).msg = m /\ Head(q).timer = i)
<1> DEFINE r == Tail(q)
<1>1. /\ DOMAIN r = 1..(Len(q) - 1) /\ DOMAIN q = 1..Len(q) /\ Len(q) \in Nat /\ Len(q) > 0
      /\ Head(q) = q[1] /\ \A p \in 1..(Len(q) - 1) : r[p] = q[p + 1]
  BY QueueRest
<1> HIDE DEF r
<1>2. \A p \in DOMAIN q : p = 1 \/ (p - 1 \in DOMAIN r /\ r[p - 1] = q[p])
  BY <1>1
<1>3. \A p \in DOMAIN r : p + 1 \in DOMAIN q /\ r[p] = q[p + 1]
  BY <1>1
<1>4. Has(r, m, i) <=> \E p \in DOMAIN q : p # 1 /\ q[p].msg = m /\ q[p].timer = i
  <2>1. ASSUME Has(r, m, i) PROVE \E p \in DOMAIN q : p # 1 /\ q[p].msg = m /\ q[p].timer = i
    <3>1. PICK p \in DOMAIN r : r[p].msg = m /\ r[p].timer = i
      BY <2>1 DEF Has
    <3>2. p + 1 \in DOMAIN q /\ p + 1 # 1 /\ r[p] = q[p + 1]
      BY <1>1, <1>3
    <3> QED BY <3>1, <3>2
  <2>2. ASSUME NEW p \in DOMAIN q, p # 1, q[p].msg = m, q[p].timer = i PROVE Has(r, m, i)
    BY <1>2, <2>2 DEF Has
  <2> QED BY <2>1, <2>2
<1>5. 1 \in DOMAIN q
  BY <1>1
<1> QED BY <1>1, <1>4, <1>5 DEF Has, r

\* What the order of two messages says.
LEMMA StartOf ==
    ASSUME NEW q, NEW ts, InOrder(q, ts), NEW p \in DOMAIN q, q[p].msg = "RECORD_START"
    PROVE  LET i == q[p].timer
           IN  /\ ts[i] \notin {"waiting", "announced"} /\ Ends(q, ts, i)
               /\ \A r \in DOMAIN q : r # p /\ q[r].timer = i =>
                     q[r].msg # "RECORD_START" /\ (q[r].msg = "RECORD_STOP" => r > p)
  BY DEF InOrder

LEMMA StopOf ==
    ASSUME NEW q, NEW ts, InOrder(q, ts), NEW p \in DOMAIN q, q[p].msg = "RECORD_STOP"
    PROVE  q[p].timer \in Ids /\ ts[q[p].timer] = "over"
  BY DEF InOrder

\* The rest of a queue.
LEMMA RestInOrder ==
    ASSUME NEW q \in Seq(Sent), q # <<>>, NEW ts, InOrder(q, ts)
    PROVE  /\ InOrder(Tail(q), ts)
           /\ \A i : /\ Ahead(Tail(q), ts, i) => Ahead(q, ts, i)
                     /\ Ends(q, ts, i) /\ (Head(q).msg = "RECORD_STOP" => Head(q).timer # i) => Ends(Tail(q), ts, i)
                     /\ Head(q).msg = "RECORD_START" /\ Head(q).timer = i =>
                           ~Ahead(Tail(q), ts, i) /\ Ends(Tail(q), ts, i)
<1> DEFINE r == Tail(q)
<1>1. /\ DOMAIN r = 1..(Len(q) - 1) /\ DOMAIN q = 1..Len(q) /\ Len(q) \in Nat /\ Len(q) > 0
      /\ Head(q) = q[1] /\ \A p \in 1..(Len(q) - 1) : r[p] = q[p + 1]
  BY QueueRest
<1>2. \A m, i : Has(q, m, i) <=> Has(r, m, i) \/ (Head(q).msg = m /\ Head(q).timer = i)
  BY HasRest
<1> HIDE DEF r
<1>3. 1 \in DOMAIN q /\ \A p \in DOMAIN r : p + 1 \in DOMAIN q /\ p + 1 # 1 /\ r[p] = q[p + 1] /\ p \in Nat
  BY <1>1
<1>4. ASSUME NEW i, Ends(q, ts, i), Head(q).msg = "RECORD_STOP" => Head(q).timer # i PROVE Ends(r, ts, i)
  BY <1>2, <1>4 DEF Ends
<1>5. ASSUME NEW i, Head(q).msg = "RECORD_START", Head(q).timer = i PROVE ~Ahead(r, ts, i) /\ Ends(r, ts, i)
  <2>1. /\ ts[i] \notin {"waiting", "announced"} /\ Ends(q, ts, i)
        /\ \A k \in DOMAIN q : k # 1 /\ q[k].timer = i => q[k].msg # "RECORD_START"
    BY <1>1, <1>3, <1>5, StartOf
  <2>2. ~Has(r, "RECORD_START", i)
    BY <1>3, <2>1 DEF Has
  <2> QED BY <1>4, <1>5, <2>1, <2>2 DEF Ahead
<1>6. ASSUME NEW p \in DOMAIN r, r[p].msg = "RECORD_START"
      PROVE  LET i == r[p].timer
             IN  /\ ts[i] \notin {"waiting", "announced"} /\ Ends(r, ts, i)
                 /\ \A k \in DOMAIN r : k # p /\ r[k].timer = i =>
                       /\ r[k].msg # "RECORD_START"
                       /\ r[k].msg = "RECORD_STOP" => k > p
  <2> DEFINE i == r[p].timer
  <2>1. p + 1 \in DOMAIN q /\ p + 1 # 1 /\ p \in Nat /\ q[p + 1].msg = "RECORD_START" /\ q[p + 1].timer = i
    BY <1>3, <1>6
  <2>2. /\ ts[i] \notin {"waiting", "announced"} /\ Ends(q, ts, i)
        /\ \A k \in DOMAIN q : k # p + 1 /\ q[k].timer = i =>
              q[k].msg # "RECORD_START" /\ (q[k].msg = "RECORD_STOP" => k > p + 1)
    BY <2>1, StartOf
  <2> HIDE DEF i
  <2>3. q[1].msg = "RECORD_STOP" => q[1].timer # i
    BY <1>3, <2>1, <2>2
  <2>4. Ends(r, ts, i)
    BY <1>1, <1>4, <2>2, <2>3
  <2>5. ASSUME NEW k \in DOMAIN r, k # p, r[k].timer = i
        PROVE  r[k].msg # "RECORD_START" /\ (r[k].msg = "RECORD_STOP" => k > p)
    <3>1. k + 1 \in DOMAIN q /\ k \in Nat /\ q[k + 1] = r[k] /\ k + 1 # p + 1
      BY <1>3, <2>1, <2>5
    <3>2. r[k].msg # "RECORD_START" /\ (r[k].msg = "RECORD_STOP" => k + 1 > p + 1)
      BY <2>2, <2>5, <3>1
    <3> QED BY <2>1, <3>1, <3>2
  <2> QED BY <2>2, <2>4, <2>5 DEF i
<1>7. ASSUME NEW p \in DOMAIN r, r[p].msg = "RECORD_STOP"
      PROVE  r[p].timer \in Ids /\ ts[r[p].timer] = "over"
  BY <1>3, <1>7, StopOf
<1>8. InOrder(r, ts)
  BY <1>6, <1>7 DEF InOrder
<1>9. \A i : Ahead(r, ts, i) => Ahead(q, ts, i)
  BY <1>2 DEF Ahead
<1> QED BY <1>4, <1>5, <1>8, <1>9 DEF r

\* Timers are announced, are asked to stop, and are set for recordings begun by hand.
Asked(ts, us) ==
    \A i \in Ids : \/ us[i] = ts[i]
                   \/ ts[i] \in {"running", "unused"} /\ us[i] \in {"running", "asked"}
                   \/ ts[i] = "waiting" /\ us[i] = "announced"

LEMMA AskedInOrder ==
    ASSUME NEW q \in Seq(Sent), NEW ts, NEW us, InOrder(q, ts), Asked(ts, us)
    PROVE  /\ InOrder(q, us)
           /\ \A i \in Ids : (Ahead(q, us, i) => Ahead(q, ts, i)) /\ (Ends(q, ts, i) => Ends(q, us, i))
<1>1. \A i \in Ids : (Ahead(q, us, i) => Ahead(q, ts, i)) /\ (Ends(q, ts, i) => Ends(q, us, i))
  BY DEF Ahead, Ends, Asked
<1>2. \A p \in DOMAIN q : q[p].msg = "RECORD_START" => q[p].timer \in Ids
  BY DEF Sent, Ids
<1>3. ASSUME NEW p \in DOMAIN q, q[p].msg = "RECORD_START"
      PROVE  us[q[p].timer] \notin {"waiting", "announced"} /\ Ends(q, us, q[p].timer)
  BY <1>1, <1>2, <1>3, StartOf DEF Asked
<1>4. ASSUME NEW p \in DOMAIN q, q[p].msg = "RECORD_STOP"
      PROVE  q[p].timer \in Ids /\ us[q[p].timer] = "over"
  BY <1>4, StopOf DEF Asked
<1>5. InOrder(q, us)
  BY <1>3, <1>4, StartOf DEF InOrder
<1> QED BY <1>1, <1>5

LEMMA OtherInOrder ==
    ASSUME NEW q \in Seq(Sent), NEW ts, InOrder(q, ts), NEW e \in Sent, e.msg \notin {"RECORD_START", "RECORD_STOP"}
    PROVE  LET r == Append(q, e)
           IN  /\ InOrder(r, ts)
               /\ \A i : (Ahead(r, ts, i) <=> Ahead(q, ts, i)) /\ (Ends(q, ts, i) <=> Ends(r, ts, i))
<1> DEFINE r == Append(q, e)
<1>1. /\ DOMAIN r = 1..(Len(q) + 1) /\ DOMAIN q = 1..Len(q) /\ Len(q) \in Nat /\ r[Len(q) + 1] = e
      /\ \A p \in 1..Len(q) : r[p] = q[p]
  BY QueueGrows
<1>2. \A m, i : Has(r, m, i) <=> Has(q, m, i) \/ (e.msg = m /\ e.timer = i)
  BY HasMore
<1> HIDE DEF r
<1>3. \A p \in DOMAIN r : r[p].msg \in {"RECORD_START", "RECORD_STOP"} => p \in DOMAIN q /\ r[p] = q[p]
  BY <1>1
<1>4. \A i : (Ahead(r, ts, i) <=> Ahead(q, ts, i)) /\ (Ends(q, ts, i) <=> Ends(r, ts, i))
  BY <1>2 DEF Ahead, Ends
<1>5. ASSUME NEW p \in DOMAIN r, r[p].msg = "RECORD_START"
      PROVE  LET i == r[p].timer
             IN  /\ ts[i] \notin {"waiting", "announced"} /\ Ends(r, ts, i)
                 /\ \A k \in DOMAIN r : k # p /\ r[k].timer = i =>
                       /\ r[k].msg # "RECORD_START"
                       /\ r[k].msg = "RECORD_STOP" => k > p
  BY <1>3, <1>4, <1>5, StartOf
<1>6. ASSUME NEW p \in DOMAIN r, r[p].msg = "RECORD_STOP"
      PROVE  r[p].timer \in Ids /\ ts[r[p].timer] = "over"
  BY <1>3, <1>6, StopOf
<1> QED BY <1>4, <1>5, <1>6 DEF InOrder, r

\* timerd asks for a recording; it tells that one has ended.
LEMMA StartInOrder ==
    ASSUME NEW q \in Seq(Sent), NEW ts \in [Ids -> States], InOrder(q, ts), NEW i \in Timed,
           ts[i] \in {"waiting", "announced"}, Msg("RECORD_START", i) \in Sent
    PROVE  LET r  == Append(q, Msg("RECORD_START", i))
               us == [ts EXCEPT ![i] = "running"]
           IN  /\ InOrder(r, us)
               /\ \A j \in Ids : (Ahead(r, us, j) => Ahead(q, ts, j)) /\ (Ends(q, ts, j) => Ends(r, us, j))
<1> DEFINE e == Msg("RECORD_START", i)
           r == Append(q, e)
           us == [ts EXCEPT ![i] = "running"]
<1>1. e.msg = "RECORD_START" /\ e.timer = i /\ i \in Ids
  BY DEF Msg, Ids
<1>2. us[i] = "running" /\ \A j \in Ids : j # i => us[j] = ts[j]
  BY <1>1
<1>3. e \in Sent
  OBVIOUS
<1> HIDE DEF e
<1>4. /\ DOMAIN r = 1..(Len(q) + 1) /\ DOMAIN q = 1..Len(q) /\ Len(q) \in Nat /\ r[Len(q) + 1] = e
      /\ \A p \in 1..Len(q) : r[p] = q[p]
  BY <1>3, QueueGrows
<1>5. \A m, j : Has(r, m, j) <=> Has(q, m, j) \/ (e.msg = m /\ e.timer = j)
  BY <1>3, HasMore
<1> HIDE DEF r, us
<1>6. \A p \in DOMAIN q : q[p].msg \in {"RECORD_START", "RECORD_STOP"} => q[p].timer \in Ids \ {i}
  <2>1. \A p \in DOMAIN q : q[p].msg = "RECORD_START" => q[p].timer \in Ids \ {i}
    BY StartOf DEF Sent, Ids
  <2>2. \A p \in DOMAIN q : q[p].msg = "RECORD_STOP" => q[p].timer \in Ids \ {i}
    BY StopOf
  <2> QED BY <2>1, <2>2
<1>7. \A j \in Ids : (Ahead(r, us, j) => Ahead(q, ts, j)) /\ (Ends(q, ts, j) => Ends(r, us, j))
  BY <1>1, <1>2, <1>5 DEF Ahead, Ends
<1>8. ASSUME NEW p \in DOMAIN r, r[p].msg = "RECORD_START"
      PROVE  LET j == r[p].timer
             IN  /\ us[j] \notin {"waiting", "announced"} /\ Ends(r, us, j)
                 /\ \A k \in DOMAIN r : k # p /\ r[k].timer = j =>
                       /\ r[k].msg # "RECORD_START"
                       /\ r[k].msg = "RECORD_STOP" => k > p
  <2>1. CASE p = Len(q) + 1
    <3>1. us[i] = "running" /\ r[p].timer = i /\ Ends(r, us, i)
      BY <1>1, <1>2, <1>4, <2>1 DEF Ends
    <3>2. ASSUME NEW k \in DOMAIN r, k # p, r[k].timer = i
          PROVE  r[k].msg \notin {"RECORD_START", "RECORD_STOP"}
      <4>1. k \in DOMAIN q /\ r[k] = q[k]
        BY <1>4, <2>1, <3>2
      <4> QED BY <1>6, <3>2, <4>1
    <3> QED BY <3>1, <3>2
  <2>2. CASE p \in DOMAIN q
    <3> DEFINE j == r[p].timer
    <3>1. r[p] = q[p] /\ j \in Ids \ {i}
      BY <1>4, <1>6, <1>8, <2>2
    <3>2. /\ us[j] \notin {"waiting", "announced"} /\ Ends(r, us, j)
          /\ \A k \in DOMAIN q : k # p /\ q[k].timer = j =>
                q[k].msg # "RECORD_START" /\ (q[k].msg = "RECORD_STOP" => k > p)
      BY <1>2, <1>7, <1>8, <2>2, <3>1, StartOf
    <3>3. \A k \in DOMAIN r : r[k].timer = j => k \in DOMAIN q /\ r[k] = q[k]
      BY <1>1, <1>4, <3>1
    <3> QED BY <3>2, <3>3
  <2> QED BY <1>4, <2>1, <2>2
<1>9. ASSUME NEW p \in DOMAIN r, r[p].msg = "RECORD_STOP"
      PROVE  r[p].timer \in Ids /\ us[r[p].timer] = "over"
  <2>1. p \in DOMAIN q /\ r[p] = q[p]
    BY <1>1, <1>4, <1>9
  <2> QED BY <1>2, <1>6, <1>9, <2>1, StopOf
<1>10. InOrder(r, us)
  BY <1>8, <1>9 DEF InOrder
<1> QED BY <1>7, <1>10 DEF r, us, e

LEMMA StopInOrder ==
    ASSUME NEW q \in Seq(Sent), NEW ts \in [Ids -> States], InOrder(q, ts), NEW i \in Ids,
           ts[i] \in {"running", "asked"}, Msg("RECORD_STOP", i) \in Sent
    PROVE  LET r  == Append(q, Msg("RECORD_STOP", i))
               us == [ts EXCEPT ![i] = "over"]
           IN  /\ InOrder(r, us)
               /\ \A j \in Ids : (Ahead(r, us, j) => Ahead(q, ts, j)) /\ (Ends(q, ts, j) => Ends(r, us, j))
<1> DEFINE e == Msg("RECORD_STOP", i)
           r == Append(q, e)
           us == [ts EXCEPT ![i] = "over"]
<1>1. e.msg = "RECORD_STOP" /\ e.timer = i
  BY DEF Msg
<1>2. us[i] = "over" /\ \A j \in Ids : j # i => us[j] = ts[j]
  OBVIOUS
<1>3. e \in Sent
  OBVIOUS
<1> HIDE DEF e
<1>4. /\ DOMAIN r = 1..(Len(q) + 1) /\ DOMAIN q = 1..Len(q) /\ Len(q) \in Nat /\ r[Len(q) + 1] = e
      /\ \A p \in 1..Len(q) : r[p] = q[p]
  BY <1>3, QueueGrows
<1>5. \A m, j : Has(r, m, j) <=> Has(q, m, j) \/ (e.msg = m /\ e.timer = j)
  BY <1>3, HasMore
<1> HIDE DEF r, us
<1>6. \A p \in DOMAIN q : q[p].msg = "RECORD_START" => q[p].timer \in Ids
  BY DEF Sent, Ids
<1>7. \A j \in Ids : (Ahead(r, us, j) => Ahead(q, ts, j)) /\ (Ends(q, ts, j) => Ends(r, us, j))
  BY <1>1, <1>2, <1>5 DEF Ahead, Ends
<1>8. ASSUME NEW p \in DOMAIN r, r[p].msg = "RECORD_START"
      PROVE  LET j == r[p].timer
             IN  /\ us[j] \notin {"waiting", "announced"} /\ Ends(r, us, j)
                 /\ \A k \in DOMAIN r : k # p /\ r[k].timer = j =>
                       /\ r[k].msg # "RECORD_START"
                       /\ r[k].msg = "RECORD_STOP" => k > p
  <2> DEFINE j == r[p].timer
  <2>1. p \in DOMAIN q /\ r[p] = q[p] /\ j \in Ids
    BY <1>1, <1>4, <1>6, <1>8
  <2>2. /\ us[j] \notin {"waiting", "announced"} /\ Ends(r, us, j)
        /\ \A k \in DOMAIN q : k # p /\ q[k].timer = j =>
              q[k].msg # "RECORD_START" /\ (q[k].msg = "RECORD_STOP" => k > p)
    BY <1>2, <1>7, <1>8, <2>1, StartOf
  <2>3. \A k \in DOMAIN r : (k \in DOMAIN q /\ r[k] = q[k]) \/ (r[k] = e /\ k > p)
    BY <1>4, <2>1
  <2> QED BY <1>1, <2>2, <2>3
<1>9. ASSUME NEW p \in DOMAIN r, r[p].msg = "RECORD_STOP"
      PROVE  r[p].timer \in Ids /\ us[r[p].timer] = "over"
  <2>1. (p \in DOMAIN q /\ r[p] = q[p]) \/ r[p] = e
    BY <1>4
  <2> QED BY <1>1, <1>2, <1>9, <2>1, StopOf
<1>10. InOrder(r, us)
  BY <1>8, <1>9 DEF InOrder
<1> QED BY <1>7, <1>10 DEF r, us, e

-----------------------------------------------------------------------------
(* What steps do to the order of messages. *)

\* After a step that took the queue as q, the order is kept, no recording is ahead that was not, and
\* those that end still do.
Kept(q) ==
    /\ InOrder(queue', timers')
    /\ \A i \in Ids : /\ Ahead(queue', timers', i) => Ahead(q, timers, i)
                      /\ Ends(q, timers, i) => Ends(queue', timers', i)

LEMMA MoreKept ==
    ASSUME NEW q \in Seq(Sent), InOrder(q, timers), Asked(timers, timers'),
           queue' = q \/ \E e \in Sent : e.msg \notin {"RECORD_START", "RECORD_STOP"} /\ queue' = Append(q, e)
    PROVE  Kept(q)
<1>1. /\ InOrder(q, timers')
      /\ \A i \in Ids : (Ahead(q, timers', i) => Ahead(q, timers, i)) /\ (Ends(q, timers, i) => Ends(q, timers', i))
  BY AskedInOrder
<1>2. CASE queue' = q
  BY <1>1, <1>2 DEF Kept
<1>3. CASE \E e \in Sent : e.msg \notin {"RECORD_START", "RECORD_STOP"} /\ queue' = Append(q, e)
  <2>1. PICK e \in Sent : e.msg \notin {"RECORD_START", "RECORD_STOP"} /\ queue' = Append(q, e)
    BY <1>3
  <2>2. /\ InOrder(queue', timers')
        /\ \A i : /\ Ahead(queue', timers', i) <=> Ahead(q, timers', i)
                  /\ Ends(q, timers', i) <=> Ends(queue', timers', i)
    BY <1>1, <2>1, OtherInOrder
  <2> QED BY <1>1, <2>2 DEF Kept
<1> QED BY <1>2, <1>3

LEMMA NobodyAsked == timers' = timers => Asked(timers, timers')
  BY DEF Asked

LEMMA ModesKept ==
    \A b \in BOOLEAN : RecordMode(b) \in Sent /\ RecordMode(b).msg \notin {"RECORD_START", "RECORD_STOP"}
  BY SentMessages DEF RecordMode, Msg

\* Stopping a recording.
LEMMA StopKept ==
    ASSUME NEW q \in Seq(Sent), InOrder(q, timers), Stop(q), Asked(timers, timers')
    PROVE  Kept(q) /\ taping' = None
<1>1. queue' = q \/ queue' = Append(q, RecordMode(FALSE))
  BY DEF Stop, RestoreNeutrino, UnsetRecordMode
<1> QED BY <1>1, ModesKept, MoreKept DEF Stop

\* A step that stops the recording, or leaves it alone.
StoppedOrNot(q) ==
    \/ recording_id' = None /\ taping' = None
    \/ queue' = q /\ UNCHANGED <<recording_id, taping>>

LEMMA AutoKept ==
    ASSUME NEW q \in Seq(Sent), InOrder(q, timers), NEW status, StopAutoRecord(q, status)
    PROVE  Kept(q) /\ StoppedOrNot(q)
<1>1. CASE Stop(q) /\ AskToStop(recording_id) /\ recording_id' = None
  <2>1. Asked(timers, timers')
    BY <1>1 DEF AskToStop, Asked
  <2> QED BY <1>1, <2>1, StopKept DEF StoppedOrNot
<1>2. CASE queue' = q /\ UNCHANGED <<recorder, timers, recording_id>>
  BY <1>2, NobodyAsked, MoreKept DEF StoppedOrNot, recorder
<1> QED BY <1>1, <1>2 DEF StopAutoRecord

LEMMA LeaveKept ==
    ASSUME NEW q \in Seq(Sent), InOrder(q, timers), LeaveTimeshift(q)
    PROVE  Kept(q) /\ StoppedOrNot(q) /\ recordingstatus' \in {recordingstatus, FALSE}
<1>1. CASE StopAutoRecord(q, recordingstatus) /\ recordingstatus' = FALSE
  BY <1>1, AutoKept
<1>2. CASE queue' = q /\ UNCHANGED <<recorder, timers, recording_id, recordingstatus>>
  BY <1>2, NobodyAsked, MoreKept DEF StoppedOrNot, recorder
<1> QED BY <1>1, <1>2 DEF LeaveTimeshift

\* What a handler knows of the messages behind the one it was called for.
LEMMA ReceivesOrder ==
    ASSUME IInv, StatusInv, StopInv, NEW m, Receives(m)
    PROVE  /\ InOrder(Rest, timers) /\ Rest \in Seq(Sent)
           /\ m # "RECORD_STOP" /\ Kept(Rest) => Kept(queue)
           /\ NoMode(queue) => NoMode(Rest)
           /\ ~Opening /\ ~ByHand /\ ~Beginning
           /\ agenda # <<>> => Head(agenda).do \notin {"cut", "open", "next"}
<1>1. Receptive /\ queue # <<>> /\ Head(queue).msg = m /\ queue \in Seq(Sent) /\ InOrder(queue, timers)
  BY TypesNow DEF Receives, StopInv
<1>2. /\ InOrder(Rest, timers)
      /\ \A i : /\ Ahead(Rest, timers, i) => Ahead(queue, timers, i)
                /\ Ends(queue, timers, i) /\ Head(queue).msg # "RECORD_STOP" => Ends(Rest, timers, i)
  BY <1>1, RestInOrder DEF Rest
<1>3. Rest \in Seq(Sent) /\ ~Opening /\ ~ByHand
  BY <1>1, IdleNow, TypesNow DEF Rest, StatusInv
<1>4. ~Beginning /\ (agenda # <<>> => Head(agenda).do \notin {"cut", "open", "next"})
  BY <1>1 DEF Receptive, Dialog, Beginning
<1>5. NoMode(queue) => NoMode(Rest)
  <2>1. \A p \in DOMAIN Rest : p + 1 \in DOMAIN queue /\ Rest[p] = queue[p + 1]
    BY <1>1, QueueRest DEF Rest
  <2> QED BY <2>1 DEF NoMode
<1>6. m # "RECORD_STOP" /\ Kept(Rest) => Kept(queue)
  BY <1>1, <1>2 DEF Kept
<1> QED BY <1>2, <1>3, <1>4, <1>5, <1>6

LEMMA IdleBegins == ASSUME agenda' \in Seq(Tasks), Idle(agenda') PROVE ~Beginning'
<1>1. agenda' # <<>> => Head(agenda').do \notin Busy
  BY IdleRest
<1> QED BY <1>1 DEF Beginning, Busy

\* A step of the main thread that begins or stops no timer's recording.
LEMMA Steady ==
    ASSUME IInv, StopInv, Kept(queue), nextRecordingInfo' = nextRecordingInfo,
           agenda # <<>> => Head(agenda).do \notin {"cut", "open", "next"},
           Beginning' => Head(agenda').for \notin Timed,
           (recording_id' = None /\ taping' = None) \/ UNCHANGED <<recording_id, taping>>,
           \/ ByHand' \/ recording_id' = None
           \/ ~ByHand /\ (~recordingstatus /\ NoMode(queue) => ~recordingstatus' /\ NoMode(queue'))
    PROVE  StopInv'
<1>1. /\ recording_id \in Ids \cup {None} /\ nextRecordingInfo \in Timed \cup {None}
      /\ Timed \subseteq Ids /\ None \notin Ids
  BY TypesNow, ConstantsAssumption DEF Ids
<1>2. /\ InOrder(queue', timers')
      /\ \A i \in Ids : /\ Ahead(queue', timers', i) => Ahead(queue, timers, i)
                        /\ Ends(queue, timers, i) => Ends(queue', timers', i)
  BY DEF Kept
<1>3. ~Beginning /\ ~Opening
  BY DEF Beginning, Opening
<1>4. BeginsNext'
  BY DEF BeginsNext
<1>5. WaitingEndsLater'
  <2>1. SUFFICES ASSUME nextRecordingInfo # None
                 PROVE  /\ Ends(queue', timers', nextRecordingInfo) /\ ~Ahead(queue', timers', nextRecordingInfo)
                        /\ recording_id' # nextRecordingInfo
    BY DEF WaitingEndsLater
  <2>2. /\ Ends(queue, timers, nextRecordingInfo) /\ ~Ahead(queue, timers, nextRecordingInfo)
        /\ recording_id # nextRecordingInfo
    BY <1>3, <2>1 DEF StopInv, WaitingEndsLater
  <2> QED BY <1>1, <1>2, <2>1, <2>2
<1>6. NothingBegun'
  <2>1. SUFFICES ASSUME recording_id' \in Timed, Ahead(queue', timers', recording_id')
                 PROVE  ByHand' \/ (~recordingstatus' /\ NoMode(queue'))
    BY DEF NothingBegun
  <2>2. recording_id' = recording_id /\ recording_id' # None
    BY <1>1, <2>1
  <2>3. Ahead(queue, timers, recording_id)
    BY <1>1, <1>2, <2>1, <2>2
  <2>4. ByHand \/ (~recordingstatus /\ NoMode(queue))
    BY <1>3, <2>1, <2>2, <2>3 DEF StopInv, NothingBegun
  <2> QED BY <2>2, <2>4
<1>7. TapedEnds'
  <2>1. SUFFICES ASSUME taping' # None
                 PROVE  /\ recording_id' # None /\ Ends(queue', timers', recording_id')
                        /\ taping' \in Timed => recording_id' = taping'
    BY DEF TapedEnds
  <2>2. recording_id' = recording_id /\ taping' = taping
    BY <2>1
  <2>3. /\ recording_id # None /\ Ends(queue, timers, recording_id)
        /\ taping \in Timed => recording_id = taping
    BY <1>3, <2>1, <2>2 DEF StopInv, TapedEnds
  <2> QED BY <1>1, <1>2, <2>2, <2>3
<1> QED BY <1>2, <1>4, <1>5, <1>6, <1>7 DEF StopInv

\* The step of somebody else.
LEMMA Apart ==
    ASSUME IInv, StopInv, Kept(queue), NoMode(queue) => NoMode(queue'),
           UNCHANGED <<agenda, recordingstatus, recording_id, nextRecordingInfo, taping>>
    PROVE  StopInv'
<1>1. /\ recording_id \in Ids \cup {None} /\ nextRecordingInfo \in Timed \cup {None}
      /\ Timed \subseteq Ids
  BY TypesNow DEF Ids
<1>2. /\ InOrder(queue', timers')
      /\ \A i \in Ids : /\ Ahead(queue', timers', i) => Ahead(queue, timers, i)
                        /\ Ends(queue, timers, i) => Ends(queue', timers', i)
  BY DEF Kept
<1>3. (Beginning' <=> Beginning) /\ (Opening' <=> Opening) /\ (ByHand' <=> ByHand)
  BY DEF Beginning, Opening, ByHand
<1>4. BeginsNext'
  BY <1>3 DEF StopInv, BeginsNext
<1>5. WaitingEndsLater'
  BY <1>1, <1>2, <1>3 DEF StopInv, WaitingEndsLater
<1>6. NothingBegun'
  BY <1>1, <1>2, <1>3 DEF StopInv, NothingBegun
<1>7. TapedEnds'
  BY <1>1, <1>2, <1>3 DEF StopInv, TapedEnds
<1> QED BY <1>2, <1>4, <1>5, <1>6, <1>7 DEF StopInv

\* The same for a step that leaves a timeshift.
LEMMA SteadyLeave ==
    ASSUME IInv, StopInv, Kept(queue), nextRecordingInfo' = nextRecordingInfo, ~ByHand,
           agenda # <<>> => Head(agenda).do \notin {"cut", "open", "next"},
           Beginning' => Head(agenda').for \notin Timed,
           NEW q, NoMode(queue) => NoMode(q), StoppedOrNot(q), recordingstatus' \in {recordingstatus, FALSE}
    PROVE  StopInv'
<1>1. CASE recording_id' = None /\ taping' = None
  BY <1>1, Steady
<1>2. CASE queue' = q /\ UNCHANGED <<recording_id, taping>>
  <2>1. ~recordingstatus /\ NoMode(queue) => ~recordingstatus' /\ NoMode(queue')
    BY <1>2
  <2> QED BY <1>2, <2>1, Steady
<1> QED BY <1>1, <1>2 DEF StoppedOrNot

-----------------------------------------------------------------------------
(* The steps *)

LEMMA OthersKeepOrder ==
    ASSUME IInv, StatusInv, StopInv,
           \/ ZapDone \/ ShiftTimerExpires
           \/ \E m \in {"STANDBY_ON", "STANDBY_OFF"} : ClientSends(m)
           \/ \E i \in Timed : TimerAnnounced(i) \/ TimerStarts(i)
           \/ TimerEnds
    PROVE  StopInv'
<1>1. queue \in Seq(Sent) /\ InOrder(queue, timers) /\ timers \in [Ids -> States]
  BY TypesNow DEF StopInv
<1>2. ASSUME NEW m \in Sent, m.msg \notin Modes
      PROVE  LET r == Append(queue, m) IN NoMode(queue) => NoMode(r)
  BY <1>1, <1>2, ToldOther
<1>3. CASE ShiftTimerExpires
  <2>1. UNCHANGED <<queue, timers, agenda, recordingstatus, recording_id, nextRecordingInfo, taping>>
    BY <1>3 DEF ShiftTimerExpires, recorder
  <2>2. Kept(queue)
    BY <1>1, <2>1, NobodyAsked, MoreKept
  <2> QED BY <2>1, <2>2, Apart
<1>4. ASSUME NEW m \in Sent, m.msg \notin Modes \cup {"RECORD_START", "RECORD_STOP"}, queue' = Append(queue, m),
             Asked(timers, timers'),
             UNCHANGED <<agenda, recordingstatus, recording_id, nextRecordingInfo, taping>>
      PROVE  StopInv'
  <2>1. Kept(queue)
    BY <1>1, <1>4, MoreKept
  <2> QED BY <1>2, <1>4, <2>1, Apart
<1>5. CASE ZapDone
  <2>1. ZapComplete \in Sent /\ ZapComplete.msg \notin Modes \cup {"RECORD_START", "RECORD_STOP"}
    BY SentMessages DEF ZapComplete, Msg, Modes
  <2> QED BY <1>4, <1>5, <2>1, NobodyAsked DEF ZapDone, recorder
<1>6. ASSUME NEW m \in {"STANDBY_ON", "STANDBY_OFF"}, ClientSends(m) PROVE StopInv'
  <2>1. Msg(m, None) \in Sent /\ Msg(m, None).msg \notin Modes \cup {"RECORD_START", "RECORD_STOP"}
    BY SentMessages DEF Messages, Msg, Modes
  <2> QED BY <1>4, <1>6, <2>1, NobodyAsked DEF ClientSends, recorder
<1>7. ASSUME NEW i \in Timed, TimerAnnounced(i) PROVE StopInv'
  <2>1. i \in Ids /\ Msg("ANNOUNCE_RECORD", i) \in Sent
        /\ Msg("ANNOUNCE_RECORD", i).msg \notin Modes \cup {"RECORD_START", "RECORD_STOP"}
    BY SentMessages DEF Messages, Msg, Modes, Ids
  <2>2. timers[i] = "waiting" /\ timers' = [timers EXCEPT ![i] = "announced"]
    BY <1>7 DEF TimerAnnounced, Announces
  <2>3. Asked(timers, timers')
    BY <1>1, <2>2 DEF Asked
  <2> QED BY <1>4, <1>7, <2>1, <2>3 DEF TimerAnnounced, Announces, recorder
<1>8. ASSUME NEW i \in Timed, TimerStarts(i) PROVE StopInv'
  <2>1. Msg("RECORD_START", i) \in Sent /\ Msg("RECORD_START", i).msg \notin Modes
    BY SentMessages DEF Msg, Modes
  <2>2. /\ timers[i] \in {"waiting", "announced"} /\ timers' = [timers EXCEPT ![i] = "running"]
        /\ queue' = Append(queue, Msg("RECORD_START", i))
        /\ UNCHANGED <<agenda, recordingstatus, recording_id, nextRecordingInfo, taping>>
    BY <1>8 DEF TimerStarts, Announces, recorder
  <2>3. Kept(queue)
    BY <1>1, <2>1, <2>2, StartInOrder DEF Kept
  <2> QED BY <1>2, <2>1, <2>2, <2>3, Apart
<1>9. ASSUME NEW i \in Ids, TimerStops(i) PROVE StopInv'
  <2>1. Msg("RECORD_STOP", i) \in Sent /\ Msg("RECORD_STOP", i).msg \notin Modes
    BY SentMessages DEF Msg, Modes, Messages
  <2>2. /\ timers[i] \in {"running", "asked"} /\ timers' = [timers EXCEPT ![i] = "over"]
        /\ queue' = Append(queue, Msg("RECORD_STOP", i))
        /\ UNCHANGED <<agenda, recordingstatus, recording_id, nextRecordingInfo, taping>>
    BY <1>9 DEF TimerStops, Announces, recorder
  <2>3. Kept(queue)
    BY <1>1, <2>1, <2>2, StopInOrder DEF Kept
  <2> QED BY <1>2, <2>1, <2>2, <2>3, Apart
<1> QED BY <1>3, <1>5, <1>6, <1>7, <1>8, <1>9 DEF TimerEnds

\* The head of a stack that a handler has put pieces on.
LEMMA NotForTimers ==
    ASSUME NEW t \in Tasks, NEW s \in Seq(Tasks), agenda' = <<t>> \o s, t.do \in {"cut", "open"} => t.for \notin Timed
    PROVE  /\ Beginning' => Head(agenda').for \notin Timed
           /\ t.do = "leaveShift" \/ (t.do = "cut" /\ t.for \in {"key", "shift"}) => ByHand'
<1>1. agenda' # <<>> /\ Head(agenda') = t
  BY Stacked
<1> QED BY <1>1 DEF Beginning, ByHand

LEMMA ByHandNames == "key" \notin Timed /\ "shift" \notin Timed /\ {"key", "shift"} \subseteq Programs
  BY ConstantsAssumption DEF Programs

LEMMA PlainMessagesKeepOrder ==
    ASSUME IInv, StatusInv, StopInv, HandleZapComplete \/ \E on \in BOOLEAN : HandleRecordMode(on)
    PROVE  StopInv'
<1>1. \E m : m \notin {"RECORD_START", "RECORD_STOP"} /\ Receives(m) /\ (m \notin Modes => recordingstatus' = recordingstatus)
  <2>1. \A on \in BOOLEAN : RecordMode(on).msg \in Modes /\ RecordMode(on).msg \notin {"RECORD_START", "RECORD_STOP"}
    BY ModesKept, ModeNames
  <2> QED BY <2>1 DEF HandleZapComplete, HandleRecordMode
<1>2. PICK m : m \notin {"RECORD_START", "RECORD_STOP"} /\ Receives(m) /\ (m \notin Modes => recordingstatus' = recordingstatus)
  BY <1>1
<1>3. UNCHANGED <<timers, agenda, recording_id, nextRecordingInfo, taping>> /\ queue' = Rest
  BY DEF HandleZapComplete, HandleRecordMode, recorder
<1>4. Kept(queue) /\ (NoMode(queue) => NoMode(queue')) /\ ~ByHand /\ ~Beginning
      /\ (agenda # <<>> => Head(agenda).do \notin {"cut", "open", "next"})
  BY <1>2, <1>3, ReceivesOrder, NobodyAsked, MoreKept
<1>5. NoMode(queue) => recordingstatus' = recordingstatus
  <2>1. queue # <<>> /\ Head(queue).msg = m /\ queue \in Seq(Sent)
    BY <1>2, TypesNow DEF Receives
  <2>2. 1 \in DOMAIN queue /\ Head(queue) = queue[1]
    BY <2>1, QueueRest
  <2> QED BY <1>2, <2>1, <2>2 DEF NoMode
<1>6. ~Beginning'
  BY <1>3, <1>4 DEF Beginning
<1> QED BY <1>3, <1>4, <1>5, <1>6, Steady

LEMMA AnnounceKeepsOrder == ASSUME IInv, StatusInv, StopInv, HandleAnnounceRecord PROVE StopInv'
<1>1. /\ Receives("ANNOUNCE_RECORD") /\ LeaveTimeshift(Rest)
      /\ UNCHANGED <<agenda, nextRecordingInfo>>
  BY DEF HandleAnnounceRecord
<1>2. InOrder(Rest, timers) /\ Rest \in Seq(Sent) /\ (NoMode(queue) => NoMode(Rest)) /\ ~ByHand /\ ~Beginning
      /\ (agenda # <<>> => Head(agenda).do \notin {"cut", "open", "next"})
  BY <1>1, ReceivesOrder
<1>3. Kept(Rest) /\ StoppedOrNot(Rest) /\ recordingstatus' \in {recordingstatus, FALSE}
  BY <1>1, <1>2, LeaveKept
<1>4. Kept(queue)
  BY <1>1, <1>3, ReceivesOrder
<1>5. ~Beginning'
  BY <1>1, <1>2 DEF Beginning
<1> QED BY <1>1, <1>2, <1>3, <1>4, <1>5, SteadyLeave

LEMMA StandbyKeepsOrder ==
    ASSUME IInv, StatusInv, StopInv, PressStandby \/ \E on \in BOOLEAN : HandleStandby(on) PROVE StopInv'
<1>1. ASSUME NEW q \in Seq(Sent), NEW on \in BOOLEAN, Idle(agenda), ~ByHand, InOrder(q, timers),
             Kept(q) => Kept(queue), NoMode(queue) => NoMode(q), nextRecordingInfo' = nextRecordingInfo,
             agenda # <<>> => Head(agenda).do \notin {"cut", "open", "next"}, StandbyMode(q, on)
      PROVE  StopInv'
  <2>1. /\ Do("wake") \in Tasks /\ Do("tv") \in Tasks /\ Do("reshift") \in Tasks /\ Do("sleep") \in Tasks
        /\ Do("wake").do = "wake" /\ Do("sleep").do = "sleep" /\ agenda \in Seq(Tasks)
    BY TaskTypes, TypesNow DEF Pieces
  <2>2. CASE on
    <3>1. LeaveTimeshift(q) /\ agenda' = <<Do("sleep")>> \o agenda
      BY <1>1, <2>2 DEF StandbyMode, Call
    <3>2. Kept(q) /\ StoppedOrNot(q) /\ recordingstatus' \in {recordingstatus, FALSE}
      BY <1>1, <3>1, LeaveKept
    <3>3. Beginning' => Head(agenda').for \notin Timed
      BY <2>1, <3>1, NotForTimers
    <3> QED BY <1>1, <3>2, <3>3, SteadyLeave
  <2>3. CASE ~on
    <3>1. /\ queue' = q /\ agenda' = <<Do("wake"), Do("tv"), Do("reshift")>> \o agenda
          /\ UNCHANGED <<timers, recordingstatus, recording_id, taping>>
      BY <1>1, <2>3 DEF StandbyMode, Call, recorder
    <3> DEFINE below == <<Do("reshift")>> \o agenda
    <3>5. below \in Seq(Tasks) /\ <<Do("tv")>> \o below \in Seq(Tasks)
      BY <2>1, Stacked
    <3>6. Do("wake") \in Tasks /\ Do("tv") \in Tasks /\ Do("reshift") \in Tasks /\ agenda \in Seq(Tasks)
      BY <2>1
    <3>7. agenda' = <<Do("wake")>> \o (<<Do("tv")>> \o (<<Do("reshift")>> \o agenda))
      BY <3>6, <3>1, StackedThree
    <3> HIDE DEF below
    <3>8. agenda' = <<Do("wake")>> \o (<<Do("tv")>> \o below)
      BY <3>7 DEF below
    <3>3. Beginning' => Head(agenda').for \notin Timed
      BY <2>1, <3>5, <3>8, NotForTimers
    <3>4. Kept(q)
      BY <1>1, <3>1, NobodyAsked, MoreKept
    <3> QED BY <1>1, <3>1, <3>3, <3>4, Steady
  <2> QED BY <2>2, <2>3
<1>2. CASE PressStandby
  <2>1. agenda = <<>> /\ StandbyMode(queue, mode # "standby") /\ nextRecordingInfo' = nextRecordingInfo
    BY <1>2 DEF PressStandby, Key
  <2>2. Idle(agenda) /\ ~ByHand /\ queue \in Seq(Sent) /\ InOrder(queue, timers)
    BY <2>1, IdleNow, TypesNow DEF StatusInv, StopInv
  <2> QED BY <1>1, <2>1, <2>2
<1>3. ASSUME NEW on \in BOOLEAN, HandleStandby(on) PROVE StopInv'
  <2>1. PICK m \in {"STANDBY_ON", "STANDBY_OFF"} : Receives(m)
    BY <1>3 DEF HandleStandby
  <2>2. /\ \/ StandbyMode(Rest, on)
           \/ queue' = Rest /\ UNCHANGED <<timers, agenda, recordingstatus, recording_id, recorder>>
        /\ nextRecordingInfo' = nextRecordingInfo
    BY <1>3 DEF HandleStandby
  <2>3. /\ Idle(agenda) /\ ~ByHand /\ ~Beginning /\ Rest \in Seq(Sent) /\ InOrder(Rest, timers)
        /\ Kept(Rest) => Kept(queue)
        /\ NoMode(queue) => NoMode(Rest)
        /\ agenda # <<>> => Head(agenda).do \notin {"cut", "open", "next"}
    BY <2>1, ReceivesKnows, ReceivesOrder
  <2>4. CASE queue' = Rest /\ UNCHANGED <<timers, agenda, recordingstatus, recording_id, recorder>>
    <3>1. Kept(queue)
      BY <2>3, <2>4, NobodyAsked, MoreKept
    <3>2. taping' = taping /\ ~Beginning'
      BY <2>3, <2>4 DEF recorder, Beginning
    <3> QED BY <2>2, <2>3, <2>4, <3>1, <3>2, Steady
  <2> QED BY <1>1, <2>2, <2>3, <2>4
<1> QED BY <1>2, <1>3

LEMMA ShiftKeepsOrder == ASSUME IInv, StatusInv, StopInv, ShiftTimer \/ PressTimeshift PROVE StopInv'
<1>1. /\ StartAutoRecord(recordingstatus)
      /\ UNCHANGED <<queue, timers, recording_id, nextRecordingInfo, taping>>
  BY DEF ShiftTimer, PressTimeshift, recorder
<1>2. /\ Idle(agenda) /\ agenda \in Seq(Tasks) /\ ~ByHand /\ ~Beginning /\ queue \in Seq(Sent)
      /\ InOrder(queue, timers)
      /\ agenda # <<>> => Head(agenda).do \notin {"cut", "open", "next"}
  <2>1. Receptive
    BY DEF ShiftTimer, PressTimeshift, Key, Receptive
  <2> QED BY <2>1, IdleNow, TypesNow DEF StatusInv, StopInv, Receptive, Dialog, Beginning
<1>3. Kept(queue)
  BY <1>1, <1>2, NobodyAsked, MoreKept
<1>4. CASE UNCHANGED <<recordingstatus, agenda>>
  <2>1. ~Beginning'
    BY <1>2, <1>4 DEF Beginning
  <2> QED BY <1>1, <1>2, <1>3, <1>4, <2>1, Steady
<1>5. CASE agenda' = <<Cut("shift")>> \o agenda
  <2>1. (Beginning' => Head(agenda').for \notin Timed) /\ ByHand'
    BY <1>2, <1>5, TaskTypes, ByHandNames, NotForTimers
  <2> QED BY <1>1, <1>2, <1>3, <2>1, Steady
<1> QED BY <1>1, <1>4, <1>5 DEF StartAutoRecord, Call

LEMMA RecordKeyKeepsOrder == ASSUME IInv, StatusInv, StopInv, PressRecord PROVE StopInv'
<1>1. UNCHANGED <<queue, timers, recording_id, nextRecordingInfo, taping>> /\ agenda = <<>>
  BY DEF PressRecord, Key, recorder
<1>2. /\ Idle(agenda) /\ agenda \in Seq(Tasks) /\ ~ByHand /\ queue \in Seq(Sent) /\ InOrder(queue, timers)
  BY <1>1, IdleNow, TypesNow DEF StatusInv, StopInv
<1>3. Kept(queue)
  BY <1>1, <1>2, NobodyAsked, MoreKept
<1>4. CASE agenda' = <<Do("ask")>> \o agenda /\ UNCHANGED recordingstatus
  <2>1. Do("ask") \in Tasks /\ Do("ask").do = "ask"
    BY TaskTypes DEF Pieces
  <2>2. Beginning' => Head(agenda').for \notin Timed
    BY <1>2, <1>4, <2>1, NotForTimers
  <2> QED BY <1>1, <1>2, <1>3, <1>4, <2>2, Steady
<1>5. CASE agenda' = <<Do("leaveShift"), Cut("key")>> \o agenda
  <2>1. Do("leaveShift") \in Tasks /\ Do("leaveShift").do = "leaveShift" /\ Cut("key") \in Tasks
    BY TaskTypes, ByHandNames DEF Pieces
  <2>2. /\ agenda' = <<Do("leaveShift")>> \o (<<Cut("key")>> \o agenda)
        /\ <<Cut("key")>> \o agenda \in Seq(Tasks)
    BY <1>2, <1>5, <2>1, Stacked, StackedTwo
  <2>3. (Beginning' => Head(agenda').for \notin Timed) /\ ByHand'
    BY <2>1, <2>2, NotForTimers
  <2> QED BY <1>1, <1>2, <1>3, <2>3, Steady
<1> QED BY <1>4, <1>5 DEF PressRecord, Call

LEMMA ZapKeyKeepsOrder == ASSUME IInv, StatusInv, StopInv, PressZap PROVE StopInv'
<1>1. LeaveTimeshift(queue) /\ UNCHANGED <<agenda, nextRecordingInfo>> /\ agenda = <<>>
  BY DEF PressZap, Key
<1>2. Idle(agenda) /\ ~ByHand /\ ~Beginning' /\ queue \in Seq(Sent) /\ InOrder(queue, timers)
  BY <1>1, IdleNow, TypesNow DEF StatusInv, StopInv, Beginning
<1>3. Kept(queue) /\ StoppedOrNot(queue) /\ recordingstatus' \in {recordingstatus, FALSE}
  BY <1>1, <1>2, LeaveKept
<1> QED BY <1>1, <1>2, <1>3, SteadyLeave

\* Pieces that begin no recording.
LEMMA PiecesKeepOrder ==
    ASSUME IInv, StatusInv, StopInv, Answer \/ Sleep \/ Wake \/ TvMode \/ Shifted PROVE StopInv'
<1>1. /\ agenda # <<>> /\ Head(agenda).do \in {"ask", "answer", "sleep", "wake", "tv", "shifted"}
      /\ agenda' = Tail(agenda) /\ nextRecordingInfo' = nextRecordingInfo
  BY DEF Answer, Sleep, Wake, TvMode, Shifted, Return, Doing
<1>2. /\ ~ByHand /\ queue \in Seq(Sent) /\ InOrder(queue, timers) /\ ~Beginning'
      /\ Head(agenda).do \notin {"cut", "open", "next"}
  <2>1. Idle(agenda) /\ Idle(agenda') /\ agenda' \in Seq(Tasks)
    BY <1>1, IdleNow, TypesNow DEF StatusInv
  <2> QED BY <1>1, <2>1, IdleNow, IdleBegins, TypesNow DEF StatusInv, StopInv
<1>3. CASE TvMode
  <2>1. Kept(queue) /\ StoppedOrNot(queue) /\ recordingstatus' \in {recordingstatus, FALSE}
    BY <1>2, <1>3, LeaveKept DEF TvMode
  <2> QED BY <1>1, <1>2, <2>1, SteadyLeave
<1>4. CASE Answer \/ Sleep \/ Wake \/ Shifted
  <2>1. UNCHANGED <<queue, recordingstatus, recording_id, taping>>
    BY <1>4 DEF Answer, Sleep, Wake, Shifted, recorder
  <2>2. Asked(timers, timers')
    <3>1. CASE timers' = timers
      BY <3>1, NobodyAsked
    <3>2. CASE AskToStop(recording_id)
      BY <3>2 DEF AskToStop, Asked
    <3> QED BY <1>4, <3>1, <3>2 DEF Answer, Sleep, Wake, Shifted
  <2>3. Kept(queue)
    BY <1>2, <2>1, <2>2, MoreKept
  <2> QED BY <1>1, <1>2, <2>1, <2>3, Steady
<1> QED BY <1>3, <1>4

LEMMA ReshiftKeepsOrder == ASSUME IInv, StatusInv, StopInv, Reshift PROVE StopInv'
<1>1. /\ agenda # <<>> /\ Head(agenda).do = "reshift"
      /\ UNCHANGED <<queue, timers, recording_id, nextRecordingInfo, taping>>
  BY DEF Reshift, Doing, recorder
<1>2. /\ Idle(agenda) /\ ~ByHand /\ queue \in Seq(Sent) /\ InOrder(queue, timers)
      /\ Tail(agenda) \in Seq(Tasks)
  BY <1>1, IdleNow, TypesNow DEF StatusInv, StopInv
<1>3. Kept(queue)
  BY <1>1, <1>2, NobodyAsked, MoreKept
<1>4. Cut("shift") \in Tasks /\ Do("shifted") \in Tasks /\ Do("shifted").do = "shifted"
      /\ Cut("shift").do = "cut" /\ Cut("shift").for = "shift"
  BY TaskTypes, ByHandNames DEF Pieces
<1> DEFINE s == <<Do("shifted")>> \o Tail(agenda)
<1>5. s \in Seq(Tasks)
  BY <1>2, <1>4, Stacked
<1>6. CASE agenda' = <<Cut("shift"), Do("shifted")>> \o Tail(agenda)
  <2>1. agenda' = <<Cut("shift")>> \o s
    BY <1>2, <1>4, <1>6, StackedTwo
  <2> HIDE DEF s
  <2>2. (Beginning' => Head(agenda').for \notin Timed) /\ ByHand'
    BY <1>4, <1>5, <2>1, ByHandNames, NotForTimers
  <2> QED BY <1>1, <1>3, <2>2, Steady
<1>7. CASE agenda' = s /\ recordingstatus' = recordingstatus
  <2>1. Beginning' => Head(agenda').for \notin Timed
    BY <1>2, <1>4, <1>7, NotForTimers
  <2> QED BY <1>1, <1>2, <1>3, <1>7, <2>1, Steady
<1> QED BY <1>6, <1>7 DEF Reshift, Continue

LEMMA LeaveShiftKeepsOrder == ASSUME IInv, StatusInv, StopInv, LeaveShift PROVE StopInv'
<1>1. /\ agenda # <<>> /\ Head(agenda).do = "leaveShift" /\ agenda' = Tail(agenda)
      /\ nextRecordingInfo' = nextRecordingInfo
  BY DEF LeaveShift, Doing, Return
<1>2. /\ agenda' # <<>> /\ Head(agenda') = Cut("key") /\ queue \in Seq(Sent) /\ InOrder(queue, timers)
  <2>1. ~Idle(agenda)
    BY <1>1, TypesNow, IdleRest DEF Busy
  <2> QED BY <1>1, <2>1, TypesNow DEF StatusInv, InShape, StopInv
<1>3. (Beginning' => Head(agenda').for \notin Timed) /\ ByHand'
  <2>1. Cut("key").do = "cut" /\ Cut("key").for = "key"
    BY TaskTypes, ByHandNames
  <2> QED BY <1>2, <2>1, ByHandNames DEF ByHand
<1>4. Kept(queue) /\ StoppedOrNot(queue)
  <2>1. CASE StopAutoRecord(queue, recordingstatus)
    BY <1>2, <2>1, AutoKept
  <2>2. CASE UNCHANGED <<timers, queue, recording_id, recorder>>
    BY <1>2, <2>2, NobodyAsked, MoreKept DEF StoppedOrNot, recorder
  <2> QED BY <2>1, <2>2 DEF LeaveShift
<1> QED BY <1>1, <1>3, <1>4, Steady DEF StoppedOrNot

\* A recording that is asked for waits, and its timer was not the one of any recording before.
LEMMA StartKeepsOrder == ASSUME IInv, StatusInv, StopInv, HandleRecordStart PROVE StopInv'
<1>1. /\ Receives("RECORD_START") /\ LeaveTimeshift(Rest) /\ EndDialog(<<Do("next")>>)
      /\ nextRecordingInfo' = Sender
  BY DEF HandleRecordStart
<1>2. /\ InOrder(Rest, timers) /\ Rest \in Seq(Sent) /\ queue \in Seq(Sent) /\ InOrder(queue, timers)
      /\ NoMode(queue) => NoMode(Rest)
      /\ ~Opening /\ ~ByHand /\ ~Beginning
      /\ recording_id \in Ids \cup {None} /\ None \notin Ids
      /\ queue # <<>> /\ Head(queue).msg = "RECORD_START" /\ Head(queue) \in Sent
      /\ Idle(agenda) /\ agenda \in Seq(Tasks)
  BY <1>1, ReceivesOrder, TypesNow, ReceivesKnows, ConstantsAssumption DEF StopInv, Ids
<1>3. Sender \in Timed /\ Sender \in Ids /\ Sender # None
  BY <1>2, ConstantsAssumption DEF Sender, Sent, Ids
<1>4. Kept(Rest) /\ StoppedOrNot(Rest) /\ recordingstatus' \in {recordingstatus, FALSE}
  BY <1>1, <1>2, LeaveKept
<1>5. /\ \A i : /\ Ahead(Rest, timers, i) => Ahead(queue, timers, i)
                /\ Ends(queue, timers, i) => Ends(Rest, timers, i)
      /\ ~Ahead(Rest, timers, Sender) /\ Ends(Rest, timers, Sender)
  <2>1. /\ \A i : /\ Ahead(Rest, timers, i) => Ahead(queue, timers, i)
                  /\ Ends(queue, timers, i) /\ (Head(queue).msg = "RECORD_STOP" => Head(queue).timer # i) =>
                        Ends(Rest, timers, i)
                  /\ Head(queue).msg = "RECORD_START" /\ Head(queue).timer = i =>
                        ~Ahead(Rest, timers, i) /\ Ends(Rest, timers, i)
    BY <1>2, RestInOrder DEF Rest
  <2> QED BY <1>2, <2>1 DEF Sender
<1>6. Ahead(queue, timers, Sender)
  BY <1>2, HasRest DEF Ahead, Sender
<1>7. agenda' # <<>> /\ Head(agenda').do = "next"
  <2> DEFINE under == IF ~Dialog THEN agenda
                      ELSE IF Head(agenda).do = "ask" THEN <<Do("answer")>> \o Tail(agenda)
                      ELSE Tail(agenda)
  <2>1. {Do("next"), Do("answer")} \subseteq Tasks /\ Do("next").do = "next"
    BY TaskTypes DEF Pieces
  <2>2. Dialog => Tail(agenda) \in Seq(Tasks)
    BY <1>2, TypesNow DEF Dialog
  <2>3. Dialog => <<Do("answer")>> \o Tail(agenda) \in Seq(Tasks)
    BY <2>1, <2>2, Stacked
  <2>4. under \in Seq(Tasks)
    BY <1>2, <2>2, <2>3
  <2>5. agenda' = <<Do("next")>> \o under
    BY <1>1 DEF EndDialog
  <2> HIDE DEF under
  <2> QED BY <2>1, <2>4, <2>5, Stacked
<1>8. recording_id' = None \/ (recording_id' = recording_id /\ taping' = taping /\ queue' = Rest)
  BY <1>4 DEF StoppedOrNot
<1>9. recording_id' \in Timed /\ Ahead(queue, timers, recording_id') =>
          ~recordingstatus' /\ NoMode(queue') /\ recording_id' = recording_id
  <2>1. recording_id \in Timed /\ Ahead(queue, timers, recording_id) => ~recordingstatus /\ NoMode(queue)
    BY <1>2 DEF StopInv, NothingBegun
  <2>2. None \notin Timed
    BY ConstantsAssumption
  <2> QED BY <1>2, <1>4, <1>8, <2>1, <2>2
<1>10. BeginsNext'
  BY <1>7 DEF BeginsNext, Beginning
<1>11. WaitingEndsLater'
  <2>1. Ends(queue', timers', Sender) /\ ~Ahead(queue', timers', Sender)
    BY <1>3, <1>4, <1>5 DEF Kept
  <2>2. recording_id' = Sender => ~recordingstatus'
    BY <1>3, <1>6, <1>9
  <2> QED BY <1>1, <1>7, <2>1, <2>2 DEF WaitingEndsLater
<1>12. NothingBegun'
  <2>1. ASSUME recording_id' \in Timed, Ahead(queue', timers', recording_id')
        PROVE  ~recordingstatus' /\ NoMode(queue')
    <3>1. recording_id' \in Ids
      BY <2>1 DEF Ids
    <3>2. Ahead(queue, timers, recording_id')
      BY <1>4, <1>5, <2>1, <3>1 DEF Kept
    <3> QED BY <1>9, <2>1, <3>2
  <2> QED BY <2>1 DEF NothingBegun
<1>13. TapedEnds'
  <2>1. SUFFICES ASSUME taping' # None
                 PROVE  /\ recording_id' # None /\ Ends(queue', timers', recording_id')
                        /\ taping' \in Timed => recording_id' = taping'
    BY DEF TapedEnds
  <2>2. recording_id' = recording_id /\ taping' = taping
    BY <1>4, <2>1 DEF StoppedOrNot
  <2>3. /\ recording_id # None /\ Ends(queue, timers, recording_id)
        /\ taping \in Timed => recording_id = taping
    BY <1>2, <2>1, <2>2 DEF StopInv, TapedEnds
  <2>4. Ends(queue', timers', recording_id)
    BY <1>2, <1>4, <1>5, <2>3 DEF Kept
  <2> QED BY <2>2, <2>3, <2>4
<1> QED BY <1>4, <1>10, <1>11, <1>12, <1>13 DEF StopInv, Kept

\* A recording that ends is the one of recording_id or one that waits.
LEMMA StopKeepsOrder == ASSUME IInv, StatusInv, StopInv, HandleRecordStop PROVE StopInv'
<1>1. Receives("RECORD_STOP") /\ UNCHANGED <<timers, recording_id>>
  BY DEF HandleRecordStop
<1>2. /\ InOrder(Rest, timers) /\ Rest \in Seq(Sent) /\ queue \in Seq(Sent) /\ InOrder(queue, timers)
      /\ NoMode(queue) => NoMode(Rest)
      /\ ~Opening /\ ~ByHand /\ ~Beginning /\ Idle(agenda) /\ agenda \in Seq(Tasks)
      /\ agenda # <<>> => Head(agenda).do \notin {"cut", "open", "next"}
      /\ recording_id \in Ids \cup {None} /\ nextRecordingInfo \in Timed \cup {None}
      /\ None \notin Ids /\ Timed \subseteq Ids /\ recmode \in BOOLEAN
      /\ queue # <<>> /\ Head(queue).msg = "RECORD_STOP"
      /\ device = "RECORD" <=> taping # None
      /\ recmode <=> taping # None
  BY <1>1, ReceivesOrder, TypesNow, ReceivesKnows, ConstantsAssumption DEF StopInv, Ids
<1>3. \A i : /\ Ahead(Rest, timers, i) => Ahead(queue, timers, i)
             /\ Ends(queue, timers, i) /\ Sender # i => Ends(Rest, timers, i)
  BY <1>2, RestInOrder DEF Rest, Sender
<1>4. /\ recording_id \in Timed /\ Ahead(queue, timers, recording_id) => ~recordingstatus /\ NoMode(queue) /\ taping = None
      /\ nextRecordingInfo # None =>
            /\ Ends(queue, timers, nextRecordingInfo) /\ ~Ahead(queue, timers, nextRecordingInfo)
            /\ recording_id # nextRecordingInfo
  <2>1. recording_id \in Timed /\ Ahead(queue, timers, recording_id) => ~recordingstatus /\ NoMode(queue)
    BY <1>2 DEF StopInv, NothingBegun
  <2>2. NoMode(queue) => recordingstatus = recmode
    BY <1>2, IdleKnows
  <2> QED BY <1>2, <2>1, <2>2 DEF StopInv, WaitingEndsLater
<1>5. ~Beginning'
  <2>1. "next" \in Pieces \ Busy
    BY DEF Pieces, Busy
  <2>2. agenda' = agenda \/ agenda' = <<Do("next")>> \o agenda
    BY DEF HandleRecordStop, AfterStop, Call
  <2>3. agenda' \in Seq(Tasks) /\ Idle(agenda')
    BY <1>2, <2>1, <2>2, IdleUnder
  <2> QED BY <2>3, IdleBegins
<1>6. Kept(Rest) /\ (taping' # None => taping' = taping /\ Sender # recording_id)
  <2>1. CASE Stop(Rest)
    BY <1>1, <1>2, <2>1, NobodyAsked, StopKept
  <2>2. CASE queue' = Rest /\ UNCHANGED recorder /\ (device # "RECORD" \/ Sender # recording_id)
    BY <1>1, <1>2, <2>2, NobodyAsked, MoreKept DEF recorder
  <2> QED BY <2>1, <2>2 DEF HandleRecordStop
<1>7. nextRecordingInfo' # None => nextRecordingInfo' = nextRecordingInfo /\ Sender # nextRecordingInfo
  BY <1>4 DEF HandleRecordStop, Dropped
<1>8. recording_id \in Timed /\ Ahead(queue, timers, recording_id) => ~recordingstatus' /\ NoMode(queue')
  <2>1. CASE device = "RECORD" /\ Reset
    BY <1>2, <1>4, <2>1
  <2>2. CASE queue' = Rest /\ UNCHANGED recordingstatus
    BY <1>2, <1>4, <2>2
  <2> QED BY <2>1, <2>2 DEF HandleRecordStop
<1>9. BeginsNext'
  BY <1>5 DEF BeginsNext
<1>10. WaitingEndsLater'
  <2>1. SUFFICES ASSUME nextRecordingInfo' # None
                 PROVE  /\ Ends(queue', timers', nextRecordingInfo') /\ ~Ahead(queue', timers', nextRecordingInfo')
                        /\ recording_id' # nextRecordingInfo'
    BY DEF WaitingEndsLater
  <2>2. nextRecordingInfo' = nextRecordingInfo /\ nextRecordingInfo # None /\ Sender # nextRecordingInfo
        /\ nextRecordingInfo \in Ids
    BY <1>2, <1>7, <2>1
  <2>3. Ends(Rest, timers, nextRecordingInfo) /\ ~Ahead(Rest, timers, nextRecordingInfo)
    BY <1>3, <1>4, <2>2
  <2> QED BY <1>1, <1>4, <1>6, <2>2, <2>3 DEF Kept
<1>11. NothingBegun'
  <2>1. ASSUME recording_id' \in Timed, Ahead(queue', timers', recording_id')
        PROVE  ~recordingstatus' /\ NoMode(queue')
    <3>1. recording_id' = recording_id /\ recording_id \in Timed /\ recording_id \in Ids
      BY <1>1, <1>2, <2>1
    <3>2. Ahead(queue, timers, recording_id)
      BY <1>3, <1>6, <2>1, <3>1 DEF Kept
    <3> QED BY <1>8, <3>1, <3>2
  <2> QED BY <2>1 DEF NothingBegun
<1>12. TapedEnds'
  <2>1. SUFFICES ASSUME taping' # None
                 PROVE  /\ recording_id' # None /\ Ends(queue', timers', recording_id')
                        /\ taping' \in Timed => recording_id' = taping'
    BY DEF TapedEnds
  <2>2. recording_id' = recording_id /\ taping' = taping /\ Sender # recording_id
    BY <1>1, <1>6, <2>1
  <2>3. /\ recording_id # None /\ Ends(queue, timers, recording_id)
        /\ taping \in Timed => recording_id = taping
    BY <1>2, <2>1, <2>2 DEF StopInv, TapedEnds
  <2>4. Ends(queue', timers', recording_id)
    BY <1>2, <1>3, <1>6, <2>2, <2>3 DEF Kept
  <2> QED BY <2>2, <2>3, <2>4
<1> QED BY <1>6, <1>9, <1>10, <1>11, <1>12 DEF StopInv, Kept

\* The recording that waits becomes the one of recording_id, or waits on.
LEMMA NextKeepsOrder == ASSUME IInv, StatusInv, StopInv, StartNextRecording PROVE StopInv'
<1>1. /\ agenda # <<>> /\ Head(agenda).do = "next"
      /\ UNCHANGED <<queue, timers, recordingstatus, nextRecordingInfo, taping>>
  BY DEF StartNextRecording, Doing, recorder
<1>2. /\ Idle(agenda) /\ Idle(Tail(agenda)) /\ Tail(agenda) \in Seq(Tasks) /\ ~Opening /\ ~ByHand
      /\ ~Beginning
      /\ nextRecordingInfo \in Timed \cup {None} /\ None \notin Timed
  BY <1>1, IdleNow, TypesNow, ConstantsAssumption DEF StatusInv, Beginning
<1>3. CASE MayStart /\ recording_id' = nextRecordingInfo /\ agenda' = <<Cut(nextRecordingInfo)>> \o Tail(agenda)
  <2>1. nextRecordingInfo \in Timed /\ Cut(nextRecordingInfo) \in Tasks
        /\ Cut(nextRecordingInfo).do = "cut" /\ Cut(nextRecordingInfo).for = nextRecordingInfo
    BY <1>2, <1>3, TaskTypes DEF MayStart, Programs
  <2>2. agenda' # <<>> /\ Head(agenda').do = "cut" /\ Head(agenda').for = nextRecordingInfo
    BY <1>2, <1>3, <2>1, Stacked
  <2>3. Beginning'
    BY <2>2 DEF Beginning
  <2>4. BeginsNext'
    BY <1>1, <1>3, <2>2 DEF BeginsNext
  <2>5. WaitingEndsLater'
    BY <1>1, <2>2, <2>3 DEF StopInv, WaitingEndsLater
  <2>6. NothingBegun'
    BY <1>1, <1>2, <1>3, <2>1 DEF StopInv, WaitingEndsLater, NothingBegun
  <2>7. TapedEnds'
    BY <2>3 DEF TapedEnds
  <2> QED BY <1>1, <2>4, <2>5, <2>6, <2>7 DEF StopInv
<1>4. CASE ~MayStart /\ recording_id' = recording_id /\ agenda' = Tail(agenda)
  <2>1. ~Beginning'
    BY <1>2, <1>4, IdleBegins
  <2>2. BeginsNext'
    BY <2>1 DEF BeginsNext
  <2>3. WaitingEndsLater'
    BY <1>1, <1>2, <1>4 DEF StopInv, WaitingEndsLater, MayStart
  <2>4. NothingBegun'
    BY <1>1, <1>2, <1>4 DEF StopInv, NothingBegun
  <2>5. TapedEnds'
    BY <1>1, <1>2, <1>4 DEF StopInv, TapedEnds
  <2> QED BY <1>1, <2>2, <2>3, <2>4, <2>5 DEF StopInv
<1> QED BY <1>3, <1>4 DEF StartNextRecording, Continue, Return

LEMMA CutKeepsOrder == ASSUME IInv, StatusInv, StopInv, CutBackNeutrino PROVE StopInv'
<1> DEFINE open == [do |-> "open", for |-> Head(agenda).for]
           on == RecordMode(TRUE)
<1>1. /\ agenda # <<>> /\ Head(agenda).do = "cut" /\ agenda' = <<open>> \o Tail(agenda)
      /\ UNCHANGED <<timers, recordingstatus, recording_id, nextRecordingInfo, taping>>
  BY DEF CutBackNeutrino, Doing, Continue, recorder
<1>2. /\ Tail(agenda) \in Seq(Tasks) /\ Head(agenda).for \in Programs
      /\ queue \in Seq(Sent) /\ InOrder(queue, timers) /\ recmode \in BOOLEAN
      /\ recording_id \in Ids \cup {None} /\ nextRecordingInfo \in Timed \cup {None} /\ Timed \subseteq Ids
  BY <1>1, IdleNow, TypesNow DEF StatusInv, StopInv, Ids
<1>3. open \in Tasks /\ open.do = "open" /\ open.for = Head(agenda).for
  BY <1>2, TaskTypes DEF Pieces
<1> HIDE DEF open
<1>4. agenda' # <<>> /\ Head(agenda').do = "open" /\ Head(agenda').for = Head(agenda).for
  BY <1>1, <1>2, <1>3, Stacked
<1>5. Beginning /\ Beginning' /\ Opening'
  BY <1>1, <1>4 DEF Beginning, Opening
<1>6. Kept(queue)
  <2>1. PICK z \in {queue, Append(queue, ZapComplete)} :
          z \in Seq(Sent) /\ queue' = IF recmode THEN z ELSE Append(z, on)
    BY CutSends
  <2>2. ZapComplete \in Sent /\ ZapComplete.msg \notin {"RECORD_START", "RECORD_STOP"}
    BY SentMessages DEF ZapComplete, Msg
  <2>3. on \in Sent /\ on.msg \notin {"RECORD_START", "RECORD_STOP"}
    BY ModesKept
  <2> HIDE DEF on
  <2>4. /\ InOrder(z, timers)
        /\ \A i : (Ahead(z, timers, i) <=> Ahead(queue, timers, i)) /\ (Ends(queue, timers, i) <=> Ends(z, timers, i))
    BY <1>2, <2>1, <2>2, OtherInOrder
  <2>5. Kept(z)
    BY <1>1, <2>1, <2>3, <2>4, NobodyAsked, MoreKept
  <2> QED BY <2>4, <2>5 DEF Kept
<1>7. BeginsNext'
  BY <1>1, <1>4, <1>5 DEF StopInv, BeginsNext
<1>8. WaitingEndsLater'
  <2>1. SUFFICES ASSUME nextRecordingInfo # None
                 PROVE  /\ Ends(queue', timers', nextRecordingInfo) /\ ~Ahead(queue', timers', nextRecordingInfo)
                        /\ recording_id = nextRecordingInfo => Head(agenda').for = nextRecordingInfo
    BY <1>1, <1>5 DEF WaitingEndsLater
  <2>2. /\ Ends(queue, timers, nextRecordingInfo) /\ ~Ahead(queue, timers, nextRecordingInfo)
        /\ recording_id = nextRecordingInfo => Head(agenda).for = nextRecordingInfo
    BY <1>1, <2>1 DEF StopInv, WaitingEndsLater
  <2>3. nextRecordingInfo \in Ids
    BY <1>2, <2>1
  <2>4. Ends(queue', timers', nextRecordingInfo) /\ ~Ahead(queue', timers', nextRecordingInfo)
    BY <1>6, <2>2, <2>3 DEF Kept
  <2> QED BY <1>4, <2>2, <2>4
<1>9. NothingBegun' /\ TapedEnds'
  BY <1>5 DEF NothingBegun, TapedEnds
<1> QED BY <1>6, <1>7, <1>8, <1>9 DEF StopInv, Kept

\* A recording begins: the one that waited, or one by hand, for which timerd gets a timer.
LEMMA OpenKeepsOrder == ASSUME IInv, StatusInv, StopInv, StartRecording PROVE StopInv'
<1>1. /\ agenda # <<>> /\ Head(agenda).do = "open" /\ agenda' = Tail(agenda) /\ queue' = queue
      /\ taping' = Head(agenda).for
  BY DEF StartRecording, Doing, Return
<1>2. /\ Idle(Tail(agenda)) /\ Tail(agenda) \in Seq(Tasks) /\ Head(agenda).for \in Programs
      /\ queue \in Seq(Sent) /\ InOrder(queue, timers) /\ timers \in [Ids -> States]
      /\ nextRecordingInfo \in Timed \cup {None}
      /\ None \notin Ids /\ Timed \subseteq Ids /\ Manual \subseteq Ids /\ Timed \cap Manual = {}
  BY <1>1, IdleNow, TypesNow, ConstantsAssumption DEF StatusInv, StopInv, Ids
<1>3. ~Beginning' /\ Beginning
  BY <1>1, <1>2, IdleBegins DEF Beginning
<1>4. BeginsNext'
  BY <1>3 DEF BeginsNext
<1>5. CASE /\ Head(agenda).for \in Timed /\ nextRecordingInfo' = None
           /\ UNCHANGED <<timers, recording_id>>
  <2>1. /\ recording_id = Head(agenda).for /\ nextRecordingInfo = Head(agenda).for
        /\ recording_id # None /\ recording_id \in Timed
    BY <1>2, <1>3, <1>5 DEF StopInv, BeginsNext
  <2>2. Ends(queue, timers, recording_id) /\ ~Ahead(queue, timers, recording_id)
    BY <2>1 DEF StopInv, WaitingEndsLater
  <2>3. WaitingEndsLater'
    BY <1>5 DEF WaitingEndsLater
  <2>4. NothingBegun'
    BY <1>1, <1>5, <2>2 DEF NothingBegun
  <2>5. TapedEnds'
    BY <1>1, <1>5, <2>1, <2>2 DEF TapedEnds
  <2>6. InOrder(queue', timers')
    BY <1>1, <1>2, <1>5
  <2> QED BY <1>4, <2>3, <2>4, <2>5, <2>6 DEF StopInv
<1>6. ASSUME Head(agenda).for \notin Timed, nextRecordingInfo' = nextRecordingInfo, NEW m \in Manual,
             timers[m] = "unused", timers' = [timers EXCEPT ![m] = "running"], recording_id' = m
      PROVE  StopInv'
  <2>1. m \in Ids /\ m \notin Timed /\ m # None /\ timers'[m] = "running"
    BY <1>2, <1>6
  <2>2. Asked(timers, timers')
    BY <1>2, <1>6, <2>1 DEF Asked
  <2>3. Kept(queue)
    BY <1>1, <1>2, <2>2, MoreKept
  <2>4. WaitingEndsLater'
    <3>1. SUFFICES ASSUME nextRecordingInfo # None
                   PROVE  /\ Ends(queue', timers', nextRecordingInfo) /\ ~Ahead(queue', timers', nextRecordingInfo)
                          /\ m # nextRecordingInfo
      BY <1>6 DEF WaitingEndsLater
    <3>2. Ends(queue, timers, nextRecordingInfo) /\ ~Ahead(queue, timers, nextRecordingInfo)
      BY <3>1 DEF StopInv, WaitingEndsLater
    <3> QED BY <1>2, <2>1, <2>3, <3>1, <3>2 DEF Kept
  <2>5. NothingBegun'
    BY <1>6, <2>1 DEF NothingBegun
  <2>6. TapedEnds'
    BY <1>1, <1>6, <2>1 DEF TapedEnds, Ends
  <2> QED BY <1>4, <2>3, <2>4, <2>5, <2>6 DEF StopInv, Kept
<1> QED BY <1>5, <1>6 DEF StartRecording, Served

-----------------------------------------------------------------------------
LEMMA StopInvKept == ASSUME Plain(box), IInv, StatusInv, StopInv, Next PROVE StopInv'
<1>1. ~MenuStop /\ ~FailRecording
  BY DEF Plain, MenuStop, Key, FailRecording
<1>2. ~AfterFailure /\ ~CloseBox
  <2>1. agenda # <<>> => Head(agenda).do \notin {"box", "failed"}
    BY IdleRest, TypesNow DEF StatusInv, InShape, Busy
  <2> QED BY <2>1 DEF AfterFailure, CloseBox, Doing
<1>3. CASE Handlers
  BY <1>3, StartKeepsOrder, StopKeepsOrder, AnnounceKeepsOrder, PlainMessagesKeepOrder, StandbyKeepsOrder,
     ShiftKeepsOrder DEF Handlers
<1>4. CASE PieceOfWork
  BY <1>1, <1>2, <1>4, NextKeepsOrder, CutKeepsOrder, OpenKeepsOrder, PiecesKeepOrder,
     LeaveShiftKeepsOrder, ReshiftKeepsOrder DEF PieceOfWork
<1>5. CASE Keys
  BY <1>1, <1>5, RecordKeyKeepsOrder, ShiftKeepsOrder, StandbyKeepsOrder, ZapKeyKeepsOrder DEF Keys
<1> QED BY <1>3, <1>4, <1>5, OthersKeepOrder DEF Next

LEMMA StopInvariance == Spec => [](Plain(box) => StopInv)
<1>1. Init => StopInv
  <2> SUFFICES ASSUME Init PROVE StopInv
    OBVIOUS
  <2>1. agenda = <<>> /\ queue = <<>> /\ taping = None /\ ~recordingstatus /\ nextRecordingInfo = None
    BY DEF Init
  <2>2. InOrder(<<>>, timers) /\ NoMode(<<>>)
    BY DEF InOrder, NoMode
  <2> QED BY <2>1, <2>2 DEF StopInv, BeginsNext, Beginning, WaitingEndsLater, NothingBegun, TapedEnds
<1>2. IInv /\ (Plain(box) => StatusInv /\ StopInv) /\ [Next]_vars => (Plain(box) => StopInv)'
  <2>1. ASSUME StopInv, UNCHANGED vars PROVE StopInv'
    BY <2>1 DEF vars, recorder, StopInv, BeginsNext, Beginning, WaitingEndsLater, NothingBegun, TapedEnds,
                Opening, ByHand
  <2>2. [Next]_vars => box' = box
    BY DEF Next, vars
  <2> QED BY <2>1, <2>2, StopInvKept
<1> QED BY <1>1, <1>2, Invariance, StatusInvariance, PTL DEF Spec

\* When nothing is being handled, a recording under way is the one of recording_id, and timerd has yet
\* to send its RECORD_STOP: it will be stopped, however late the messages of its own timer, of others
\* and of time shifts are read (neutrino.cpp:2900-2961). The queue is empty then, so that a RECORD_STOP
\* that is announced would have to be in it. Where files open and the menu does not stop recordings, as
\* for StatusStaysTrue.
THEOREM RecordingStaysStoppable == Spec => [](Plain(box) => RecordingIsStoppable)
<1>1. StopInv => RecordingIsStoppable
  <2> SUFFICES ASSUME StopInv, Quiet, taping # None
               PROVE  /\ recording_id # None /\ timers[recording_id] \in {"running", "asked"}
                      /\ taping \in Timed => recording_id = taping
    BY DEF RecordingIsStoppable
  <2>1. queue = <<>> /\ ~Beginning
    BY DEF Quiet, Beginning
  <2>2. ~Has(queue, "RECORD_STOP", recording_id)
    BY <2>1 DEF Has
  <2> QED BY <2>1, <2>2 DEF StopInv, TapedEnds, Ends
<1> QED BY <1>1, StopInvariance, PTL

-----------------------------------------------------------------------------
(* Two timers alone take turns. *)

TwoTimers == OnlyTimers /\ AtMostTwo

\* The recording of a timer is over: it will not be asked for, does not wait and is not under way.
Done(j) ==
    /\ timers[j] = "over" /\ ~Has(queue, "RECORD_START", j)
    /\ nextRecordingInfo # j /\ taping # j

\* Nobody shifts or begins recordings by hand.
NoShifts ==
    /\ ~autoshift /\ ~wasshift /\ shift_timer = "off"
    /\ \A m \in Modes, i \in Ids : ~Has(queue, m, i)
    /\ agenda # <<>> => Head(agenda).do # "leaveShift"
    /\ taping \in Timed \cup {None}

\* The timers of the box are those with recordings, and each is at one place.
OnePlace ==
    /\ \A i \in Timed : timers[i] # "over" \/ Has(queue, "RECORD_START", i) \/ i \in {taping, nextRecordingInfo} =>
           i \in box.timed
    /\ taping # None => nextRecordingInfo # taping /\ ~Ahead(queue, timers, taping)

\* A recording begins when there is none, and looks ended too early only when another one is over.
Turns ==
    /\ Beginning => Head(agenda).for \in Timed /\ taping = None
    /\ Has(queue, "RECORDMODE_OFF", None) \/ (taping # None /\ ~recordingstatus) =>
           \E j \in box.timed : Done(j)

\* One that waits is about to begin, or waits for another one.
Awaited ==
    nextRecordingInfo # None => taping # None \/ Beginning \/ (agenda # <<>> /\ Head(agenda) = Do("next"))

\* One that has ended looks as if it had not only when there is none left to wait for it.
Ended ==
    taping = None /\ ~Beginning /\ (recordingstatus \/ Has(queue, "RECORDMODE_ON", None)) =>
        \A j \in box.timed : Done(j)

\* One that ends before it has begun, or before its beginning is told, is the last.
EndsLast ==
    \A k \in Timed :
        Has(queue, "RECORD_STOP", k) =>
            /\ ~Has(queue, "RECORD_START", k)
            /\ (taping = k /\ Has(queue, "RECORDMODE_ON", None)) \/ nextRecordingInfo = k =>
                   \A j \in box.timed \ {k} : Done(j) \/ taping = j

TurnsInv == NoShifts /\ OnePlace /\ Turns /\ Awaited /\ Ended /\ EndsLast

LEMMA Alone ==
    ASSUME IInv, TwoTimers
    PROVE  /\ Plain(box) /\ ~IsSet("auto_timeshift") /\ box.faults = {}
           /\ {"record", "timeshift", "menu"} \cap box.users = {}
           /\ box.timed \subseteq Timed /\ Timed \subseteq Ids /\ None \notin Ids
           /\ \A i, j, k \in box.timed : i = j \/ j = k \/ i = k
  BY ConstantsAssumption DEF TwoTimers, OnlyTimers, AtMostTwo, Plain, IInv, Surroundings, Ids

\* The messages the invariant speaks of.
Followed == {"RECORD_START", "RECORD_STOP"} \cup Modes

\* Timers are announced and asked to stop, no more.
Still(ts, us) ==
    \A i \in Ids : /\ us[i] = "over" <=> ts[i] = "over"
                   /\ us[i] \in {"waiting", "announced"} => ts[i] \in {"waiting", "announced"}

Fewer(q, r) == \A m \in Followed, i \in Ids \cup {None} : Has(r, m, i) => Has(q, m, i)

\* Steps that begin and end nothing.
LEMMA Calm ==
    ASSUME IInv, TwoTimers, TurnsInv, box' = box, Fewer(queue, queue'), Still(timers, timers'),
           nextRecordingInfo' \in {nextRecordingInfo, None}, UNCHANGED <<taping, shift>>,
           recordingstatus' => recordingstatus \/ Has(queue, "RECORDMODE_ON", None),
           ~recordingstatus' => ~recordingstatus \/ Has(queue, "RECORDMODE_OFF", None),
           \/ agenda' = agenda
           \/ /\ ~Beginning /\ ~Beginning'
              /\ agenda # <<>> => Head(agenda).do # "next"
              /\ agenda' # <<>> => Head(agenda').do # "leaveShift"
    PROVE  TurnsInv'
<1>1. /\ box.timed \subseteq Timed /\ Timed \subseteq Ids /\ None \notin Ids
      /\ UNCHANGED <<autoshift, wasshift, shift_timer>>
      /\ Modes = {"RECORDMODE_ON", "RECORDMODE_OFF"}
      /\ nextRecordingInfo \in Timed \cup {None} /\ taping \in Timed \cup {None}
  BY Alone, TypesNow DEF shift, Modes, TurnsInv, NoShifts
<1>2. \A i \in Ids \cup {None} :
          /\ Has(queue', "RECORD_START", i) => Has(queue, "RECORD_START", i)
          /\ Has(queue', "RECORD_STOP", i) => Has(queue, "RECORD_STOP", i)
          /\ Has(queue', "RECORDMODE_ON", i) => Has(queue, "RECORDMODE_ON", i)
          /\ Has(queue', "RECORDMODE_OFF", i) => Has(queue, "RECORDMODE_OFF", i)
  BY <1>1 DEF Fewer, Followed
<1>3. \A j \in box.timed : Done(j) => Done(j)'
  BY <1>1, <1>2 DEF Done, Still
<1>4. \/ agenda' = agenda /\ (Beginning' <=> Beginning)
      \/ ~Beginning /\ ~Beginning'
  BY DEF Beginning
<1>5. NoShifts'
  BY <1>1, <1>2 DEF TurnsInv, NoShifts
<1>6. OnePlace'
  <2>1. ASSUME NEW i \in Timed,
               timers'[i] # "over" \/ Has(queue', "RECORD_START", i) \/ i \in {taping', nextRecordingInfo'}
        PROVE  i \in box.timed
    <3>1. i \in Ids /\ i # None
      BY <1>1
    <3>2. timers[i] # "over" \/ Has(queue, "RECORD_START", i) \/ i \in {taping, nextRecordingInfo}
      BY <1>2, <2>1, <3>1 DEF Still
    <3> QED BY <3>2 DEF TurnsInv, OnePlace
  <2>2. ASSUME taping' # None PROVE nextRecordingInfo' # taping' /\ ~Ahead(queue', timers', taping')
    <3>1. nextRecordingInfo # taping /\ ~Ahead(queue, timers, taping) /\ taping \in Ids /\ taping' = taping
      BY <1>1, <2>2 DEF TurnsInv, OnePlace
    <3>2. ~Ahead(queue', timers', taping)
      BY <1>2, <3>1 DEF Still, Ahead
    <3> QED BY <2>2, <3>1, <3>2
  <2> QED BY <2>1, <2>2 DEF OnePlace
<1>7. Turns'
  <2>1. Beginning' => Head(agenda').for \in Timed /\ taping' = None
    BY <1>4 DEF TurnsInv, Turns
  <2>2. ASSUME Has(queue', "RECORDMODE_OFF", None) \/ (taping' # None /\ ~recordingstatus')
        PROVE  \E j \in box.timed : Done(j)'
    <3>1. Has(queue, "RECORDMODE_OFF", None) \/ (taping # None /\ ~recordingstatus)
      BY <1>2, <2>2
    <3>2. \E j \in box.timed : Done(j)
      BY <3>1 DEF TurnsInv, Turns
    <3> QED BY <1>3, <3>2
  <2> QED BY <2>1, <2>2 DEF Turns
<1>8. Awaited'
  <2>1. ASSUME nextRecordingInfo' # None
        PROVE  taping' # None \/ Beginning' \/ (agenda' # <<>> /\ Head(agenda') = Do("next"))
    <3>1. taping # None \/ Beginning \/ (agenda # <<>> /\ Head(agenda) = Do("next"))
      BY <2>1 DEF TurnsInv, Awaited
    <3> QED BY <1>4, <3>1 DEF Do
  <2> QED BY <2>1 DEF Awaited, Do
<1>9. Ended'
  <2>1. ASSUME taping' = None, ~Beginning', recordingstatus' \/ Has(queue', "RECORDMODE_ON", None)
        PROVE  \A j \in box.timed : Done(j)'
    <3>1. taping = None /\ ~Beginning /\ (recordingstatus \/ Has(queue, "RECORDMODE_ON", None))
      BY <1>2, <1>4, <2>1
    <3>2. \A j \in box.timed : Done(j)
      BY <3>1 DEF TurnsInv, Ended
    <3> QED BY <1>3, <3>2
  <2> QED BY <2>1 DEF Ended
<1>10. EndsLast'
  <2>1. ASSUME NEW k \in Timed, Has(queue', "RECORD_STOP", k)
        PROVE  /\ ~Has(queue', "RECORD_START", k)
               /\ (taping' = k /\ Has(queue', "RECORDMODE_ON", None)) \/ nextRecordingInfo' = k =>
                      \A j \in box.timed \ {k} : Done(j)' \/ taping' = j
    <3>1. k \in Ids /\ k # None
      BY <1>1
    <3>2. /\ ~Has(queue, "RECORD_START", k)
          /\ (taping = k /\ Has(queue, "RECORDMODE_ON", None)) \/ nextRecordingInfo = k =>
                 \A j \in box.timed \ {k} : Done(j) \/ taping = j
      BY <1>2, <2>1, <3>1 DEF TurnsInv, EndsLast
    <3> QED BY <1>2, <1>3, <3>1, <3>2
  <2> QED BY <2>1 DEF EndsLast
<1> QED BY <1>5, <1>6, <1>7, <1>8, <1>9, <1>10 DEF TurnsInv

\* What a queue is after a message more or less.
LEMMA FewerRest == ASSUME NEW q \in Seq(Sent), q # <<>> PROVE Fewer(q, Tail(q))
  BY HasRest DEF Fewer

LEMMA FewerSame == \A q : Fewer(q, q)
  BY DEF Fewer

LEMMA FewerMore ==
    ASSUME NEW q \in Seq(Sent), NEW e \in Sent, e.msg \notin Followed PROVE Fewer(q, Append(q, e))
  BY HasMore DEF Fewer

LEMMA StillSame == \A ts : Still(ts, ts)
  BY DEF Still

\* Without a timeshift there is none to be left.
LEMMA LeaveNothing ==
    ASSUME NEW q, ~autoshift, LeaveTimeshift(q)
    PROVE  queue' = q /\ UNCHANGED <<autoshift, shift_timer, recorder, timers, recording_id, recordingstatus>>
  BY DEF LeaveTimeshift

\* Where handlers begin.
LEMMA HandlerBegins ==
    ASSUME IInv, StatusInv, Receptive
    PROVE  /\ ~Beginning /\ Idle(agenda) /\ agenda \in Seq(Tasks)
           /\ agenda # <<>> => Head(agenda).do \notin {"next", "leaveShift"}
  BY IdleNow, TypesNow DEF StatusInv, Receptive, Dialog, Beginning

\* Where they end.
LEMMA HandlerEnds ==
    ASSUME agenda' \in Seq(Tasks), Idle(agenda')
    PROVE  ~Beginning' /\ (agenda' # <<>> => Head(agenda').do # "leaveShift")
<1>1. agenda' # <<>> => Head(agenda').do \notin Busy
  BY IdleRest
<1> QED BY <1>1 DEF Beginning, Busy

LEMMA MessagesAreCalm ==
    ASSUME IInv, StatusInv, TwoTimers, TurnsInv, box' = box,
           HandleZapComplete \/ HandleAnnounceRecord \/ \E on \in BOOLEAN : HandleRecordMode(on)
    PROVE  TurnsInv'
<1>1. \E m : Receives(m)
  BY DEF HandleZapComplete, HandleAnnounceRecord, HandleRecordMode
<1>2. Receptive /\ queue # <<>> /\ queue \in Seq(Sent) /\ ~Beginning
      /\ Fewer(queue, Rest) /\ Still(timers, timers)
  <2>1. Receptive /\ queue # <<>> /\ queue \in Seq(Sent)
    BY <1>1, TypesNow DEF Receives
  <2> QED BY <2>1, HandlerBegins, FewerRest, StillSame DEF Rest
<1>3. /\ ~autoshift /\ ~wasshift /\ shift_timer = "off" /\ ~IsSet("auto_timeshift")
      /\ {recordingstatus, autoshift, wasshift} \subseteq BOOLEAN
  BY Alone, TypesNow DEF TurnsInv, NoShifts
<1>4. CASE HandleZapComplete
  <2>1. /\ queue' = Rest
        /\ UNCHANGED <<timers, agenda, recordingstatus, nextRecordingInfo, taping, autoshift, wasshift>>
        /\ shift_timer' = "off"
    BY <1>3, <1>4 DEF HandleZapComplete, recorder
  <2> QED BY <1>2, <1>3, <2>1, Calm DEF shift
<1>5. CASE HandleAnnounceRecord
  <2>1. queue' = Rest /\ UNCHANGED <<autoshift, shift_timer, recorder, timers, recording_id, recordingstatus>>
        /\ UNCHANGED <<agenda, nextRecordingInfo, wasshift>>
    BY <1>3, <1>5, LeaveNothing DEF HandleAnnounceRecord
  <2> QED BY <1>2, <2>1, Calm DEF shift, recorder
<1>6. ASSUME NEW on \in BOOLEAN, HandleRecordMode(on) PROVE TurnsInv'
  <2>1. /\ queue' = Rest /\ UNCHANGED <<timers, agenda, nextRecordingInfo, shift, taping>>
        /\ recordingstatus' = on /\ Head(queue).msg = RecordMode(on).msg
    BY <1>6 DEF HandleRecordMode, Receives, recorder
  <2>2. Has(queue, RecordMode(on).msg, None)
    <3>1. Has(queue, RecordMode(on).msg, Head(queue).timer) /\ Head(queue).timer \in Ids \cup {None}
      BY <1>2, <2>1, HasRest, TypesNow DEF Sent
    <3>2. RecordMode(on).msg \in Modes
      BY ModeNames
    <3> QED BY <3>1, <3>2 DEF TurnsInv, NoShifts
  <2>3. (on => Has(queue, "RECORDMODE_ON", None)) /\ (~on => Has(queue, "RECORDMODE_OFF", None))
    BY <2>2 DEF RecordMode, Msg
  <2> QED BY <1>2, <2>1, <2>3, Calm
<1> QED BY <1>4, <1>5, <1>6

LEMMA StandbyIsCalm ==
    ASSUME IInv, StatusInv, TwoTimers, TurnsInv, box' = box,
           PressStandby \/ \E on \in BOOLEAN : HandleStandby(on)
    PROVE  TurnsInv'
<1>1. /\ ~autoshift /\ ~wasshift /\ {autoshift, wasshift, recordingstatus} \subseteq BOOLEAN
      /\ queue \in Seq(Sent)
  BY TypesNow DEF TurnsInv, NoShifts
<1>2. ASSUME NEW q, NEW on \in BOOLEAN, Fewer(queue, q), Receptive, nextRecordingInfo' = nextRecordingInfo,
             StandbyMode(q, on)
      PROVE  TurnsInv'
  <2>1. /\ ~Beginning /\ Idle(agenda) /\ agenda \in Seq(Tasks)
        /\ agenda # <<>> => Head(agenda).do # "next"
    BY <1>2, HandlerBegins
  <2>2. {"sleep", "wake", "tv", "reshift"} \subseteq Pieces \ Busy
    BY DEF Pieces, Busy
  <2>3. agenda' \in Seq(Tasks) /\ Idle(agenda')
    <3>1. CASE agenda' = <<Do("sleep")>> \o agenda
      BY <2>1, <2>2, <3>1, IdleUnder
    <3>2. CASE agenda' = <<Do("wake"), Do("tv"), Do("reshift")>> \o agenda
      <4>1. Do("wake") \in Tasks /\ Do("tv") \in Tasks /\ Do("reshift") \in Tasks
        BY TaskTypes DEF Pieces
      <4>2. agenda' = <<Do("wake")>> \o (<<Do("tv")>> \o (<<Do("reshift")>> \o agenda))
        BY <2>1, <3>2, <4>1, StackedThree
      <4> QED BY <2>1, <2>2, <4>2, IdleUnder
    <3> QED BY <1>2, <3>1, <3>2 DEF StandbyMode, Call
  <2>4. queue' = q /\ UNCHANGED <<timers, recordingstatus, taping, shift>>
    <3>1. CASE on
      <4>1. /\ queue' = q
            /\ UNCHANGED <<autoshift, shift_timer, recorder, timers, recording_id, recordingstatus>>
        BY <1>1, <1>2, <3>1, LeaveNothing DEF StandbyMode
      <4>2. wasshift' = wasshift
        BY <1>1, <1>2, <3>1 DEF StandbyMode
      <4> QED BY <4>1, <4>2 DEF shift, recorder
    <3>2. CASE ~on
      BY <1>2, <3>2 DEF StandbyMode, recorder
    <3> QED BY <3>1, <3>2
  <2> QED BY <1>1, <1>2, <2>1, <2>3, <2>4, HandlerEnds, StillSame, Calm
<1>3. CASE PressStandby
  <2>1. /\ Receptive /\ StandbyMode(queue, mode # "standby") /\ nextRecordingInfo' = nextRecordingInfo
    BY <1>3 DEF PressStandby, Key, Receptive
  <2> QED BY <1>2, <2>1, FewerSame
<1>4. ASSUME NEW on \in BOOLEAN, HandleStandby(on) PROVE TurnsInv'
  <2>1. Receptive /\ queue # <<>> /\ nextRecordingInfo' = nextRecordingInfo
    BY <1>4 DEF HandleStandby, Receives
  <2>2. Fewer(queue, Rest)
    BY <1>1, <2>1, FewerRest DEF Rest
  <2>3. CASE StandbyMode(Rest, on)
    BY <1>2, <2>1, <2>2, <2>3
  <2>4. CASE queue' = Rest /\ UNCHANGED <<timers, agenda, recordingstatus, shift, recorder>>
    BY <1>1, <2>1, <2>2, <2>4, StillSame, Calm DEF recorder
  <2> QED BY <1>4, <2>3, <2>4 DEF HandleStandby
<1> QED BY <1>3, <1>4

LEMMA ZapIsCalm ==
    ASSUME IInv, StatusInv, TwoTimers, TurnsInv, box' = box, PressZap \/ ZapDone
    PROVE  TurnsInv'
<1>1. ~autoshift /\ {autoshift, recordingstatus} \subseteq BOOLEAN /\ queue \in Seq(Sent)
  BY TypesNow DEF TurnsInv, NoShifts
<1>2. CASE PressZap
  <2>1. LeaveTimeshift(queue) /\ UNCHANGED <<agenda, nextRecordingInfo, wasshift>>
    BY <1>2 DEF PressZap
  <2>2. /\ queue' = queue
        /\ UNCHANGED <<autoshift, shift_timer, recorder, timers, recording_id, recordingstatus>>
    BY <1>1, <2>1, LeaveNothing
  <2> QED BY <1>1, <2>1, <2>2, FewerSame, StillSame, Calm DEF shift, recorder
<1>3. CASE ZapDone
  <2>1. ZapComplete \in Sent /\ ZapComplete.msg \notin Followed
    BY SentMessages DEF ZapComplete, Msg, Modes, Followed
  <2>2. queue' = Append(queue, ZapComplete)
        /\ UNCHANGED <<agenda, nextRecordingInfo, shift, recorder, timers, recordingstatus>>
    BY <1>3 DEF ZapDone
  <2>3. Fewer(queue, queue')
    BY <1>1, <2>1, <2>2, FewerMore
  <2> QED BY <1>1, <2>2, <2>3, StillSame, Calm DEF recorder
<1> QED BY <1>2, <1>3

LEMMA SendersAreCalm ==
    ASSUME IInv, StatusInv, TwoTimers, TurnsInv, box' = box,
           \/ \E m \in {"STANDBY_ON", "STANDBY_OFF"} : ClientSends(m)
           \/ \E i \in Timed : TimerAnnounced(i)
    PROVE  TurnsInv'
<1>1. queue \in Seq(Sent) /\ timers \in [Ids -> States] /\ recordingstatus \in BOOLEAN
  BY TypesNow
<1>2. ASSUME NEW m \in {"STANDBY_ON", "STANDBY_OFF"}, ClientSends(m) PROVE TurnsInv'
  <2>1. Msg(m, None) \in Sent /\ Msg(m, None).msg \notin Followed
    BY SentMessages DEF Messages, Msg, Modes, Followed
  <2>2. queue' = Append(queue, Msg(m, None))
        /\ UNCHANGED <<agenda, nextRecordingInfo, shift, recorder, timers, recordingstatus>>
    BY <1>2 DEF ClientSends
  <2>3. Fewer(queue, queue')
    BY <1>1, <2>1, <2>2, FewerMore
  <2> QED BY <1>1, <2>2, <2>3, StillSame, Calm DEF recorder
<1>3. ASSUME NEW i \in Timed, TimerAnnounced(i) PROVE TurnsInv'
  <2>1. i \in Ids /\ Msg("ANNOUNCE_RECORD", i) \in Sent /\ Msg("ANNOUNCE_RECORD", i).msg \notin Followed
    BY SentMessages DEF Messages, Msg, Modes, Followed, Ids
  <2>2. /\ queue' = Append(queue, Msg("ANNOUNCE_RECORD", i))
        /\ timers[i] = "waiting" /\ timers' = [timers EXCEPT ![i] = "announced"]
        /\ UNCHANGED <<agenda, nextRecordingInfo, shift, recorder, recordingstatus>>
    BY <1>3 DEF TimerAnnounced, Announces
  <2>3. Fewer(queue, queue')
    BY <1>1, <2>1, <2>2, FewerMore
  <2>4. Still(timers, timers')
    BY <1>1, <2>1, <2>2 DEF Still
  <2> QED BY <1>1, <2>2, <2>3, <2>4, Calm DEF recorder
<1> QED BY <1>2, <1>3

LEMMA PiecesAreCalm ==
    ASSUME IInv, StatusInv, TwoTimers, TurnsInv, box' = box,
           Answer \/ Sleep \/ Wake \/ TvMode \/ Shifted \/ Reshift
    PROVE  TurnsInv'
<1>1. /\ agenda # <<>> /\ Head(agenda).do \in {"ask", "answer", "sleep", "wake", "tv", "shifted", "reshift"}
      /\ nextRecordingInfo' = nextRecordingInfo
  BY DEF Answer, Sleep, Wake, TvMode, Shifted, Reshift, Doing
<1>2. /\ ~autoshift /\ ~wasshift /\ {autoshift, wasshift, recordingstatus} \subseteq BOOLEAN
      /\ queue \in Seq(Sent)
      /\ timers \in [Ids -> States]
  BY TypesNow DEF TurnsInv, NoShifts
<1>3. Idle(agenda) /\ Idle(Tail(agenda)) /\ Tail(agenda) \in Seq(Tasks) /\ ~Beginning
      /\ Head(agenda).do # "next"
  BY <1>1, IdleNow, TypesNow DEF StatusInv, Beginning
<1>4. agenda' \in Seq(Tasks) /\ Idle(agenda')
  <2>1. "shifted" \in Pieces \ Busy
    BY DEF Pieces, Busy
  <2>2. agenda' = Tail(agenda) \/ agenda' = <<Do("shifted")>> \o Tail(agenda)
    BY <1>2 DEF Answer, Sleep, Wake, TvMode, Shifted, Reshift, Return, Continue
  <2> QED BY <1>3, <2>1, <2>2, IdleUnder
<1>5. queue' = queue /\ UNCHANGED <<recordingstatus, taping, shift>> /\ Still(timers, timers')
  <2>1. CASE TvMode
    <3>1. LeaveTimeshift(queue) /\ wasshift' = wasshift
      BY <2>1 DEF TvMode
    <3>2. /\ queue' = queue
          /\ UNCHANGED <<autoshift, shift_timer, recorder, timers, recording_id, recordingstatus>>
      BY <1>2, <3>1, LeaveNothing
    <3> QED BY <3>1, <3>2, StillSame DEF shift, recorder
  <2>2. CASE Answer
    <3>1. Still(timers, timers')
      <4>1. CASE AskToStop(recording_id)
        BY <1>2, <4>1 DEF AskToStop, Still
      <4>2. CASE timers' = timers
        BY <4>2, StillSame
      <4> QED BY <2>2, <4>1, <4>2 DEF Answer
    <3> QED BY <2>2, <3>1 DEF Answer, recorder
  <2>3. CASE Sleep \/ Wake
    BY <2>3, StillSame DEF Sleep, Wake, recorder
  <2>4. CASE Shifted
    BY <1>2, <2>4, StillSame DEF Shifted, recorder, shift
  <2>5. CASE Reshift
    BY <1>2, <2>5, StillSame DEF Reshift, recorder, shift
  <2> QED BY <2>1, <2>2, <2>3, <2>4, <2>5
<1> QED BY <1>1, <1>2, <1>3, <1>4, <1>5, HandlerEnds, FewerSame, Calm

-----------------------------------------------------------------------------
(* The steps that begin and end recordings. *)

\* A timer starts: its recording has not been asked for before.
LEMMA TimerStartsTakeTurns ==
    ASSUME IInv, StopInv, TwoTimers, TurnsInv, box' = box, NEW i \in Timed, TimerStarts(i) PROVE TurnsInv'
<1>1. /\ box.timed \subseteq Timed /\ Timed \subseteq Ids /\ None \notin Ids /\ i \in Ids
      /\ queue \in Seq(Sent) /\ timers \in [Ids -> States] /\ InOrder(queue, timers)
      /\ nextRecordingInfo \in Timed \cup {None} /\ taping \in Timed \cup {None}
  BY Alone, TypesNow DEF TurnsInv, NoShifts, StopInv
<1>2. /\ timers[i] \in {"waiting", "announced"} /\ timers' = [timers EXCEPT ![i] = "running"]
      /\ queue' = Append(queue, Msg("RECORD_START", i))
      /\ UNCHANGED <<agenda, recordingstatus, nextRecordingInfo, taping, autoshift, shift_timer, wasshift>>
  BY DEF TimerStarts, Announces, recorder, shift
<1>3. \A m, j : Has(queue', m, j) <=> Has(queue, m, j) \/ (m = "RECORD_START" /\ j = i)
  <2>1. /\ Msg("RECORD_START", i) \in Sent /\ Msg("RECORD_START", i).msg = "RECORD_START"
        /\ Msg("RECORD_START", i).timer = i
    BY SentMessages DEF Msg
  <2> QED BY <1>1, <1>2, <2>1, HasMore
<1>4. timers'[i] = "running" /\ \A j \in Ids : j # i => timers'[j] = timers[j]
  BY <1>1, <1>2
<1>5. i \in box.timed /\ taping # i /\ ~Has(queue, "RECORD_STOP", i)
  <2>1. i \in box.timed /\ taping # i
    BY <1>2, <1>1 DEF TurnsInv, OnePlace, Ahead
  <2>2. ~Has(queue, "RECORD_STOP", i)
    BY <1>1, <1>2, StopOf DEF Has
  <2> QED BY <2>1, <2>2
<1>6. \A j \in box.timed : Done(j) => Done(j)'
  BY <1>1, <1>2, <1>3, <1>4 DEF Done
<1>7. Beginning' <=> Beginning
  BY <1>2 DEF Beginning
<1>8. NoShifts'
  BY <1>2, <1>3 DEF TurnsInv, NoShifts, Modes
<1>9. OnePlace'
  <2>1. ASSUME NEW j \in Timed,
               timers'[j] # "over" \/ Has(queue', "RECORD_START", j) \/ j \in {taping', nextRecordingInfo'}
        PROVE  j \in box.timed
    BY <1>1, <1>2, <1>3, <1>4, <1>5, <2>1 DEF TurnsInv, OnePlace
  <2>2. ASSUME taping' # None PROVE nextRecordingInfo' # taping' /\ ~Ahead(queue', timers', taping')
    BY <1>1, <1>2, <1>3, <1>4, <1>5, <2>2 DEF TurnsInv, OnePlace, Ahead
  <2> QED BY <2>1, <2>2 DEF OnePlace
<1>10. Turns'
  <2>1. Beginning' => Head(agenda').for \in Timed /\ taping' = None
    BY <1>2, <1>7 DEF TurnsInv, Turns
  <2>2. Has(queue', "RECORDMODE_OFF", None) \/ (taping' # None /\ ~recordingstatus') =>
            \E j \in box.timed : Done(j)
    BY <1>2, <1>3 DEF TurnsInv, Turns
  <2> QED BY <1>6, <2>1, <2>2 DEF Turns
<1>11. Awaited'
  BY <1>2, <1>7 DEF TurnsInv, Awaited, Do
<1>12. Ended'
  <2>1. taping' = None /\ ~Beginning' /\ (recordingstatus' \/ Has(queue', "RECORDMODE_ON", None)) =>
            \A j \in box.timed : Done(j)
    BY <1>2, <1>3, <1>7 DEF TurnsInv, Ended
  <2> QED BY <1>6, <2>1 DEF Ended
<1>13. EndsLast'
  <2>1. ASSUME NEW k \in Timed, Has(queue', "RECORD_STOP", k)
        PROVE  /\ ~Has(queue', "RECORD_START", k)
               /\ (taping' = k /\ Has(queue', "RECORDMODE_ON", None)) \/ nextRecordingInfo' = k =>
                      \A j \in box.timed \ {k} : Done(j)' \/ taping' = j
    <3>1. /\ k # i /\ ~Has(queue, "RECORD_START", k)
          /\ (taping = k /\ Has(queue, "RECORDMODE_ON", None)) \/ nextRecordingInfo = k =>
                 \A j \in box.timed \ {k} : Done(j) \/ taping = j
      BY <1>3, <1>5, <2>1 DEF TurnsInv, EndsLast
    <3> QED BY <1>2, <1>3, <1>6, <3>1
  <2> QED BY <2>1 DEF EndsLast
<1> QED BY <1>8, <1>9, <1>10, <1>11, <1>12, <1>13 DEF TurnsInv

\* A timer ends: neither its start nor the beginning of its recording is still to be told.
LEMMA TimerStopsTakeTurns ==
    ASSUME IInv, StopInv, TwoTimers, TurnsInv, box' = box, NEW i \in Ids, TimerStops(i) PROVE TurnsInv'
<1>1. /\ box.timed \subseteq Timed /\ Timed \subseteq Ids /\ None \notin Ids /\ box.faults = {}
      /\ \A j, k, l \in box.timed : j = k \/ k = l \/ j = l
      /\ queue \in Seq(Sent) /\ timers \in [Ids -> States] /\ agenda \in Seq(Tasks)
      /\ nextRecordingInfo \in Timed \cup {None} /\ taping \in Timed \cup {None}
  BY Alone, TypesNow DEF TurnsInv, NoShifts
<1>2. /\ timers[i] \in {"running", "asked"} /\ timers' = [timers EXCEPT ![i] = "over"]
      /\ queue' = Append(queue, Msg("RECORD_STOP", i)) /\ ~Starting(i)
      /\ UNCHANGED <<agenda, recordingstatus, nextRecordingInfo, taping, autoshift, shift_timer, wasshift>>
  BY <1>1 DEF TimerStops, Announces, recorder, shift
<1>3. \A m, j : Has(queue', m, j) <=> Has(queue, m, j) \/ (m = "RECORD_STOP" /\ j = i)
  <2>1. /\ Msg("RECORD_STOP", i) \in Sent /\ Msg("RECORD_STOP", i).msg = "RECORD_STOP"
        /\ Msg("RECORD_STOP", i).timer = i
    BY SentMessages DEF Msg, Messages
  <2> QED BY <1>1, <1>2, <2>1, HasMore
<1>4. timers'[i] = "over" /\ \A j \in Ids : j # i => timers'[j] = timers[j]
  BY <1>1, <1>2
<1>5. /\ ~Has(queue, "RECORD_START", i)
      /\ Has(queue, "RECORDMODE_ON", None) => recording_id # i
      /\ nextRecordingInfo = i /\ agenda # <<>> => Head(agenda) # Do("next")
      /\ agenda # <<>> => Head(agenda).for # i
  <2>1. ASSUME NEW m, NEW j, Has(queue, m, j) PROVE [msg |-> m, timer |-> j] \in Range(queue)
    <3>1. PICK p \in DOMAIN queue : queue[p].msg = m /\ queue[p].timer = j
      BY <2>1 DEF Has
    <3>2. queue[p] \in Sent
      BY <1>1
    <3>3. queue[p] = [msg |-> m, timer |-> j]
      BY <3>1, <3>2 DEF Sent
    <3> QED BY <3>3 DEF Range
  <2>2. agenda # <<>> => Head(agenda) \in Range(agenda)
    <3>1. agenda # <<>> => 1 \in DOMAIN agenda /\ Head(agenda) = agenda[1]
      BY <1>1
    <3> QED BY <3>1 DEF Range
  <2> QED BY <1>2, <2>1, <2>2 DEF Starting, Msg, RecordMode
<1>6. \A j \in box.timed : Done(j) => Done(j)'
  BY <1>1, <1>2, <1>3, <1>4 DEF Done
<1>7. Beginning' <=> Beginning
  BY <1>2 DEF Beginning
<1>8. NoShifts'
  BY <1>2, <1>3 DEF TurnsInv, NoShifts, Modes
<1>9. OnePlace'
  <2>1. ASSUME NEW j \in Timed,
               timers'[j] # "over" \/ Has(queue', "RECORD_START", j) \/ j \in {taping', nextRecordingInfo'}
        PROVE  j \in box.timed
    BY <1>1, <1>2, <1>3, <1>4, <2>1 DEF TurnsInv, OnePlace
  <2>2. ASSUME taping' # None PROVE nextRecordingInfo' # taping' /\ ~Ahead(queue', timers', taping')
    BY <1>1, <1>2, <1>3, <1>4, <2>2 DEF TurnsInv, OnePlace, Ahead
  <2> QED BY <2>1, <2>2 DEF OnePlace
<1>10. Turns'
  <2>1. Beginning' => Head(agenda').for \in Timed /\ taping' = None
    BY <1>2, <1>7 DEF TurnsInv, Turns
  <2>2. Has(queue', "RECORDMODE_OFF", None) \/ (taping' # None /\ ~recordingstatus') =>
            \E j \in box.timed : Done(j)
    BY <1>2, <1>3 DEF TurnsInv, Turns
  <2> QED BY <1>6, <2>1, <2>2 DEF Turns
<1>11. Awaited'
  BY <1>2, <1>7 DEF TurnsInv, Awaited, Do
<1>12. Ended'
  <2>1. taping' = None /\ ~Beginning' /\ (recordingstatus' \/ Has(queue', "RECORDMODE_ON", None)) =>
            \A j \in box.timed : Done(j)
    BY <1>2, <1>3, <1>7 DEF TurnsInv, Ended
  <2> QED BY <1>6, <2>1 DEF Ended
<1>13. ASSUME i \in Timed PROVE ~(taping = i /\ Has(queue, "RECORDMODE_ON", None))
  <2>1. SUFFICES ASSUME taping = i, Has(queue, "RECORDMODE_ON", None) PROVE FALSE
    OBVIOUS
  <2>2. taping # None /\ ~Beginning
    BY <1>1, <2>1 DEF TurnsInv, Turns
  <2>3. recording_id = i
    BY <1>13, <2>1, <2>2 DEF StopInv, TapedEnds
  <2> QED BY <1>5, <2>1, <2>3
<1>14. ASSUME i \in Timed, nextRecordingInfo = i PROVE \A j \in box.timed \ {i} : taping = j
  <2>1. taping # None
    <3>1. ~Beginning
      <4>1. Beginning => Head(agenda).for = nextRecordingInfo /\ agenda # <<>>
        BY DEF StopInv, BeginsNext, TurnsInv, Turns, Beginning
      <4> QED BY <1>5, <1>14, <4>1
    <3> QED BY <1>1, <1>5, <1>14, <3>1 DEF TurnsInv, Awaited
  <2>2. taping # i /\ taping \in box.timed /\ i \in box.timed
    BY <1>1, <1>14, <2>1 DEF TurnsInv, OnePlace
  <2> QED BY <1>1, <2>2
<1>15. EndsLast'
  <2>1. ASSUME NEW k \in Timed, Has(queue', "RECORD_STOP", k)
        PROVE  /\ ~Has(queue', "RECORD_START", k)
               /\ (taping' = k /\ Has(queue', "RECORDMODE_ON", None)) \/ nextRecordingInfo' = k =>
                      \A j \in box.timed \ {k} : Done(j)' \/ taping' = j
    <3>1. CASE Has(queue, "RECORD_STOP", k)
      <4>1. /\ ~Has(queue, "RECORD_START", k)
            /\ (taping = k /\ Has(queue, "RECORDMODE_ON", None)) \/ nextRecordingInfo = k =>
                   \A j \in box.timed \ {k} : Done(j) \/ taping = j
        BY <3>1 DEF TurnsInv, EndsLast
      <4> QED BY <1>2, <1>3, <1>6, <4>1
    <3>2. CASE k = i
      BY <1>2, <1>3, <1>5, <1>13, <1>14, <3>2
    <3> QED BY <1>3, <2>1, <3>1, <3>2
  <2> QED BY <2>1 DEF EndsLast
<1> QED BY <1>8, <1>9, <1>10, <1>11, <1>12, <1>15 DEF TurnsInv

\* RECORD_START: what waits now was still to be asked for, and is asked for no more.
LEMMA RecordStartTakesTurns ==
    ASSUME IInv, StatusInv, StopInv, TwoTimers, TurnsInv, box' = box, HandleRecordStart PROVE TurnsInv'
<1> DEFINE i == Sender
<1>1. Receives("RECORD_START") /\ LeaveTimeshift(Rest) /\ EndDialog(<<Do("next")>>) /\ nextRecordingInfo' = i
      /\ wasshift' = wasshift
  BY DEF HandleRecordStart
<1>2. /\ box.timed \subseteq Timed /\ Timed \subseteq Ids /\ None \notin Ids /\ ~autoshift
      /\ queue \in Seq(Sent) /\ queue # <<>> /\ Head(queue).msg = "RECORD_START" /\ Head(queue) \in Sent
      /\ agenda \in Seq(Tasks) /\ ~Beginning
      /\ nextRecordingInfo \in Timed \cup {None} /\ taping \in Timed \cup {None}
  BY <1>1, Alone, TypesNow, ReceivesOrder DEF TurnsInv, NoShifts, Receives
<1>3. queue' = Rest /\ UNCHANGED <<autoshift, shift_timer, wasshift, taping, timers, recordingstatus>>
  BY <1>1, <1>2, LeaveNothing DEF recorder
<1>4. i \in Timed
  BY <1>2, ConstantsAssumption DEF Sender, Sent, Ids
<1>5. \A m, j : Has(queue, m, j) <=> Has(queue', m, j) \/ (m = "RECORD_START" /\ j = i)
  BY <1>2, <1>3, HasRest DEF Rest, Sender
<1>6. agenda' # <<>> /\ Head(agenda') = Do("next")
  <2> DEFINE under == IF ~Dialog THEN agenda
                      ELSE IF Head(agenda).do = "ask" THEN <<Do("answer")>> \o Tail(agenda)
                      ELSE Tail(agenda)
  <2>1. {Do("next"), Do("answer")} \subseteq Tasks
    BY TaskTypes DEF Pieces
  <2>2. Dialog => Tail(agenda) \in Seq(Tasks)
    BY TypesNow DEF Dialog
  <2>3. Dialog => <<Do("answer")>> \o Tail(agenda) \in Seq(Tasks)
    BY <2>1, <2>2, Stacked
  <2>4. under \in Seq(Tasks)
    BY <1>2, <2>2, <2>3
  <2>5. agenda' = <<Do("next")>> \o under
    BY <1>1 DEF EndDialog
  <2> HIDE DEF under
  <2> QED BY <2>1, <2>4, <2>5, Stacked
<1>7. Do("next").do = "next" /\ ~Beginning'
  BY <1>6 DEF Do, Beginning
<1> HIDE DEF i
<1>8. i \in box.timed /\ taping # i
  BY <1>2, <1>4, <1>5 DEF TurnsInv, OnePlace, Ahead
<1>9. \A j \in box.timed : Done(j) => j # i /\ Done(j)'
  BY <1>1, <1>3, <1>5 DEF Done
<1>10. NoShifts'
  BY <1>3, <1>5, <1>6, <1>7 DEF TurnsInv, NoShifts
<1>11. OnePlace'
  <2>1. ASSUME NEW j \in Timed,
               timers'[j] # "over" \/ Has(queue', "RECORD_START", j) \/ j \in {taping', nextRecordingInfo'}
        PROVE  j \in box.timed
    BY <1>1, <1>3, <1>5, <1>8, <2>1 DEF TurnsInv, OnePlace
  <2>2. ASSUME taping' # None PROVE nextRecordingInfo' # taping' /\ ~Ahead(queue', timers', taping')
    BY <1>1, <1>3, <1>5, <1>8, <2>2 DEF TurnsInv, OnePlace, Ahead
  <2> QED BY <2>1, <2>2 DEF OnePlace
<1>12. Turns'
  <2>1. Has(queue', "RECORDMODE_OFF", None) \/ (taping' # None /\ ~recordingstatus') =>
            \E j \in box.timed : Done(j)
    BY <1>3, <1>5 DEF TurnsInv, Turns
  <2> QED BY <1>7, <1>9, <2>1 DEF Turns
<1>13. Awaited'
  BY <1>6 DEF Awaited, Do
<1>14. Ended'
  <2>1. taping' = None /\ (recordingstatus' \/ Has(queue', "RECORDMODE_ON", None)) =>
            \A j \in box.timed : Done(j)
    BY <1>2, <1>3, <1>5 DEF TurnsInv, Ended
  <2> QED BY <1>9, <2>1 DEF Ended
<1>15. EndsLast'
  <2>1. ASSUME NEW k \in Timed, Has(queue', "RECORD_STOP", k)
        PROVE  /\ ~Has(queue', "RECORD_START", k)
               /\ (taping' = k /\ Has(queue', "RECORDMODE_ON", None)) \/ nextRecordingInfo' = k =>
                      \A j \in box.timed \ {k} : Done(j)' \/ taping' = j
    <3>1. /\ ~Has(queue, "RECORD_START", k)
          /\ taping = k /\ Has(queue, "RECORDMODE_ON", None) =>
                 \A j \in box.timed \ {k} : Done(j) \/ taping = j
      BY <1>5, <2>1 DEF TurnsInv, EndsLast
    <3>2. k # i
      BY <1>5, <3>1
    <3> QED BY <1>1, <1>3, <1>5, <1>9, <3>1, <3>2
  <2> QED BY <2>1 DEF EndsLast
<1> QED BY <1>10, <1>11, <1>12, <1>13, <1>14, <1>15 DEF TurnsInv

\* RECORD_STOP: the recording under way is over; the one that waits is looked for next.
LEMMA RecordStopTakesTurns ==
    ASSUME IInv, StatusInv, StopInv, TwoTimers, TurnsInv, box' = box, HandleRecordStop PROVE TurnsInv'
<1>1. /\ Receives("RECORD_STOP") /\ Receptive
      /\ UNCHANGED <<timers, recording_id, shift_timer, wasshift>>
  BY DEF HandleRecordStop, Receives
<1>2. /\ box.timed \subseteq Timed /\ Timed \subseteq Ids /\ None \notin Ids /\ ~autoshift
      /\ queue \in Seq(Sent) /\ queue # <<>> /\ Head(queue).msg = "RECORD_STOP" /\ InOrder(queue, timers)
      /\ agenda \in Seq(Tasks) /\ ~Beginning
      /\ (agenda # <<>> => Head(agenda).do \notin {"next", "leaveShift"})
      /\ nextRecordingInfo \in Timed \cup {None} /\ taping \in Timed \cup {None} /\ recmode \in BOOLEAN
      /\ device = "RECORD" <=> taping # None
      /\ recmode <=> taping # None
  BY <1>1, Alone, TypesNow, HandlerBegins, ReceivesKnows DEF TurnsInv, NoShifts, Receives, StopInv
<1>3. Rest \in Seq(Sent) /\ Fewer(queue, Rest) /\ Still(timers, timers')
  BY <1>1, <1>2, FewerRest, StillSame, ReceivesOrder DEF Rest
<1>4. Do("next").do = "next"
      /\ (AfterStop => agenda' # <<>> /\ Head(agenda') = Do("next"))
  <2> DEFINE e == Do("next")
  <2>1. e \in Tasks /\ e.do = "next" /\ e = Do("next")
    BY TaskTypes DEF Do, Pieces
  <2> HIDE DEF e
  <2>2. AfterStop => agenda' = <<e>> \o agenda
    BY <2>1 DEF AfterStop, Call
  <2> QED BY <1>2, <2>1, <2>2, Stacked
<1>5. CASE Sender = recording_id /\ device # "RECORD" /\ queue' = Rest /\ AfterStop
           /\ UNCHANGED <<recordingstatus, nextRecordingInfo, autoshift, recorder>>
  <2>1. ~Beginning' /\ Head(agenda').do # "leaveShift"
    BY <1>4, <1>5 DEF Beginning
  <2> QED BY <1>1, <1>2, <1>3, <1>5, <2>1, Calm DEF shift, recorder
<1>6. CASE queue' = Rest /\ nextRecordingInfo' = Dropped(Sender)
           /\ UNCHANGED <<agenda, recordingstatus, autoshift, recorder>>
  <2>1. nextRecordingInfo' \in {nextRecordingInfo, None}
    BY <1>6 DEF Dropped
  <2> QED BY <1>1, <1>2, <1>3, <1>6, <2>1, Calm DEF shift, recorder
<1>7. CASE Sender = recording_id /\ device = "RECORD" /\ Stop(Rest) /\ Reset /\ AfterStop
           /\ nextRecordingInfo' = nextRecordingInfo
  <2>0. PICK k : k = taping
    OBVIOUS
  <2>1. k \in Timed /\ k \in Ids /\ k = Sender /\ k \in box.timed /\ nextRecordingInfo # k
    <3>1. k # None
      BY <1>2, <1>7, <2>0
    <3>2. k \in Timed /\ recording_id = k
      BY <1>2, <2>0, <3>1 DEF StopInv, TapedEnds
    <3> QED BY <1>2, <1>7, <2>0, <3>1, <3>2 DEF TurnsInv, OnePlace
  <2>2. Has(queue, "RECORD_STOP", k) /\ timers[k] = "over" /\ ~Has(queue, "RECORD_START", k)
    <3>1. Has(queue, "RECORD_STOP", k)
      BY <1>2, <2>1, HasRest DEF Sender
    <3>2. timers[k] = "over"
      BY <1>2, <3>1, StopOf DEF Has
    <3> QED BY <2>1, <3>1, <3>2 DEF TurnsInv, EndsLast
  <2>3. /\ taping' = None /\ recordingstatus' = FALSE /\ autoshift' = FALSE
        /\ queue' = Append(Rest, RecordMode(FALSE))
    BY <1>2, <1>7 DEF Stop, RestoreNeutrino, UnsetRecordMode, Reset
  <2>4. \A m, j : Has(queue', m, j) => Has(queue, m, j) \/ (m = "RECORDMODE_OFF" /\ j = None)
    <3> DEFINE e == RecordMode(FALSE)
    <3>1. e \in Sent /\ e.msg = "RECORDMODE_OFF" /\ e.timer = None
      BY SentMessages DEF RecordMode, Msg
    <3> HIDE DEF e
    <3>2. \A m, j : Has(queue', m, j) => Has(Rest, m, j) \/ (m = "RECORDMODE_OFF" /\ j = None)
      <4>1. queue' = Append(Rest, e)
        BY <2>3 DEF e
      <4> QED BY <1>3, <3>1, <4>1, HasMore
    <3>3. \A m, j : Has(Rest, m, j) => Has(queue, m, j)
      BY <1>2, HasRest DEF Rest
    <3> QED BY <3>2, <3>3
  <2>5. ~Beginning' /\ agenda' # <<>> /\ Head(agenda') = Do("next") /\ Head(agenda').do = "next"
    BY <1>4, <1>7 DEF Beginning
  <2>6. Done(k)' /\ \A j \in box.timed : Done(j) => Done(j)'
    <3>1. Done(k)'
      BY <1>1, <1>2, <1>7, <2>1, <2>2, <2>3, <2>4 DEF Done
    <3>2. \A j \in box.timed : Done(j) => Done(j)'
      BY <1>1, <1>2, <1>7, <2>3, <2>4 DEF Done
    <3> QED BY <3>1, <3>2
  <2>7. NoShifts'
    BY <1>1, <1>2, <2>3, <2>4, <2>5 DEF TurnsInv, NoShifts
  <2>8. OnePlace'
    BY <1>1, <1>2, <1>7, <2>3, <2>4 DEF TurnsInv, OnePlace
  <2>9. Turns'
    BY <2>1, <2>5, <2>6 DEF Turns
  <2>10. Awaited'
    BY <2>5 DEF Awaited, Do
  <2>11. Ended'
    <3>1. ASSUME Has(queue', "RECORDMODE_ON", None), NEW j \in box.timed PROVE Done(j)'
      <4>1. Has(queue, "RECORDMODE_ON", None)
        BY <2>4, <3>1
      <4>2. j # k => Done(j)
        BY <2>0, <2>1, <2>2, <4>1 DEF TurnsInv, EndsLast
      <4> QED BY <2>6, <4>2
    <3> QED BY <2>3, <3>1 DEF Ended
  <2>12. EndsLast'
    <3>1. ASSUME NEW l \in Timed, Has(queue', "RECORD_STOP", l)
          PROVE  /\ ~Has(queue', "RECORD_START", l)
                 /\ (taping' = l /\ Has(queue', "RECORDMODE_ON", None)) \/ nextRecordingInfo' = l =>
                        \A j \in box.timed \ {l} : Done(j)' \/ taping' = j
      <4>1. /\ ~Has(queue, "RECORD_START", l)
            /\ nextRecordingInfo = l => \A j \in box.timed \ {l} : Done(j) \/ j = k
        BY <2>0, <2>4, <3>1 DEF TurnsInv, EndsLast
      <4>2. taping' # l
        BY <1>2, <2>3
      <4> QED BY <1>7, <2>4, <2>6, <4>1, <4>2
    <3> QED BY <3>1 DEF EndsLast
  <2> QED BY <2>7, <2>8, <2>9, <2>10, <2>11, <2>12 DEF TurnsInv
<1> QED BY <1>5, <1>6, <1>7 DEF HandleRecordStop

\* startNextRecording: there is no recording under way that looks ended, for a third timer is none.
LEMMA NextTakesTurns ==
    ASSUME IInv, StatusInv, StopInv, TwoTimers, TurnsInv, box' = box, StartNextRecording PROVE TurnsInv'
<1>1. /\ agenda # <<>> /\ Head(agenda).do = "next"
      /\ UNCHANGED <<queue, timers, recordingstatus, nextRecordingInfo, taping, autoshift, shift_timer, wasshift>>
  BY DEF StartNextRecording, Doing, recorder, shift
<1>2. /\ box.timed \subseteq Timed /\ \A i, j, k \in box.timed : i = j \/ j = k \/ i = k
      /\ Tail(agenda) \in Seq(Tasks) /\ Idle(Tail(agenda)) /\ ~Beginning
      /\ nextRecordingInfo \in Timed \cup {None} /\ taping \in Timed \cup {None} /\ None \notin Timed
      /\ recordingstatus \in BOOLEAN
  <2>1. Idle(agenda) /\ Idle(Tail(agenda))
    BY <1>1, IdleNow DEF StatusInv
  <2> QED BY <1>1, <2>1, Alone, TypesNow DEF TurnsInv, NoShifts, Beginning
<1>3. \A j : Done(j)' <=> Done(j)
  BY <1>1 DEF Done
<1>4. OnePlace' /\ EndsLast'
  BY <1>1, <1>3 DEF TurnsInv, OnePlace, EndsLast
<1>5. Has(queue', "RECORDMODE_OFF", None) \/ (taping' # None /\ ~recordingstatus') => \E j \in box.timed : Done(j)'
  BY <1>1, <1>3 DEF TurnsInv, Turns
<1>6. CASE MayStart /\ agenda' = <<Cut(nextRecordingInfo)>> \o Tail(agenda)
  <2>1. nextRecordingInfo \in Timed /\ ~recordingstatus
    BY <1>2, <1>6 DEF MayStart
  <2>2. taping = None
    <3>1. SUFFICES ASSUME taping # None PROVE FALSE
      OBVIOUS
    <3>2. taping \in box.timed /\ nextRecordingInfo \in box.timed /\ nextRecordingInfo # taping
      BY <1>2, <2>1, <3>1 DEF TurnsInv, OnePlace
    <3>3. PICK j \in box.timed : Done(j)
      BY <2>1, <3>1 DEF TurnsInv, Turns
    <3> QED BY <1>2, <3>2, <3>3 DEF Done
  <2>3. agenda' # <<>> /\ Head(agenda').do = "cut" /\ Head(agenda').for \in Timed
    <3>1. Cut(nextRecordingInfo) \in Tasks /\ Cut(nextRecordingInfo).do = "cut"
          /\ Cut(nextRecordingInfo).for = nextRecordingInfo
      BY <2>1, TaskTypes DEF Programs
    <3> QED BY <1>2, <1>6, <2>1, <3>1, Stacked
  <2>4. Beginning'
    BY <2>3 DEF Beginning
  <2>5. NoShifts'
    BY <1>1, <2>3 DEF TurnsInv, NoShifts
  <2>6. Turns' /\ Awaited' /\ Ended'
    BY <1>1, <1>5, <2>2, <2>3, <2>4 DEF Turns, Awaited, Ended
  <2> QED BY <1>4, <2>5, <2>6 DEF TurnsInv
<1>7. CASE ~MayStart /\ agenda' = Tail(agenda)
  <2>1. ~Beginning' /\ (agenda' # <<>> => Head(agenda').do # "leaveShift")
    BY <1>2, <1>7, HandlerEnds
  <2>2. NoShifts'
    BY <1>1, <2>1 DEF TurnsInv, NoShifts
  <2>3. Turns'
    BY <1>5, <2>1 DEF Turns
  <2>4. nextRecordingInfo # None => taping # None
    <3>1. SUFFICES ASSUME nextRecordingInfo # None, taping = None PROVE FALSE
      OBVIOUS
    <3>2. recordingstatus
      BY <1>2, <1>7, <3>1 DEF MayStart
    <3>3. \A j \in box.timed : Done(j)
      BY <1>2, <3>1, <3>2 DEF TurnsInv, Ended
    <3>4. nextRecordingInfo \in box.timed
      BY <1>2, <3>1 DEF TurnsInv, OnePlace
    <3> QED BY <3>3, <3>4 DEF Done
  <2>5. Awaited'
    BY <1>1, <2>4 DEF Awaited
  <2>6. Ended'
    BY <1>1, <1>2, <1>3 DEF TurnsInv, Ended
  <2> QED BY <1>4, <2>2, <2>3, <2>5, <2>6 DEF TurnsInv
<1> QED BY <1>6, <1>7 DEF StartNextRecording, Continue, Return

\* zapit is set to record mode and tells.
LEMMA CutTakesTurns ==
    ASSUME IInv, StatusInv, StopInv, TwoTimers, TurnsInv, box' = box, CutBackNeutrino PROVE TurnsInv'
<1> DEFINE open == [do |-> "open", for |-> Head(agenda).for]
<1>1. /\ agenda # <<>> /\ Head(agenda).do = "cut" /\ agenda' = <<open>> \o Tail(agenda)
      /\ UNCHANGED <<timers, recordingstatus, nextRecordingInfo, taping, autoshift, shift_timer, wasshift>>
  BY DEF CutBackNeutrino, Doing, Continue, recorder, shift
<1>2. /\ Tail(agenda) \in Seq(Tasks) /\ Head(agenda).for \in Programs /\ Beginning
      /\ box.timed \subseteq Timed /\ Timed \subseteq Ids /\ None \notin Ids
      /\ taping = None /\ Head(agenda).for \in Timed
  <2>1. Tail(agenda) \in Seq(Tasks) /\ Head(agenda).for \in Programs /\ Beginning
    BY <1>1, IdleNow, TypesNow DEF StatusInv, Beginning
  <2> QED BY <2>1, Alone DEF TurnsInv, Turns
<1>3. open \in Tasks /\ open.do = "open" /\ open.for = Head(agenda).for
  BY <1>2, TaskTypes DEF Pieces
<1> HIDE DEF open
<1>4. agenda' # <<>> /\ Head(agenda').do = "open" /\ Head(agenda').for = Head(agenda).for
  BY <1>1, <1>2, <1>3, Stacked
<1>5. Beginning'
  BY <1>4 DEF Beginning
<1>6. \A m, j : m \in Followed /\ Has(queue', m, j) => Has(queue, m, j) \/ (m = "RECORDMODE_ON" /\ j = None)
  <2> DEFINE on == RecordMode(TRUE)
             r == ZapComplete
  <2>1. on \in Sent /\ on.msg = "RECORDMODE_ON" /\ on.timer = None /\ r \in Sent /\ r.msg \notin Followed
    BY SentMessages DEF RecordMode, ZapComplete, Msg, Followed, Modes
  <2>2. PICK z \in {queue, Append(queue, r)} : z \in Seq(Sent) /\ queue' = IF recmode THEN z ELSE Append(z, on)
    BY CutSends
  <2> HIDE DEF on, r
  <2>3. queue \in Seq(Sent)
    BY TypesNow
  <2>4. \A m, j : m \in Followed /\ Has(z, m, j) => Has(queue, m, j)
    <3>1. CASE z = queue
      BY <3>1
    <3>2. CASE z = Append(queue, r)
      <4>1. \A m, j : Has(z, m, j) <=> Has(queue, m, j) \/ (r.msg = m /\ r.timer = j)
        BY <2>1, <2>3, <3>2, HasMore
      <4> QED BY <2>1, <4>1
    <3> QED BY <2>2, <3>1, <3>2
  <2>5. \A m, j : Has(queue', m, j) => Has(z, m, j) \/ (m = "RECORDMODE_ON" /\ j = None)
    BY <2>1, <2>2, HasMore
  <2> QED BY <2>4, <2>5
<1>7. {"RECORD_START", "RECORD_STOP", "RECORDMODE_ON", "RECORDMODE_OFF"} = Followed
      /\ Modes = {"RECORDMODE_ON", "RECORDMODE_OFF"}
  BY DEF Followed, Modes
<1>8. \A j \in box.timed : Done(j) => Done(j)'
  BY <1>1, <1>6, <1>7 DEF Done
<1>9. NoShifts'
  BY <1>1, <1>2, <1>4, <1>6, <1>7 DEF TurnsInv, NoShifts
<1>10. OnePlace'
  BY <1>1, <1>2, <1>6, <1>7 DEF TurnsInv, OnePlace
<1>11. Turns'
  <2>1. Has(queue', "RECORDMODE_OFF", None) => \E j \in box.timed : Done(j)
    BY <1>6, <1>7 DEF TurnsInv, Turns
  <2> QED BY <1>1, <1>2, <1>4, <1>8, <2>1 DEF Turns
<1>12. Awaited' /\ Ended'
  BY <1>5 DEF Awaited, Ended
<1>13. EndsLast'
  <2>1. ASSUME NEW k \in Timed, Has(queue', "RECORD_STOP", k)
        PROVE  /\ ~Has(queue', "RECORD_START", k)
               /\ (taping' = k /\ Has(queue', "RECORDMODE_ON", None)) \/ nextRecordingInfo' = k =>
                      \A j \in box.timed \ {k} : Done(j)' \/ taping' = j
    <3>1. /\ ~Has(queue, "RECORD_START", k)
          /\ nextRecordingInfo = k => \A j \in box.timed \ {k} : Done(j) \/ taping = j
      BY <1>6, <1>7, <2>1 DEF TurnsInv, EndsLast
    <3>2. taping' # k
      BY <1>1, <1>2
    <3> QED BY <1>1, <1>6, <1>7, <1>8, <3>1, <3>2
  <2> QED BY <2>1 DEF EndsLast
<1> QED BY <1>9, <1>10, <1>11, <1>12, <1>13 DEF TurnsInv

\* The recording that waited begins, and waits no more.
LEMMA OpenTakesTurns ==
    ASSUME IInv, StatusInv, StopInv, TwoTimers, TurnsInv, box' = box, StartRecording PROVE TurnsInv'
<1> DEFINE i == Head(agenda).for
<1>1. /\ agenda # <<>> /\ Head(agenda).do = "open" /\ agenda' = Tail(agenda) /\ taping' = i
      /\ UNCHANGED <<queue, autoshift, shift_timer, wasshift>>
  BY DEF StartRecording, Doing, Return, shift
<1>2. Beginning
  BY <1>1 DEF Beginning
<1>3. /\ Tail(agenda) \in Seq(Tasks) /\ Idle(Tail(agenda))
      /\ box.timed \subseteq Timed /\ None \notin Timed /\ taping = None
      /\ i \in Timed /\ nextRecordingInfo = i
  <2>1. Tail(agenda) \in Seq(Tasks) /\ Idle(Tail(agenda))
    BY <1>1, IdleNow, TypesNow DEF StatusInv
  <2> QED BY <1>2, <2>1, Alone DEF TurnsInv, Turns, StopInv, BeginsNext
<1>4. /\ recordingstatus' = TRUE /\ nextRecordingInfo' = None /\ timers' = timers
  BY <1>3 DEF StartRecording, Served
<1>5. ~Beginning' /\ (agenda' # <<>> => Head(agenda').do # "leaveShift")
  BY <1>1, <1>3, HandlerEnds
<1> HIDE DEF i
<1>6. i \in box.timed /\ ~Ahead(queue, timers, i)
  BY <1>3 DEF TurnsInv, OnePlace, StopInv, WaitingEndsLater
<1>7. \A j \in box.timed : Done(j) => Done(j)'
  BY <1>1, <1>3, <1>4 DEF Done
<1>8. NoShifts'
  BY <1>1, <1>3, <1>5 DEF TurnsInv, NoShifts
<1>9. OnePlace'
  BY <1>1, <1>3, <1>4, <1>6 DEF TurnsInv, OnePlace
<1>10. Turns'
  <2>1. Has(queue, "RECORDMODE_OFF", None) => \E j \in box.timed : Done(j)
    BY DEF TurnsInv, Turns
  <2> QED BY <1>1, <1>4, <1>5, <1>7, <2>1 DEF Turns
<1>11. Awaited' /\ Ended'
  BY <1>1, <1>3, <1>4 DEF Awaited, Ended
<1>12. EndsLast'
  <2>1. ASSUME NEW k \in Timed, Has(queue', "RECORD_STOP", k)
        PROVE  /\ ~Has(queue', "RECORD_START", k)
               /\ (taping' = k /\ Has(queue', "RECORDMODE_ON", None)) \/ nextRecordingInfo' = k =>
                      \A j \in box.timed \ {k} : Done(j)' \/ taping' = j
    <3>1. /\ ~Has(queue, "RECORD_START", k)
          /\ nextRecordingInfo = k => \A j \in box.timed \ {k} : Done(j) \/ taping = j
      BY <1>1, <2>1 DEF TurnsInv, EndsLast
    <3> QED BY <1>1, <1>3, <1>4, <1>7, <3>1
  <2> QED BY <2>1 DEF EndsLast
<1> QED BY <1>8, <1>9, <1>10, <1>11, <1>12 DEF TurnsInv

LEMMA TurnsKept == ASSUME IInv, StatusInv, StopInv, TwoTimers, TurnsInv, Next PROVE TurnsInv'
<1>1. /\ box' = box /\ box.faults = {} /\ {"record", "timeshift", "menu"} \cap box.users = {}
      /\ shift_timer = "off" /\ ~autoshift /\ ~wasshift
      /\ agenda # <<>> => Head(agenda).do # "leaveShift"
  BY Alone DEF Next, TurnsInv, NoShifts
<1>2. ~PressRecord /\ ~PressTimeshift /\ ~MenuStop /\ ~ShiftTimer /\ ~ShiftTimerExpires
  BY <1>1 DEF PressRecord, PressTimeshift, MenuStop, Key, ShiftTimer, ShiftTimerExpires
<1>3. ~LeaveShift /\ ~FailRecording
  BY <1>1 DEF LeaveShift, FailRecording, Doing
<1>4. ~AfterFailure /\ ~CloseBox
  <2>1. agenda # <<>> => Head(agenda).do \notin {"box", "failed"}
    BY IdleRest, TypesNow DEF StatusInv, InShape, Busy
  <2> QED BY <2>1 DEF AfterFailure, CloseBox, Doing
<1>5. CASE Handlers
  BY <1>1, <1>2, <1>5, RecordStartTakesTurns, RecordStopTakesTurns, MessagesAreCalm, StandbyIsCalm
     DEF Handlers
<1>6. CASE PieceOfWork
  BY <1>1, <1>3, <1>4, <1>6, NextTakesTurns, CutTakesTurns, OpenTakesTurns, PiecesAreCalm DEF PieceOfWork
<1>7. CASE Keys \/ ZapDone
  BY <1>1, <1>2, <1>7, StandbyIsCalm, ZapIsCalm DEF Keys
<1>8. CASE \/ \E i \in Timed : TimerAnnounced(i) \/ TimerStarts(i)
           \/ TimerEnds \/ \E m \in {"STANDBY_ON", "STANDBY_OFF"} : ClientSends(m)
  BY <1>1, <1>8, TimerStartsTakeTurns, TimerStopsTakeTurns, SendersAreCalm DEF TimerEnds
<1> QED BY <1>2, <1>5, <1>6, <1>7, <1>8 DEF Next

LEMMA TurnsInvariance == Spec => [](TwoTimers => TurnsInv)
<1>1. Init /\ TwoTimers => TurnsInv
  <2> SUFFICES ASSUME Init, TwoTimers PROVE TurnsInv
    OBVIOUS
  <2>1. /\ agenda = <<>> /\ queue = <<>> /\ taping = None /\ ~recordingstatus /\ nextRecordingInfo = None
        /\ ~autoshift /\ ~wasshift /\ shift_timer = "off"
    BY DEF Init
  <2>2. timers = [i \in Ids |-> IF i \in box.timed THEN "waiting"
                               ELSE IF i \in box.manual THEN "unused" ELSE "over"]
    BY DEF Init
  <2>3. /\ box.manual \subseteq Manual /\ Timed \cap Manual = {} /\ None \notin Timed /\ Timed \subseteq Ids
    BY ConstantsAssumption DEF Init, Ids
  <2>4. \A m, i : ~Has(queue, m, i)
    BY <2>1 DEF Has
  <2>5. OnePlace
    <3>1. \A i \in Timed : timers[i] # "over" => i \in box.timed
      BY <2>2, <2>3
    <3> QED BY <2>1, <2>3, <2>4, <3>1 DEF OnePlace
  <2> QED BY <2>1, <2>4, <2>5 DEF TurnsInv, NoShifts, Turns, Beginning, Awaited, Ended, EndsLast
<1>2. /\ IInv /\ (Plain(box) => StatusInv) /\ (Plain(box) => StopInv) /\ (TwoTimers => TurnsInv)
      /\ [Next]_vars
      => (TwoTimers => TurnsInv)'
  <2>1. ASSUME TurnsInv, UNCHANGED vars PROVE TurnsInv'
    BY <2>1 DEF vars, shift, recorder, TurnsInv, NoShifts, OnePlace, Turns, Beginning, Awaited, Ended,
       EndsLast, Done
  <2>2. [Next]_vars => box' = box
    BY DEF Next, vars
  <2>3. box' = box => (TwoTimers' <=> TwoTimers)
    BY DEF TwoTimers, OnlyTimers, AtMostTwo, IsSet
  <2>4. IInv /\ TwoTimers => Plain(box)
    BY Alone
  <2> QED BY <2>1, <2>2, <2>3, <2>4, TurnsKept
<1> QED BY <1>1, <1>2, Invariance, StatusInvariance, StopInvariance, PTL DEF Spec

\* With two timers alone no recording is opened over another one: RECORD_START waits until the RECORD_STOP
\* of the recording under way has been read, whatever else is in the socket, and an EVT_RECORDMODE that is
\* read late makes a recording look ended only when the one of the other timer is over
\* (neutrino.cpp:2882-2961, 3683-3744).
THEOREM TimersTakeTheirTurns == Spec => []TimersTakeTurns
<1>1. IInv /\ (TwoTimers => TurnsInv) => TimersTakeTurns
  <2> SUFFICES ASSUME TwoTimers, TurnsInv, Doing("open") PROVE taping = None
    BY DEF TimersTakeTurns, OneRecording, TwoTimers
  <2> QED BY DEF Doing, Beginning, TurnsInv, Turns
<1> QED BY <1>1, Invariance, TurnsInvariance, PTL

\* With two timers alone, and when nothing is being handled, a recording that waits waits for one under way:
\* startNextRecording is never called for the last time while recordingstatus is still that of a recording
\* that has ended (neutrino.cpp:2900-2961, 3683-3744).
THEOREM WaitingStaysServed == Spec => []WaitingIsServed
<1>1. (TwoTimers => TurnsInv) => WaitingIsServed
  <2> SUFFICES ASSUME TwoTimers, TurnsInv, Quiet, nextRecordingInfo # None PROVE taping # None
    BY DEF WaitingIsServed, TwoTimers
  <2> QED BY DEF Quiet, Beginning, TurnsInv, Awaited
<1> QED BY <1>1, TurnsInvariance, PTL

-----------------------------------------------------------------------------
(* Recordings that are kept. *)

\* Boxes on which time shifts are begun by hand, and the television is switched on with a key.
ByKey(b) == Plain(b) /\ "auto_timeshift" \notin b.settings /\ "STANDBY_OFF" \notin b.users

\* A stack has a piece; a queue is free of a message.
Holds(s, piece) == \E p \in DOMAIN s : s[p].do = piece
Free(q, m)      == \A p \in DOMAIN q : q[p].msg # m

\* What is left of standbyMode(false).
Waking == {"wake", "tv", "reshift"}
Woken  == {<<Do("wake"), Do("tv"), Do("reshift")>>, <<Do("tv"), Do("reshift")>>, <<Do("reshift")>>}

\* While the recording is a timeshift nothing else is being written or begun, and no message tells
\* that it has ended.
Shifting ==
    autoshift => /\ recordingstatus /\ Free(queue, "RECORDMODE_OFF")
                 /\ IF Beginning THEN Head(agenda).for = "shift" ELSE taping = "shift"

\* standbyMode(false) runs with nothing below it and begins with an empty socket; until it resumes a
\* timeshift there is none to be left.
Wakes ==
    \/ \A piece \in Waking : ~Holds(agenda, piece)
    \/ /\ agenda \in Woken
       /\ Head(agenda).do = "wake" \/ wasshift => NoMode(queue)
       /\ wasshift => ~autoshift

\* A timeshift to be resumed has been left by standbyMode(true), or has just been resumed.
Resumes ==
    wasshift => \/ ~autoshift /\ (mode = "standby" \/ \E piece \in {"sleep"} \cup Waking : Holds(agenda, piece))
                \/ Holds(agenda, "shifted")

KeptInv ==
    /\ erased \subseteq {"shift"} /\ shift_timer = "off" /\ Free(queue, "STANDBY_OFF")
    /\ Shifting /\ Wakes /\ Resumes

LEMMA HoldsRest ==
    ASSUME NEW s \in Seq(Tasks), s # <<>>, NEW piece
    PROVE  Holds(s, piece) <=> Head(s).do = piece \/ Holds(Tail(s), piece)
<1> DEFINE r == Tail(s)
<1>1. /\ DOMAIN r = 1..(Len(s) - 1) /\ DOMAIN s = 1..Len(s) /\ Len(s) \in Nat /\ Len(s) > 0
      /\ Head(s) = s[1] /\ \A p \in 1..(Len(s) - 1) : r[p] = s[p + 1]
  BY QueueRest
<1> HIDE DEF r
<1>2. 1 \in DOMAIN s /\ \A p \in DOMAIN r : p + 1 \in DOMAIN s /\ r[p] = s[p + 1]
  BY <1>1
<1>3. \A p \in DOMAIN s : p = 1 \/ (p - 1 \in DOMAIN r /\ r[p - 1] = s[p])
  BY <1>1
<1>4. Holds(s, piece) => s[1].do = piece \/ Holds(r, piece)
  BY <1>3 DEF Holds
<1>5. s[1].do = piece \/ Holds(r, piece) => Holds(s, piece)
  BY <1>2 DEF Holds
<1> QED BY <1>1, <1>4, <1>5 DEF r

LEMMA HoldsUnder ==
    ASSUME NEW t \in Tasks, NEW s \in Seq(Tasks)
    PROVE  \A piece : Holds(<<t>> \o s, piece) <=> t.do = piece \/ Holds(s, piece)
<1> DEFINE r == <<t>> \o s
<1>1. r \in Seq(Tasks) /\ r # <<>> /\ Head(r) = t /\ Tail(r) = s
  BY Stacked
<1> HIDE DEF r
<1>2. \A piece : Holds(r, piece) <=> t.do = piece \/ Holds(s, piece)
  BY <1>1, HoldsRest
<1> QED BY <1>2 DEF r

LEMMA FreeMore ==
    ASSUME NEW q \in Seq(Sent), NEW e \in Sent, NEW m
    PROVE  /\ Free(Append(q, e), m) <=> Free(q, m) /\ e.msg # m
           /\ NoMode(q) /\ e.msg \notin Modes => NoMode(Append(q, e))
<1> DEFINE r == Append(q, e)
<1>1. /\ DOMAIN r = 1..(Len(q) + 1) /\ DOMAIN q = 1..Len(q) /\ Len(q) \in Nat /\ r[Len(q) + 1] = e
      /\ \A p \in 1..Len(q) : r[p] = q[p]
  BY QueueGrows
<1> HIDE DEF r
<1>2. Free(r, m) <=> Free(q, m) /\ e.msg # m
  BY <1>1 DEF Free
<1>3. NoMode(q) /\ e.msg \notin Modes => NoMode(r)
  BY <1>1 DEF NoMode
<1> QED BY <1>2, <1>3 DEF r

LEMMA FreeRest ==
    ASSUME NEW q \in Seq(Sent), q # <<>>, NEW m
    PROVE  Free(q, m) => Free(Tail(q), m) /\ Head(q).msg # m
<1>1. \A p \in DOMAIN Tail(q) : p + 1 \in DOMAIN q /\ Tail(q)[p] = q[p + 1]
  BY QueueRest
<1>2. 1 \in DOMAIN q /\ Head(q) = q[1]
  BY QueueRest
<1> QED BY <1>1, <1>2 DEF Free

\* Other pieces run with none of standbyMode(false) on the stack.
LEMMA NotWaking ==
    ASSUME IInv, KeptInv, agenda = <<>> \/ Head(agenda).do \notin Waking
    PROVE  \A piece \in Waking : ~Holds(agenda, piece)
<1>1. agenda \in Woken => agenda # <<>> /\ Head(agenda).do \in Waking
  BY DEF Woken, Waking, Do
<1> QED BY <1>1 DEF KeptInv, Wakes

LEMMA WokenNow ==
    ASSUME IInv, KeptInv, agenda # <<>>, Head(agenda).do \in Waking
    PROVE  /\ wasshift => ~autoshift /\ NoMode(queue)
           /\ Head(agenda).do = "wake" => NoMode(queue)
           /\ Head(agenda).do = "wake" => agenda = <<Do("wake"), Do("tv"), Do("reshift")>>
           /\ Head(agenda).do = "tv" => agenda = <<Do("tv"), Do("reshift")>>
           /\ Head(agenda).do = "reshift" => agenda = <<Do("reshift")>>
<1>1. agenda \in Seq(Tasks)
  BY TypesNow
<1>2. Holds(agenda, Head(agenda).do)
  BY <1>1, HoldsRest
<1>3. /\ agenda \in Woken /\ (wasshift => ~autoshift /\ NoMode(queue))
      /\ Head(agenda).do = "wake" => NoMode(queue)
  BY <1>2 DEF KeptInv, Wakes
<1>4. agenda \in Woken =>
        /\ Head(agenda).do = "wake" => agenda = <<Do("wake"), Do("tv"), Do("reshift")>>
        /\ Head(agenda).do = "tv" => agenda = <<Do("tv"), Do("reshift")>>
        /\ Head(agenda).do = "reshift" => agenda = <<Do("reshift")>>
  BY DEF Woken, Do
<1> QED BY <1>3, <1>4

\* A step of a handler that begins no timeshift.
LEMMA KeptOn ==
    ASSUME IInv, KeptInv, agenda = <<>> \/ Head(agenda).do \notin Waking,
           erased' \subseteq {"shift"}, shift_timer' = "off", Free(queue', "STANDBY_OFF"),
           Shifting', autoshift' => autoshift,
           wasshift' => wasshift \/ (~autoshift' /\ Holds(agenda', "sleep")),
           \A piece \in Waking : ~Holds(agenda', piece),
           Holds(agenda, "shifted") /\ wasshift' => Holds(agenda', "shifted"),
           mode' = "standby" \/ (mode' = mode /\ (Holds(agenda, "sleep") => Holds(agenda', "sleep")))
    PROVE  KeptInv'
<1>1. \A piece \in Waking : ~Holds(agenda, piece)
  BY NotWaking
<1>2. Wakes'
  BY DEF Wakes
<1>3. Resumes'
  <2>1. wasshift => \/ ~autoshift /\ (mode = "standby" \/ Holds(agenda, "sleep"))
                    \/ Holds(agenda, "shifted")
    BY <1>1 DEF KeptInv, Resumes
  <2>2. wasshift' => \/ ~autoshift' /\ (mode' = "standby" \/ Holds(agenda', "sleep"))
                     \/ Holds(agenda', "shifted")
    BY <2>1
  <2> QED BY <2>2 DEF Resumes
<1> QED BY <1>2, <1>3 DEF KeptInv

\* What leaving a timeshift leaves: only a timeshift is deleted.
LEMMA KeptLeave ==
    ASSUME IInv, KeptInv, ~Beginning, NEW q \in Seq(Sent), Free(q, "STANDBY_OFF"),
           \/ LeaveTimeshift(q)
           \/ autoshift /\ StopAutoRecord(q, recordingstatus)
           \/ ~autoshift /\ queue' = q /\ UNCHANGED <<autoshift, shift_timer, recorder>>
    PROVE  /\ ~autoshift' /\ erased' \subseteq {"shift"} /\ shift_timer' = "off"
           /\ Free(queue', "STANDBY_OFF")
           /\ ~autoshift => queue' = q
<1>1. {autoshift, recordingstatus, recmode} \subseteq BOOLEAN /\ shift_timer = "off" /\ erased \subseteq {"shift"}
      /\ RecordMode(FALSE) \in Sent
  BY TypesNow, SentMessages DEF KeptInv
<1>2. CASE autoshift
  <2>1. StopAutoRecord(q, recordingstatus) /\ recordingstatus /\ taping = "shift"
    BY <1>2 DEF LeaveTimeshift, KeptInv, Shifting
  <2>2. Stop(q) /\ autoshift' = FALSE /\ shift_timer' = shift_timer
    BY <1>2, <2>1 DEF StopAutoRecord
  <2>3. erased' \subseteq {"shift"}
    BY <1>1, <2>1, <2>2 DEF Stop, Deleted
  <2>4. Free(queue', "STANDBY_OFF")
    <3>1. queue' = Append(q, RecordMode(FALSE)) \/ queue' = q
      BY <2>2 DEF Stop, RestoreNeutrino, UnsetRecordMode
    <3>2. RecordMode(FALSE).msg # "STANDBY_OFF"
      BY DEF RecordMode, Msg
    <3> QED BY <1>1, <3>1, <3>2, FreeMore
  <2> QED BY <1>1, <1>2, <2>2, <2>3, <2>4
<1>3. CASE ~autoshift
  <2>1. queue' = q /\ UNCHANGED <<autoshift, shift_timer, recorder>>
    BY <1>3, LeaveNothing
  <2> QED BY <1>1, <1>3, <2>1 DEF recorder
<1> QED BY <1>1, <1>2, <1>3

\* Somebody sends a message.
LEMMA KeptSend ==
    ASSUME IInv, KeptInv, NEW e \in Sent, e.msg \notin Modes \cup {"STANDBY_OFF"}, queue' = Append(queue, e),
           UNCHANGED <<agenda, mode, recordingstatus, shift, taping, erased>>
    PROVE  KeptInv'
<1>1. queue \in Seq(Sent) /\ UNCHANGED <<autoshift, shift_timer, wasshift>> /\ e.msg # "RECORDMODE_OFF"
  BY TypesNow DEF shift, Modes
<1>2. /\ Free(queue, "STANDBY_OFF") => Free(queue', "STANDBY_OFF")
      /\ Free(queue, "RECORDMODE_OFF") => Free(queue', "RECORDMODE_OFF")
      /\ NoMode(queue) => NoMode(queue')
  BY <1>1, FreeMore
<1>3. Shifting'
  BY <1>1, <1>2 DEF KeptInv, Shifting, Beginning
<1>4. Wakes' /\ Resumes'
  BY <1>1, <1>2 DEF KeptInv, Wakes, Resumes
<1> QED BY <1>1, <1>2, <1>3, <1>4 DEF KeptInv

LEMMA SendersKeep ==
    ASSUME IInv, KeptInv, "STANDBY_OFF" \notin box.users,
           \/ \E i \in Timed : TimerAnnounced(i) \/ TimerStarts(i)
           \/ TimerEnds \/ ZapDone
           \/ \E m \in {"STANDBY_ON", "STANDBY_OFF"} : ClientSends(m)
    PROVE  KeptInv'
<1>1. ASSUME NEW i \in Timed, TimerAnnounced(i) \/ TimerStarts(i) PROVE KeptInv'
  <2>1. PICK m \in {"ANNOUNCE_RECORD", "RECORD_START"} :
          queue' = Append(queue, Msg(m, i)) /\ UNCHANGED <<agenda, mode, recordingstatus, shift, recorder>>
    BY <1>1 DEF TimerAnnounced, TimerStarts, Announces
  <2>2. Msg(m, i) \in Sent /\ Msg(m, i).msg = m
    BY SentMessages DEF Msg, Messages, Ids
  <2>3. m \notin Modes \cup {"STANDBY_OFF"}
    BY DEF Modes
  <2> QED BY <2>1, <2>2, <2>3, KeptSend DEF recorder
<1>2. ASSUME NEW i \in Ids, TimerStops(i) PROVE KeptInv'
  <2>1. /\ queue' = Append(queue, Msg("RECORD_STOP", i))
        /\ UNCHANGED <<agenda, mode, recordingstatus, shift, recorder>>
    BY <1>2 DEF TimerStops, Announces
  <2>2. Msg("RECORD_STOP", i) \in Sent /\ Msg("RECORD_STOP", i).msg \notin Modes \cup {"STANDBY_OFF"}
    BY SentMessages DEF Msg, Messages, Modes
  <2> QED BY <2>1, <2>2, KeptSend DEF recorder
<1>3. CASE ZapDone
  <2>1. ZapComplete \in Sent /\ ZapComplete.msg \notin Modes \cup {"STANDBY_OFF"}
    BY SentMessages DEF ZapComplete, Msg, Modes
  <2> QED BY <1>3, <2>1, KeptSend DEF ZapDone, recorder
<1>4. ASSUME NEW m \in {"STANDBY_ON", "STANDBY_OFF"}, ClientSends(m) PROVE KeptInv'
  <2>1. Msg("STANDBY_ON", None) \in Sent /\ Msg("STANDBY_ON", None).msg \notin Modes \cup {"STANDBY_OFF"}
    BY SentMessages DEF Msg, Messages, Modes
  <2>2. m = "STANDBY_ON"
    BY <1>4 DEF ClientSends
  <2> QED BY <1>4, <2>1, <2>2, KeptSend DEF ClientSends, recorder
<1> QED BY <1>1, <1>2, <1>3, <1>4 DEF TimerEnds

-----------------------------------------------------------------------------
\* Where handlers begin.
LEMMA KeptBegins ==
    ASSUME IInv, StatusInv, KeptInv, Receptive
    PROVE  /\ agenda \in Seq(Tasks) /\ Idle(agenda) /\ ~Beginning
           /\ agenda = <<>> \/ Head(agenda).do \notin Waking
           /\ \A piece \in Waking : ~Holds(agenda, piece)
           /\ queue \in Seq(Sent) /\ Free(queue, "STANDBY_OFF") /\ erased \subseteq {"shift"}
           /\ shift_timer = "off"
           /\ queue # <<>> => /\ Rest \in Seq(Sent) /\ Free(Rest, "STANDBY_OFF")
                              /\ Free(queue, "RECORDMODE_OFF") => Free(Rest, "RECORDMODE_OFF") /\
                                                                 Head(queue).msg # "RECORDMODE_OFF"
<1>1. /\ agenda \in Seq(Tasks) /\ Idle(agenda) /\ ~Beginning
      /\ agenda = <<>> \/ Head(agenda).do \notin Waking
  BY HandlerBegins DEF Receptive, Dialog, Waking
<1>2. /\ queue \in Seq(Sent) /\ Free(queue, "STANDBY_OFF") /\ erased \subseteq {"shift"}
      /\ shift_timer = "off"
      /\ queue # <<>> => Rest \in Seq(Sent)
  BY TypesNow DEF KeptInv, Rest
<1> QED BY <1>1, <1>2, NotWaking, FreeRest DEF Rest

\* A piece put on the stack by a handler that leaves or has no timeshift.
LEMMA KeptUnder ==
    ASSUME IInv, NEW s \in Seq(Tasks), NEW piece \in Pieces, agenda' = <<Do(piece)>> \o s
    PROVE  /\ agenda' # <<>> /\ Head(agenda').do = piece
           /\ \A p : Holds(agenda', p) <=> p = piece \/ Holds(s, p)
<1> DEFINE t == Do(piece)
<1>1. t \in Tasks /\ t.do = piece
  BY TaskTypes
<1> HIDE DEF t
<1>2. agenda' = <<t>> \o s
  BY DEF t
<1> QED BY <1>1, <1>2, Stacked, HoldsUnder

\* Messages that are only taken from the socket, and those that leave a timeshift.
LEMMA MessagesAreKept ==
    ASSUME IInv, StatusInv, KeptInv, box' = box, ~IsSet("auto_timeshift"),
           \/ HandleZapComplete \/ HandleAnnounceRecord
           \/ \E on \in BOOLEAN : HandleRecordMode(on)
    PROVE  KeptInv'
<1>1. Receptive /\ queue # <<>>
  BY DEF HandleZapComplete, HandleAnnounceRecord, HandleRecordMode, Receives
<1>2. /\ agenda \in Seq(Tasks) /\ Idle(agenda) /\ ~Beginning
      /\ agenda = <<>> \/ Head(agenda).do \notin Waking
      /\ \A piece \in Waking : ~Holds(agenda, piece)
      /\ erased \subseteq {"shift"} /\ shift_timer = "off"
      /\ Rest \in Seq(Sent) /\ Free(Rest, "STANDBY_OFF")
      /\ Free(queue, "RECORDMODE_OFF") => Free(Rest, "RECORDMODE_OFF") /\ Head(queue).msg # "RECORDMODE_OFF"
  BY <1>1, KeptBegins
<1>3. CASE HandleZapComplete
  <2>1. /\ queue' = Rest /\ UNCHANGED <<agenda, mode, recordingstatus, autoshift, wasshift, recorder>>
        /\ shift_timer' = "off"
    BY <1>3 DEF HandleZapComplete
  <2>2. Shifting'
    BY <1>2, <2>1 DEF KeptInv, Shifting, Beginning, recorder
  <2> QED BY <1>2, <2>1, <2>2, KeptOn DEF recorder
<1>4. CASE HandleAnnounceRecord
  <2>1. LeaveTimeshift(Rest) /\ UNCHANGED <<agenda, mode, wasshift>>
    BY <1>4 DEF HandleAnnounceRecord
  <2>2. ~autoshift' /\ erased' \subseteq {"shift"} /\ shift_timer' = "off" /\ Free(queue', "STANDBY_OFF")
    BY <1>2, <2>1, KeptLeave
  <2>3. Shifting'
    BY <2>2 DEF Shifting
  <2> QED BY <1>2, <2>1, <2>2, <2>3, KeptOn
<1>5. ASSUME NEW on \in BOOLEAN, HandleRecordMode(on) PROVE KeptInv'
  <2>1. /\ queue' = Rest /\ UNCHANGED <<agenda, mode, autoshift, shift_timer, wasshift, recorder>>
        /\ recordingstatus' = on /\ Head(queue).msg = RecordMode(on).msg
    BY <1>5 DEF HandleRecordMode, Receives, shift
  <2>2. Head(queue).msg # "RECORDMODE_OFF" => on
    BY <2>1 DEF RecordMode, Msg
  <2>3. Shifting'
    BY <1>2, <2>1, <2>2 DEF KeptInv, Shifting, Beginning, recorder
  <2> QED BY <1>2, <2>1, <2>3, KeptOn DEF recorder
<1> QED BY <1>3, <1>4, <1>5

LEMMA RecordStartIsKept == ASSUME IInv, StatusInv, KeptInv, HandleRecordStart PROVE KeptInv'
<1>1. /\ Receptive /\ queue # <<>> /\ LeaveTimeshift(Rest) /\ EndDialog(<<Do("next")>>)
      /\ UNCHANGED <<mode, wasshift>>
  BY DEF HandleRecordStart, Receives
<1>2. /\ agenda \in Seq(Tasks) /\ ~Beginning
      /\ agenda = <<>> \/ Head(agenda).do \notin Waking
      /\ \A piece \in Waking : ~Holds(agenda, piece)
      /\ Rest \in Seq(Sent) /\ Free(Rest, "STANDBY_OFF")
  BY <1>1, KeptBegins
<1>3. ~autoshift' /\ erased' \subseteq {"shift"} /\ shift_timer' = "off" /\ Free(queue', "STANDBY_OFF")
  BY <1>1, <1>2, KeptLeave
<1>4. \A p \in {"sleep", "shifted"} \cup Waking : Holds(agenda', p) <=> Holds(agenda, p)
  <2> DEFINE ans == Do("answer")
             under == IF ~Dialog THEN agenda
                      ELSE IF Head(agenda).do = "ask" THEN <<ans>> \o Tail(agenda)
                      ELSE Tail(agenda)
  <2>1. ans \in Tasks /\ ans.do = "answer"
    BY TaskTypes DEF Pieces
  <2>2. agenda' = <<Do("next")>> \o under
    BY <1>1 DEF EndDialog
  <2> HIDE DEF ans
  <2>3. /\ Dialog => /\ Tail(agenda) \in Seq(Tasks)
                     /\ \A p : Holds(agenda, p) <=> Head(agenda).do = p \/ Holds(Tail(agenda), p)
        /\ Dialog => /\ <<ans>> \o Tail(agenda) \in Seq(Tasks)
                     /\ \A p : Holds(<<ans>> \o Tail(agenda), p) <=> p = "answer" \/ Holds(Tail(agenda), p)
    <3>1. Dialog => agenda # <<>> /\ Tail(agenda) \in Seq(Tasks)
      BY TypesNow DEF Dialog
    <3>2. Dialog => \A p : Holds(agenda, p) <=> Head(agenda).do = p \/ Holds(Tail(agenda), p)
      BY <1>2, <3>1, HoldsRest
    <3> QED BY <2>1, <3>1, <3>2, Stacked, HoldsUnder
  <2>4. under \in Seq(Tasks)
    BY <1>2, <2>3
  <2>5. \A p \in {"sleep", "shifted"} \cup Waking : Holds(under, p) <=> Holds(agenda, p)
    <3>1. \A p \in {"sleep", "shifted"} \cup Waking : p \notin {"answer", "box", "ask"}
      BY DEF Waking
    <3>2. CASE ~Dialog
      BY <3>2
    <3>3. CASE Dialog
      <4>1. \A p \in {"sleep", "shifted"} \cup Waking : Holds(agenda, p) <=> Holds(Tail(agenda), p)
        BY <2>3, <3>1, <3>3 DEF Dialog
      <4> QED BY <2>3, <3>1, <3>3, <4>1
    <3> QED BY <3>2, <3>3
  <2> HIDE DEF under
  <2>6. \A p : Holds(agenda', p) <=> p = "next" \/ Holds(under, p)
    BY <2>2, <2>4, KeptUnder DEF Pieces
  <2> QED BY <2>5, <2>6 DEF Waking
<1>5. Shifting'
  BY <1>3 DEF Shifting
<1> QED BY <1>1, <1>2, <1>3, <1>4, <1>5, KeptOn

LEMMA RecordStopIsKept == ASSUME IInv, StatusInv, KeptInv, box' = box, HandleRecordStop PROVE KeptInv'
<1>1. Receptive /\ queue # <<>> /\ UNCHANGED <<mode, wasshift, shift_timer>> /\ Receives("RECORD_STOP")
  BY DEF HandleRecordStop, Receives
<1>2. /\ agenda \in Seq(Tasks) /\ Idle(agenda) /\ ~Beginning
      /\ agenda = <<>> \/ Head(agenda).do \notin Waking
      /\ \A piece \in Waking : ~Holds(agenda, piece)
      /\ erased \subseteq {"shift"} /\ shift_timer = "off"
      /\ Rest \in Seq(Sent) /\ Free(Rest, "STANDBY_OFF")
      /\ Free(queue, "RECORDMODE_OFF") => Free(Rest, "RECORDMODE_OFF")
      /\ device = "RECORD" <=> taping # None
  BY <1>1, KeptBegins, ReceivesKnows
<1>3. /\ \A p \in {"sleep", "shifted"} \cup Waking : Holds(agenda', p) <=> Holds(agenda, p)
      /\ ~Beginning'
  <2>1. agenda' = agenda \/ agenda' = <<Do("next")>> \o agenda
    BY DEF HandleRecordStop, AfterStop, Call
  <2>2. CASE agenda' = agenda
    BY <1>2, <2>2 DEF Beginning
  <2>3. CASE agenda' = <<Do("next")>> \o agenda
    <3>1. Head(agenda').do = "next" /\ \A p : Holds(agenda', p) <=> p = "next" \/ Holds(agenda, p)
      BY <1>2, <2>3, KeptUnder DEF Pieces
    <3> QED BY <3>1 DEF Waking, Beginning
  <2> QED BY <2>1, <2>2, <2>3
<1>4. CASE device = "RECORD" /\ Stop(Rest) /\ Reset
  <2>1. ~autoshift' /\ Free(queue', "STANDBY_OFF")
    <3>1. queue' = Append(Rest, RecordMode(FALSE)) \/ queue' = Rest
      BY <1>4 DEF Stop, RestoreNeutrino, UnsetRecordMode
    <3>2. RecordMode(FALSE).msg # "STANDBY_OFF" /\ RecordMode(FALSE) \in Sent
      BY SentMessages DEF RecordMode, Msg
    <3>3. Free(queue', "STANDBY_OFF")
      BY <1>2, <3>1, <3>2, FreeMore
    <3> QED BY <1>4, <3>3 DEF Reset
  <2>2. erased' \subseteq {"shift"}
    <3>1. autoshift => taping = "shift"
      BY <1>2 DEF KeptInv, Shifting
    <3> QED BY <1>2, <1>4, <3>1 DEF Stop, Deleted
  <2>3. Shifting'
    BY <2>1 DEF Shifting
  <2> QED BY <1>1, <1>2, <1>3, <2>1, <2>2, <2>3, KeptOn
<1>5. CASE queue' = Rest /\ UNCHANGED <<recordingstatus, autoshift, recorder>>
  <2>1. Shifting'
    BY <1>2, <1>3, <1>5 DEF KeptInv, Shifting, recorder
  <2> QED BY <1>1, <1>2, <1>3, <1>5, <2>1, KeptOn DEF recorder
<1> QED BY <1>4, <1>5 DEF HandleRecordStop

\* standbyMode(true) notes that a timeshift was left; standbyMode(false) begins with nothing else to do.
LEMMA StandbyIsKept ==
    ASSUME IInv, StatusInv, KeptInv, PressStandby \/ \E on \in BOOLEAN : HandleStandby(on) PROVE KeptInv'
<1>1. ASSUME NEW q \in Seq(Sent), Free(q, "STANDBY_OFF"), Receptive, StandbyMode(q, TRUE), mode' = mode
      PROVE  KeptInv'
  <2>1. LeaveTimeshift(q) /\ (wasshift' <=> wasshift \/ autoshift) /\ agenda' = <<Do("sleep")>> \o agenda
    BY <1>1 DEF StandbyMode, Call
  <2>2. /\ agenda \in Seq(Tasks) /\ ~Beginning
        /\ agenda = <<>> \/ Head(agenda).do \notin Waking
        /\ \A piece \in Waking : ~Holds(agenda, piece)
    BY <1>1, KeptBegins
  <2>3. ~autoshift' /\ erased' \subseteq {"shift"} /\ shift_timer' = "off" /\ Free(queue', "STANDBY_OFF")
    BY <1>1, <2>1, <2>2, KeptLeave
  <2>4. \A p : Holds(agenda', p) <=> p = "sleep" \/ Holds(agenda, p)
    BY <2>1, <2>2, KeptUnder DEF Pieces
  <2>5. Shifting' /\ "sleep" \notin Waking
    BY <2>3 DEF Shifting, Waking
  <2> QED BY <1>1, <2>1, <2>2, <2>3, <2>4, <2>5, KeptOn
<1>2. ASSUME NEW on \in BOOLEAN, HandleStandby(on) PROVE KeptInv'
  <2>1. /\ Receptive /\ queue # <<>> /\ Head(queue).msg = (IF on THEN "STANDBY_ON" ELSE "STANDBY_OFF")
        /\ mode' = mode
    BY <1>2 DEF HandleStandby, Receives
  <2>2. /\ agenda \in Seq(Tasks) /\ ~Beginning
        /\ agenda = <<>> \/ Head(agenda).do \notin Waking
        /\ \A piece \in Waking : ~Holds(agenda, piece)
        /\ erased \subseteq {"shift"} /\ shift_timer = "off" /\ queue \in Seq(Sent)
        /\ Free(queue, "STANDBY_OFF")
        /\ Rest \in Seq(Sent) /\ Free(Rest, "STANDBY_OFF")
        /\ Free(queue, "RECORDMODE_OFF") => Free(Rest, "RECORDMODE_OFF")
    BY <2>1, KeptBegins
  <2>3. on = TRUE
    <3>1. Head(queue).msg # "STANDBY_OFF"
      BY <2>1, <2>2, FreeRest
    <3> QED BY <2>1, <3>1
  <2>4. CASE StandbyMode(Rest, on)
    BY <1>1, <2>1, <2>2, <2>3, <2>4
  <2>5. CASE queue' = Rest /\ UNCHANGED <<agenda, recordingstatus, shift, recorder>>
    <3>1. Shifting'
      BY <2>2, <2>5 DEF KeptInv, Shifting, Beginning, recorder, shift
    <3> QED BY <2>1, <2>2, <2>5, <3>1, KeptOn DEF recorder, shift
  <2> QED BY <1>2, <2>4, <2>5 DEF HandleStandby
<1>3. CASE PressStandby
  <2>1. Receptive /\ agenda = <<>> /\ queue = <<>> /\ mode' = mode /\ StandbyMode(queue, mode # "standby")
    BY <1>3 DEF PressStandby, Key, Receptive
  <2>2. queue \in Seq(Sent) /\ Free(queue, "STANDBY_OFF") /\ ~Beginning
    BY <2>1, KeptBegins
  <2>3. CASE mode # "standby"
    BY <1>1, <2>1, <2>2, <2>3
  <2>4. CASE mode = "standby"
    <3>1. /\ queue' = queue /\ agenda' = <<Do("wake"), Do("tv"), Do("reshift")>> \o <<>>
          /\ UNCHANGED <<recordingstatus, shift, recorder>>
      BY <2>1, <2>4 DEF StandbyMode, Call
    <3>2. Do("wake") \in Tasks /\ Do("tv") \in Tasks /\ Do("reshift") \in Tasks
      BY TaskTypes DEF Pieces
    <3>3. agenda' = <<Do("wake"), Do("tv"), Do("reshift")>>
      <4>1. <<Do("wake"), Do("tv"), Do("reshift")>> \in Seq(Tasks)
        BY <3>2
      <4> QED BY <3>1, <4>1, ConcatEmptySeq
    <3>4. agenda' \in Woken /\ ~Beginning' /\ Holds(agenda', "wake")
      <4>1. agenda' \in Woken
        BY <3>3 DEF Woken
      <4>2. agenda' # <<>> /\ Head(agenda') = Do("wake") /\ 1 \in DOMAIN agenda' /\ agenda'[1] = Do("wake")
        BY <3>3
      <4> QED BY <4>1, <4>2 DEF Beginning, Holds, Do
    <3>5. wasshift => ~autoshift
      BY <2>1 DEF KeptInv, Resumes, Holds
    <3>6. NoMode(queue')
      BY <2>1, <3>1 DEF NoMode
    <3>7. Shifting'
      BY <2>2, <3>1, <3>4 DEF KeptInv, Shifting, recorder, shift
    <3>8. Wakes' /\ Resumes'
      BY <3>1, <3>4, <3>5, <3>6 DEF Wakes, Resumes, shift, Waking
    <3> QED BY <3>1, <3>7, <3>8 DEF KeptInv, recorder, shift
  <2> QED BY <2>3, <2>4
<1> QED BY <1>2, <1>3

\* Keys: a recording by hand and a timeshift begin only where recordingstatus says there is none.
LEMMA KeysAreKept ==
    ASSUME IInv, StatusInv, KeptInv, PressRecord \/ PressTimeshift \/ PressZap PROVE KeptInv'
<1>1. Receptive /\ agenda = <<>> /\ queue = <<>> /\ mode = "tv" /\ UNCHANGED <<mode, wasshift>>
  BY DEF PressRecord, PressTimeshift, PressZap, Key, Receptive, shift
<1>2. /\ agenda \in Seq(Tasks) /\ ~Beginning /\ queue \in Seq(Sent) /\ Free(queue, "STANDBY_OFF")
      /\ \A piece \in Waking : ~Holds(agenda, piece)
      /\ erased \subseteq {"shift"} /\ shift_timer = "off"
  BY <1>1, KeptBegins
<1>3. \A p : ~Holds(agenda, p)
  BY <1>1 DEF Holds
<1>4. CASE PressZap
  <2>1. LeaveTimeshift(queue) /\ agenda' = agenda
    BY <1>4 DEF PressZap
  <2>2. ~autoshift' /\ erased' \subseteq {"shift"} /\ shift_timer' = "off" /\ Free(queue', "STANDBY_OFF")
    BY <1>2, <2>1, KeptLeave
  <2>3. Shifting'
    BY <2>2 DEF Shifting
  <2> QED BY <1>1, <1>2, <1>3, <2>1, <2>2, <2>3, KeptOn
<1>5. CASE PressRecord
  <2>1. UNCHANGED <<queue, autoshift, shift_timer, wasshift, taping, erased>>
    BY <1>5 DEF PressRecord, shift, recorder
  <2>2. CASE recordingstatus /\ agenda' = <<Do("ask")>> \o agenda /\ recordingstatus' = recordingstatus
    <3>1. Head(agenda').do = "ask" /\ \A p : Holds(agenda', p) <=> p = "ask" \/ Holds(agenda, p)
      BY <1>2, <2>2, KeptUnder DEF Pieces
    <3>2. Shifting' /\ "ask" \notin Waking
      BY <1>2, <2>1, <2>2, <3>1 DEF KeptInv, Shifting, Beginning, Waking
    <3> QED BY <1>1, <1>2, <1>3, <2>1, <3>1, <3>2, KeptOn
  <2>3. CASE ~recordingstatus /\ agenda' = <<Do("leaveShift"), Cut("key")>> \o agenda
    <3> DEFINE below == <<Cut("key")>> \o agenda
               cut == Cut("key")
    <3>1. Do("leaveShift") \in Tasks /\ cut \in Tasks /\ cut.do = "cut"
      BY TaskTypes DEF Pieces, Programs
    <3>2. agenda' = <<Do("leaveShift")>> \o below
      BY <1>2, <2>3, <3>1, StackedTwo
    <3>3. below \in Seq(Tasks) /\ \A p : Holds(below, p) <=> p = "cut" \/ Holds(agenda, p)
      <4>1. below = <<cut>> \o agenda
        OBVIOUS
      <4> HIDE DEF cut, below
      <4> QED BY <1>2, <3>1, <4>1, Stacked, HoldsUnder
    <3> HIDE DEF below, cut
    <3>4. \A p : Holds(agenda', p) <=> p = "leaveShift" \/ Holds(below, p)
      BY <3>2, <3>3, KeptUnder DEF Pieces
    <3>5. ~autoshift
      BY <2>3 DEF KeptInv, Shifting
    <3>6. Shifting' /\ {"leaveShift", "cut"} \cap Waking = {}
      BY <2>1, <3>5 DEF Shifting, Waking
    <3> QED BY <1>1, <1>2, <1>3, <2>1, <3>3, <3>4, <3>5, <3>6, KeptOn
  <2> QED BY <1>5, <2>2, <2>3 DEF PressRecord, Call
<1>6. CASE PressTimeshift
  <2>1. /\ ~recordingstatus /\ autoshift' = TRUE /\ recordingstatus' = TRUE
        /\ agenda' = <<Cut("shift")>> \o agenda
        /\ UNCHANGED <<queue, shift_timer, wasshift, erased>>
    BY <1>6 DEF PressTimeshift, StartAutoRecord, Call, recorder
  <2> DEFINE cut == Cut("shift")
  <2>2. cut \in Tasks /\ cut.do = "cut" /\ cut.for = "shift" /\ agenda' = <<cut>> \o agenda
    BY <2>1, TaskTypes DEF Programs
  <2> HIDE DEF cut
  <2>3. agenda' # <<>> /\ Head(agenda') = cut /\ \A p : Holds(agenda', p) <=> p = "cut"
    BY <1>2, <1>3, <2>2, Stacked, HoldsUnder
  <2>4. ~wasshift
    BY <1>1, <1>3 DEF KeptInv, Resumes
  <2>5. Shifting'
    BY <1>1, <2>1, <2>2, <2>3 DEF Shifting, Free, Beginning
  <2>6. Wakes' /\ Resumes'
    BY <2>1, <2>3, <2>4 DEF Wakes, Resumes, Waking
  <2> QED BY <1>2, <2>1, <2>5, <2>6 DEF KeptInv
<1> QED BY <1>4, <1>5, <1>6

\* What is left when a piece that is none of standbyMode(false) has been run.
LEMMA KeptRest ==
    ASSUME IInv, StatusInv, KeptInv, agenda # <<>>, Head(agenda).do \notin Waking
    PROVE  /\ Tail(agenda) \in Seq(Tasks)
           /\ \A p : Holds(agenda, p) <=> Head(agenda).do = p \/ Holds(Tail(agenda), p)
           /\ \A piece \in Waking : ~Holds(agenda, piece) /\ ~Holds(Tail(agenda), piece)
           /\ Idle(agenda) => Idle(Tail(agenda)) /\ ~Beginning /\ (agenda' = Tail(agenda) => ~Beginning')
<1>1. agenda \in Seq(Tasks) /\ Tail(agenda) \in Seq(Tasks)
  BY TypesNow
<1>2. \A p : Holds(agenda, p) <=> Head(agenda).do = p \/ Holds(Tail(agenda), p)
  BY <1>1, HoldsRest
<1>3. Idle(agenda) => Idle(Tail(agenda)) /\ ~Beginning
  BY <1>1, IdleRest DEF Beginning, Busy
<1>4. Idle(agenda) /\ agenda' = Tail(agenda) => ~Beginning'
  BY <1>1, <1>3, IdleBegins
<1> QED BY <1>1, <1>2, <1>3, <1>4, NotWaking

\* Pieces of recordings: one that is begun while there is a timeshift is that of the timeshift.
LEMMA BeginningIsKept ==
    ASSUME IInv, StatusInv, KeptInv, StartNextRecording \/ CutBackNeutrino \/ StartRecording PROVE KeptInv'
<1>1. /\ agenda # <<>> /\ Head(agenda).do \in {"next", "cut", "open"}
      /\ UNCHANGED <<mode, autoshift, shift_timer, wasshift, erased>>
  BY DEF StartNextRecording, CutBackNeutrino, StartRecording, Doing, recorder, shift
<1>2. /\ Tail(agenda) \in Seq(Tasks) /\ Head(agenda).do \notin Waking
      /\ \A p : Holds(agenda, p) <=> Head(agenda).do = p \/ Holds(Tail(agenda), p)
      /\ \A piece \in Waking : ~Holds(agenda, piece) /\ ~Holds(Tail(agenda), piece)
      /\ erased \subseteq {"shift"} /\ shift_timer = "off" /\ queue \in Seq(Sent)
      /\ Free(queue, "STANDBY_OFF")
  BY <1>1, KeptRest, TypesNow DEF Waking, KeptInv
<1>3. /\ "cut" \notin {"sleep", "shifted"} \cup Waking
      /\ "open" \notin {"sleep", "shifted"} \cup Waking
      /\ "next" \notin {"sleep", "shifted"} \cup Waking
  BY DEF Waking
<1>4. CASE StartNextRecording
  <2>1. UNCHANGED <<queue, recordingstatus, taping>> /\ Head(agenda).do = "next"
    BY <1>4 DEF StartNextRecording, Doing, recorder
  <2>2. Idle(agenda)
    BY <1>1, <2>1, IdleNow DEF StatusInv
  <2>3. CASE MayStart /\ agenda' = <<Cut(nextRecordingInfo)>> \o Tail(agenda)
    <3> DEFINE cut == Cut(nextRecordingInfo)
    <3>1. cut \in Tasks /\ cut.do = "cut" /\ agenda' = <<cut>> \o Tail(agenda)
      BY <2>3, TypesNow, TaskTypes DEF MayStart, Programs
    <3> HIDE DEF cut
    <3>2. \A p : Holds(agenda', p) <=> p = "cut" \/ Holds(Tail(agenda), p)
      BY <1>2, <3>1, HoldsUnder
    <3>3. ~autoshift
      BY <2>3 DEF MayStart, KeptInv, Shifting
    <3>4. Shifting'
      BY <1>1, <3>3 DEF Shifting
    <3> QED BY <1>1, <1>2, <1>3, <2>1, <3>2, <3>3, <3>4, KeptOn
  <2>4. CASE agenda' = Tail(agenda)
    <3>1. ~Beginning /\ ~Beginning'
      BY <1>1, <1>2, <2>2, <2>4, KeptRest
    <3>2. Shifting'
      BY <1>1, <2>1, <3>1 DEF KeptInv, Shifting
    <3> QED BY <1>1, <1>2, <1>3, <2>1, <2>4, <3>2, KeptOn
  <2> QED BY <1>4, <2>3, <2>4 DEF StartNextRecording, Continue, Return
<1>5. CASE CutBackNeutrino
  <2> DEFINE open == [do |-> "open", for |-> Head(agenda).for]
             on == RecordMode(TRUE)
             r == ZapComplete
  <2>1. /\ UNCHANGED <<recordingstatus, taping>> /\ Head(agenda).do = "cut"
        /\ agenda' = <<open>> \o Tail(agenda)
    BY <1>5 DEF CutBackNeutrino, Doing, recorder, Continue
  <2>2. open \in Tasks /\ open.do = "open" /\ open.for = Head(agenda).for
    <3>1. Head(agenda).for \in Programs
      BY <1>1, <2>1, IdleNow DEF StatusInv
    <3> QED BY <3>1, TaskTypes DEF Pieces
  <2>3. on \in Sent /\ on.msg = "RECORDMODE_ON" /\ r \in Sent /\ r.msg = "ZAP_COMPLETE"
    BY SentMessages DEF RecordMode, ZapComplete, Msg
  <2>4. PICK z \in {queue, Append(queue, r)} : z \in Seq(Sent) /\ queue' = IF recmode THEN z ELSE Append(z, on)
    BY <1>5, CutSends
  <2> HIDE DEF open, on, r
  <2>5. \A m \in {"STANDBY_OFF", "RECORDMODE_OFF"} : Free(queue, m) => Free(z, m)
    <3>1. CASE z = queue
      BY <3>1
    <3>2. CASE z = Append(queue, r)
      BY <1>2, <2>3, <3>2, FreeMore
    <3> QED BY <3>1, <3>2
  <2>6. \A m \in {"STANDBY_OFF", "RECORDMODE_OFF"} : Free(queue, m) => Free(queue', m)
    BY <2>3, <2>4, <2>5, FreeMore
  <2>7. agenda' # <<>> /\ Head(agenda') = open /\ \A p : Holds(agenda', p) <=> p = "open" \/ Holds(Tail(agenda), p)
    BY <1>2, <2>1, <2>2, Stacked, HoldsUnder
  <2>8. Shifting'
    BY <1>1, <2>1, <2>2, <2>6, <2>7 DEF KeptInv, Shifting, Beginning
  <2> QED BY <1>1, <1>2, <1>3, <2>1, <2>6, <2>7, <2>8, KeptOn
<1>6. CASE StartRecording
  <2>1. /\ queue' = queue /\ taping' = Head(agenda).for /\ Head(agenda).do = "open"
        /\ agenda' = Tail(agenda)
        /\ recordingstatus' = TRUE \/ recordingstatus' = recordingstatus
    BY <1>6 DEF StartRecording, Doing, Return, Served
  <2>2. ~Beginning' /\ Beginning
    <3>1. Idle(Tail(agenda))
      BY <1>1, <2>1, IdleNow DEF StatusInv
    <3> QED BY <1>1, <1>2, <2>1, <3>1, IdleBegins DEF Beginning
  <2>3. Shifting'
    BY <1>1, <2>1, <2>2 DEF KeptInv, Shifting
  <2> QED BY <1>1, <1>2, <1>3, <2>1, <2>3, KeptOn
<1> QED BY <1>4, <1>5, <1>6

\* Other pieces.
LEMMA PiecesAreKept ==
    ASSUME IInv, StatusInv, KeptInv, Answer \/ LeaveShift \/ Sleep \/ Shifted PROVE KeptInv'
<1>1. /\ agenda # <<>> /\ Head(agenda).do \in {"ask", "answer", "leaveShift", "sleep", "shifted"}
      /\ agenda' = Tail(agenda)
  BY DEF Answer, LeaveShift, Sleep, Shifted, Doing, Return
<1>2. /\ Tail(agenda) \in Seq(Tasks) /\ Head(agenda).do \notin Waking
      /\ \A p : Holds(agenda, p) <=> Head(agenda).do = p \/ Holds(Tail(agenda), p)
      /\ \A piece \in Waking : ~Holds(agenda, piece) /\ ~Holds(Tail(agenda), piece)
      /\ erased \subseteq {"shift"} /\ shift_timer = "off" /\ queue \in Seq(Sent)
      /\ Free(queue, "STANDBY_OFF")
      /\ Idle(agenda) => ~Beginning /\ ~Beginning'
  BY <1>1, KeptRest, TypesNow DEF Waking, KeptInv
<1>3. CASE LeaveShift
  <2>1. /\ Head(agenda).do = "leaveShift" /\ UNCHANGED <<mode, wasshift>>
        /\ \/ autoshift /\ StopAutoRecord(queue, recordingstatus)
           \/ ~autoshift /\ queue' = queue /\ UNCHANGED <<autoshift, shift_timer, recorder>>
    BY <1>3 DEF LeaveShift, Doing
  <2>2. ~autoshift' /\ erased' \subseteq {"shift"} /\ shift_timer' = "off" /\ Free(queue', "STANDBY_OFF")
    <3>1. ~Beginning
      BY <2>1 DEF Beginning
    <3> QED BY <1>2, <2>1, <3>1, KeptLeave
  <2>3. Shifting'
    BY <2>2 DEF Shifting
  <2> QED BY <1>1, <1>2, <2>1, <2>2, <2>3, KeptOn
<1>4. CASE Answer \/ Sleep \/ Shifted
  <2>1. /\ UNCHANGED <<queue, recordingstatus, autoshift, shift_timer, taping, erased>>
        /\ Head(agenda).do \in {"ask", "answer", "sleep", "shifted"}
        /\ Head(agenda).do = "shifted" => ~wasshift'
        /\ wasshift' => wasshift
        /\ mode' = "standby" \/ (mode' = mode /\ Head(agenda).do # "sleep")
    BY <1>4 DEF Answer, Sleep, Shifted, Doing, recorder, shift
  <2>2. ~Beginning /\ ~Beginning'
    BY <1>1, <1>2, <2>1, IdleNow DEF StatusInv
  <2>3. Shifting'
    BY <2>1, <2>2 DEF KeptInv, Shifting
  <2> QED BY <1>1, <1>2, <2>1, <2>3, KeptOn
<1> QED BY <1>3, <1>4

LEMMA WakingIsKept == ASSUME IInv, StatusInv, KeptInv, Wake \/ TvMode \/ Reshift PROVE KeptInv'
<1> DEFINE wake == Do("wake")
           tv == Do("tv")
           reshift == Do("reshift")
<1>1. agenda # <<>> /\ Head(agenda).do \in Waking
  BY DEF Wake, TvMode, Reshift, Doing, Waking
<1>2. /\ wasshift => ~autoshift /\ NoMode(queue)
      /\ Head(agenda).do = "wake" => agenda = <<wake, tv, reshift>>
      /\ Head(agenda).do = "tv" => agenda = <<tv, reshift>>
      /\ Head(agenda).do = "reshift" => agenda = <<reshift>>
  BY <1>1, WokenNow
<1>3. /\ wake.do = "wake" /\ tv.do = "tv" /\ reshift.do = "reshift"
      /\ {<<wake, tv, reshift>>, <<tv, reshift>>, <<reshift>>} = Woken
  BY DEF Do, Woken
<1>4. erased \subseteq {"shift"} /\ shift_timer = "off" /\ queue \in Seq(Sent) /\ Free(queue, "STANDBY_OFF")
      /\ ~Beginning
  BY <1>1, TypesNow DEF KeptInv, Beginning, Waking
<1> HIDE DEF wake, tv, reshift
<1>5. CASE Wake
  <2>1. /\ agenda = <<wake, tv, reshift>> /\ agenda' = Tail(agenda)
        /\ UNCHANGED <<queue, recordingstatus, shift, recorder>>
    BY <1>2, <1>5 DEF Wake, Doing, Return
  <2>2. agenda' = <<tv, reshift>>
    BY <2>1
  <2>3. agenda' \in Woken /\ ~Beginning' /\ Holds(agenda', "tv")
    BY <1>3, <2>2 DEF Beginning, Holds
  <2>4. Head(agenda).do = "wake" /\ Head(agenda').do # "wake"
    BY <1>3, <2>1, <2>2
  <2>5. Shifting'
    BY <1>4, <2>1, <2>3 DEF KeptInv, Shifting, recorder, shift
  <2>6. Wakes' /\ Resumes'
    BY <1>2, <2>1, <2>3, <2>4 DEF Wakes, Resumes, shift, Waking
  <2> QED BY <1>4, <2>1, <2>5, <2>6 DEF KeptInv, recorder, shift
<1>6. CASE TvMode
  <2>1. agenda = <<tv, reshift>> /\ agenda' = Tail(agenda) /\ LeaveTimeshift(queue) /\ wasshift' = wasshift
    BY <1>2, <1>6 DEF TvMode, Doing, Return
  <2>2. agenda' = <<reshift>>
    BY <2>1
  <2>3. agenda' \in Woken /\ ~Beginning' /\ Holds(agenda', "reshift")
    BY <1>3, <2>2 DEF Beginning, Holds
  <2>4. Head(agenda').do # "wake"
    BY <1>3, <2>2
  <2>5. /\ ~autoshift' /\ erased' \subseteq {"shift"} /\ shift_timer' = "off" /\ Free(queue', "STANDBY_OFF")
        /\ ~autoshift => queue' = queue
    BY <1>4, <2>1, KeptLeave
  <2>6. Shifting'
    BY <2>5 DEF Shifting
  <2>7. Wakes' /\ Resumes'
    BY <1>2, <2>1, <2>3, <2>5, <2>4 DEF Wakes, Resumes, Waking
  <2> QED BY <2>5, <2>6, <2>7 DEF KeptInv
<1>7. CASE Reshift
  <2> DEFINE cut == Cut("shift")
             shifted == Do("shifted")
  <2>1. cut.do = "cut" /\ cut.for = "shift" /\ shifted.do = "shifted" /\ cut \in Tasks /\ shifted \in Tasks
    BY TaskTypes DEF Pieces, Programs
  <2>2. /\ agenda = <<reshift>> /\ Tail(agenda) = <<>>
        /\ UNCHANGED <<queue, mode, shift_timer, wasshift, recorder>>
    <3> HIDE DEF cut, shifted
    <3>1. agenda = <<reshift>>
      BY <1>2, <1>7 DEF Reshift, Doing
    <3>2. Tail(agenda) = <<>>
      BY <3>1
    <3> QED BY <1>7, <3>1, <3>2 DEF Reshift
  <2>3. /\ <<shifted>> \o <<>> = <<shifted>>
        /\ <<cut, shifted>> \o <<>> = <<cut, shifted>>
    <3> HIDE DEF cut, shifted
    <3>1. <<shifted>> \in Seq(Tasks) /\ <<cut, shifted>> \in Seq(Tasks)
      BY <2>1
    <3> QED BY <3>1, ConcatEmptySeq
  <2>4. CASE wasshift /\ autoshift' = TRUE /\ recordingstatus' = TRUE /\ agenda' = <<cut, shifted>> \o Tail(agenda)
    <3>1. agenda' = <<cut, shifted>>
      BY <2>2, <2>3, <2>4
    <3> HIDE DEF cut, shifted
    <3>2. /\ agenda' # <<>> /\ Head(agenda') = cut /\ Holds(agenda', "shifted")
          /\ \A piece \in Waking : ~Holds(agenda', piece)
      <4>1. /\ DOMAIN agenda' = 1..2 /\ agenda'[1] = cut /\ agenda'[2] = shifted /\ agenda' # <<>>
            /\ Head(agenda') = cut
        BY <3>1
      <4> QED BY <2>1, <4>1 DEF Holds, Waking
    <3>3. Free(queue', "RECORDMODE_OFF")
      BY <1>2, <2>2, <2>4 DEF NoMode, Free, Modes
    <3>4. Shifting'
      BY <2>1, <2>4, <3>2, <3>3 DEF Shifting, Beginning
    <3>5. Wakes' /\ Resumes'
      BY <3>2 DEF Wakes, Resumes
    <3> QED BY <1>4, <2>2, <3>4, <3>5 DEF KeptInv, recorder
  <2>5. CASE UNCHANGED <<autoshift, recordingstatus>> /\ agenda' = <<shifted>> \o Tail(agenda)
    <3>1. agenda' = <<shifted>>
      BY <2>2, <2>3, <2>5
    <3> HIDE DEF cut, shifted
    <3>2. /\ Head(agenda') = shifted /\ Holds(agenda', "shifted")
          /\ \A piece \in Waking : ~Holds(agenda', piece)
      <4>1. DOMAIN agenda' = 1..1 /\ agenda'[1] = shifted /\ Head(agenda') = shifted
        BY <3>1
      <4> QED BY <2>1, <4>1 DEF Holds, Waking
    <3>3. ~Beginning'
      BY <2>1, <3>2 DEF Beginning
    <3>4. Shifting'
      BY <1>4, <2>2, <2>5, <3>3 DEF KeptInv, Shifting, recorder
    <3>5. Wakes' /\ Resumes'
      BY <3>2 DEF Wakes, Resumes
    <3> QED BY <1>4, <2>2, <3>4, <3>5 DEF KeptInv, recorder
  <2> QED BY <1>7, <2>4, <2>5 DEF Reshift, Continue
<1> QED BY <1>5, <1>6, <1>7

LEMMA KeptKept == ASSUME ByKey(box), IInv, StatusInv, KeptInv, Next PROVE KeptInv'
<1>1. /\ box' = box /\ "STANDBY_OFF" \notin box.users /\ ~IsSet("auto_timeshift") /\ shift_timer = "off"
  BY DEF Next, ByKey, IsSet, KeptInv
<1>2. ~MenuStop /\ ~FailRecording /\ ~ShiftTimer /\ ~ShiftTimerExpires
  BY <1>1 DEF ByKey, Plain, MenuStop, Key, FailRecording, ShiftTimer, ShiftTimerExpires
<1>3. ~AfterFailure /\ ~CloseBox
  <2>1. agenda # <<>> => Head(agenda).do \notin {"box", "failed"}
    BY IdleRest, TypesNow DEF StatusInv, InShape, Busy
  <2> QED BY <2>1 DEF AfterFailure, CloseBox, Doing
<1>4. CASE Handlers
  BY <1>1, <1>2, <1>4, RecordStartIsKept, RecordStopIsKept, MessagesAreKept, StandbyIsKept DEF Handlers
<1>5. CASE PieceOfWork
  BY <1>2, <1>3, <1>5, BeginningIsKept, PiecesAreKept, WakingIsKept DEF PieceOfWork
<1>6. CASE Keys
  BY <1>2, <1>6, KeysAreKept, StandbyIsKept DEF Keys
<1> QED BY <1>1, <1>2, <1>4, <1>5, <1>6, SendersKeep DEF Next

LEMMA KeptInvariance == Spec => [](ByKey(box) => KeptInv)
<1>1. Init => KeptInv
  <2> SUFFICES ASSUME Init PROVE KeptInv
    OBVIOUS
  <2>1. agenda = <<>> /\ queue = <<>> /\ ~autoshift /\ ~wasshift /\ shift_timer = "off" /\ erased = {}
    BY DEF Init
  <2> QED BY <2>1 DEF KeptInv, Free, Shifting, Wakes, Holds, Resumes
<1>2. IInv /\ (Plain(box) => StatusInv) /\ (ByKey(box) => KeptInv) /\ [Next]_vars => (ByKey(box) => KeptInv)'
  <2>1. ASSUME KeptInv, UNCHANGED vars PROVE KeptInv'
    BY <2>1 DEF vars, shift, recorder, KeptInv, Shifting, Beginning, Wakes, Resumes
  <2>2. [Next]_vars => box' = box
    BY DEF Next, vars
  <2>3. ByKey(box) => Plain(box)
    BY DEF ByKey
  <2> QED BY <2>1, <2>2, <2>3, KeptKept
<1> QED BY <1>1, <1>2, Invariance, StatusInvariance, PTL DEF Spec

\* Only a timeshift is ever deleted when it ends: stop_recording deletes the file of the recording under
\* way when autoshift is set (stream2file.cpp:145-186), and while it is set the recording under way, or
\* about to begin, is a timeshift, whatever timers, keys, zaps and standby have met. Each hypothesis is
\* needed: after the timer of an automatic timeshift or a STANDBY_OFF has set autoshift, a RECORDMODE_OFF
\* of the recording before clears recordingstatus; the menu clears it itself; and a timeshift whose file
\* does not open leaves autoshift set while the error box is shown. RECORD_START then opens a timer's
\* recording with autoshift set, and its file is deleted when it ends.
THEOREM TimedRecordingsStay == Spec => [](ByKey(box) => TimedRecordingsAreKept)
<1>1. KeptInv => TimedRecordingsAreKept
  BY DEF KeptInv, TimedRecordingsAreKept
<1> QED BY <1>1, KeptInvariance, PTL

-----------------------------------------------------------------------------
(* The picture and the sleep of zapit. *)

AllDone  == \A j \in box.timed : Done(j)
IsOn     == Has(queue, "RECORDMODE_ON", None)
IsOff    == Has(queue, "RECORDMODE_OFF", None)
OneTimer == \A i, j \in box.timed : i = j

\* While the television is off, zapit sleeps or is to sleep after a recording; that it is to sleep is
\* told by a message while there are recordings to come.
Slept ==
    /\ mode = "standby" => standby \/ was_record
    /\ was_record /\ taping = None /\ ~Beginning => AllDone \/ IsOff

\* While the television is on, zapit is awake and nothing will make it sleep.
Shown ==
    mode = "tv" /\ "STANDBY_OFF" \notin box.users =>
        /\ ~standby /\ (playing \/ (IsSet("stopplayback") /\ recmode))
        /\ was_record => AllDone /\ ~IsOff

\* A timer is announced before its recording is asked for.
AnnouncedFirst(q, ts) ==
    \A p \in DOMAIN q : q[p].msg = "ANNOUNCE_RECORD" =>
        /\ q[p].timer \in Timed
        /\ ts[q[p].timer] = "announced" \/ \E r \in DOMAIN q : r > p /\ q[r] = Msg("RECORD_START", q[p].timer)

\* With one timer alone nothing is told late of its recording.
Prompt ==
    /\ recordingstatus \/ IsOn => recmode
    /\ \A k \in box.timed : /\ Has(queue, "RECORD_STOP", k) => ~IsOn /\ nextRecordingInfo = None
                            /\ Ahead(queue, timers, k) => ~was_record
    /\ was_record /\ ~recmode => IsOff
    /\ mode = "standby" => ~playing /\ (zapping => standby)

ZapitInv == Slept /\ Shown /\ AnnouncedFirst(queue, timers) /\ (OneTimer => Prompt)

\* What is announced.
LEMMA FirstRest ==
    ASSUME NEW q \in Seq(Sent), NEW ts, q # <<>>, AnnouncedFirst(q, ts)
    PROVE  AnnouncedFirst(Tail(q), ts)
<1> DEFINE s == Tail(q)
<1>1. /\ DOMAIN s = 1..(Len(q) - 1) /\ DOMAIN q = 1..Len(q) /\ Len(q) \in Nat /\ Len(q) > 0
      /\ \A p \in 1..(Len(q) - 1) : s[p] = q[p + 1]
  BY QueueRest
<1> HIDE DEF s
<1>2. ASSUME NEW p \in DOMAIN s, s[p].msg = "ANNOUNCE_RECORD"
      PROVE  /\ s[p].timer \in Timed
             /\ ts[s[p].timer] = "announced" \/ \E r \in DOMAIN s : r > p /\ s[r] = Msg("RECORD_START", s[p].timer)
  <2>1. p \in Nat /\ p + 1 \in DOMAIN q /\ s[p] = q[p + 1]
    BY <1>1
  <2>2. /\ s[p].timer \in Timed
        /\ ts[s[p].timer] = "announced" \/ \E r \in DOMAIN q : r > p + 1 /\ q[r] = Msg("RECORD_START", s[p].timer)
    BY <1>2, <2>1 DEF AnnouncedFirst
  <2>3. \A r \in DOMAIN q : r > p + 1 => r - 1 \in DOMAIN s /\ r - 1 > p /\ s[r - 1] = q[r]
    BY <1>1, <2>1
  <2> QED BY <2>2, <2>3
<1>3. AnnouncedFirst(s, ts)
  BY <1>2 DEF AnnouncedFirst
<1> QED BY <1>3 DEF s

LEMMA FirstMore ==
    ASSUME NEW q \in Seq(Sent), NEW ts, NEW us, NEW e \in Sent, AnnouncedFirst(q, ts),
           \A i \in Timed : ts[i] = "announced" => us[i] = "announced" \/ e = Msg("RECORD_START", i),
           e.msg = "ANNOUNCE_RECORD" => e.timer \in Timed /\ us[e.timer] = "announced"
    PROVE  AnnouncedFirst(Append(q, e), us)
<1> DEFINE s == Append(q, e)
<1>1. /\ DOMAIN s = 1..(Len(q) + 1) /\ DOMAIN q = 1..Len(q) /\ Len(q) \in Nat /\ s[Len(q) + 1] = e
      /\ \A p \in 1..Len(q) : s[p] = q[p]
  BY QueueGrows
<1> HIDE DEF s
<1>2. ASSUME NEW p \in DOMAIN s, s[p].msg = "ANNOUNCE_RECORD"
      PROVE  /\ s[p].timer \in Timed
             /\ us[s[p].timer] = "announced" \/ \E r \in DOMAIN s : r > p /\ s[r] = Msg("RECORD_START", s[p].timer)
  <2>1. CASE p = Len(q) + 1
    BY <1>1, <1>2, <2>1
  <2>2. CASE p # Len(q) + 1
    <3>1. p \in DOMAIN q /\ s[p] = q[p] /\ Len(q) + 1 > p /\ Len(q) + 1 \in DOMAIN s
      BY <1>1, <2>2
    <3>2. /\ s[p].timer \in Timed
          /\ ts[s[p].timer] = "announced" \/ \E r \in DOMAIN q : r > p /\ q[r] = Msg("RECORD_START", s[p].timer)
      BY <1>2, <3>1 DEF AnnouncedFirst
    <3>3. \A r \in DOMAIN q : r \in DOMAIN s /\ s[r] = q[r]
      BY <1>1
    <3> QED BY <1>1, <3>1, <3>2, <3>3
  <2> QED BY <2>1, <2>2
<1>3. AnnouncedFirst(s, us)
  BY <1>2 DEF AnnouncedFirst
<1> QED BY <1>3 DEF s

LEMMA FirstStays ==
    ASSUME NEW q, NEW ts, NEW us, AnnouncedFirst(q, ts), \A i \in Timed : ts[i] = "announced" => us[i] = "announced"
    PROVE  AnnouncedFirst(q, us)
  BY DEF AnnouncedFirst

\* A timer that is announced when the message is read has its recording still to be asked for.
LEMMA AnnouncedAhead ==
    ASSUME IInv, AnnouncedFirst(queue, timers), queue # <<>>, Head(queue).msg = "ANNOUNCE_RECORD"
    PROVE  Sender \in Timed /\ Ahead(queue, timers, Sender)
<1>1. queue \in Seq(Sent)
  BY TypesNow
<1>2. 1 \in DOMAIN queue /\ queue[1] = Head(queue)
  BY <1>1, QueueRest
<1>3. /\ Sender \in Timed
      /\ timers[Sender] = "announced" \/ \E r \in DOMAIN queue : r > 1 /\ queue[r] = Msg("RECORD_START", Sender)
  BY <1>2 DEF AnnouncedFirst, Sender
<1>4. Msg("RECORD_START", Sender).msg = "RECORD_START" /\ Msg("RECORD_START", Sender).timer = Sender
  BY DEF Msg
<1> QED BY <1>3, <1>4 DEF Ahead, Has

\* When all recordings are over nothing is begun or under way.
LEMMA NobodyLeft ==
    ASSUME IInv, StopInv, TwoTimers, TurnsInv, AllDone
    PROVE  taping = None /\ ~Beginning
<1>1. /\ taping \in Timed \cup {None} /\ nextRecordingInfo \in Timed \cup {None} /\ None \notin Timed
      /\ box.timed \subseteq Timed
  BY Alone, TypesNow, ConstantsAssumption DEF TurnsInv, NoShifts
<1>2. taping = None
  BY <1>1 DEF AllDone, Done, TurnsInv, OnePlace
<1>3. Beginning => nextRecordingInfo \in Timed
  BY DEF StopInv, BeginsNext, TurnsInv, Turns
<1>4. ~Beginning
  BY <1>1, <1>3 DEF AllDone, Done, TurnsInv, OnePlace
<1> QED BY <1>2, <1>4

\* With one timer alone, its recording is not to be asked for while there is one.
LEMMA RecordedIsNotAhead ==
    ASSUME IInv, StatusInv, StopInv, TwoTimers, TurnsInv, OneTimer, recmode, NEW k \in box.timed
    PROVE  ~Ahead(queue, timers, k)
<1>1. taping \in Timed \cup {None} /\ nextRecordingInfo \in Timed \cup {None} /\ None \notin Timed
  BY TypesNow, ConstantsAssumption DEF TurnsInv, NoShifts
<1>2. CASE taping # None
  <2>1. taping \in box.timed /\ ~Ahead(queue, timers, taping)
    BY <1>1, <1>2 DEF TurnsInv, OnePlace
  <2> QED BY <2>1 DEF OneTimer
<1>3. CASE Opening
  <2>1. Beginning
    BY <1>3 DEF Opening, Beginning
  <2>2. nextRecordingInfo \in Timed
    BY <2>1 DEF StopInv, BeginsNext, TurnsInv, Turns
  <2>3. nextRecordingInfo \in box.timed /\ ~Ahead(queue, timers, nextRecordingInfo)
    BY <1>1, <2>2 DEF TurnsInv, OnePlace, StopInv, WaitingEndsLater
  <2> QED BY <2>3 DEF OneTimer
<1> QED BY <1>2, <1>3 DEF StatusInv

\* A step that changes nothing of the recording and tells nothing of it.
LEMMA PictureStays ==
    ASSUME IInv, ZapitInv, box' = box, IsOn' => IsOn, IsOff' <=> IsOff,
           UNCHANGED <<mode, was_record, standby, recmode, taping, recordingstatus>>,
           Beginning => Beginning',
           \A k \in box.timed : (Done(k) => Done(k)') /\ (Ahead(queue', timers', k) => Ahead(queue, timers, k)),
           OneTimer => \A k \in box.timed : Has(queue', "RECORD_STOP", k) => ~IsOn /\ nextRecordingInfo' = None,
           mode = "tv" /\ playing => playing',
           OneTimer /\ mode = "standby" => (playing' => playing) /\ (zapping' => zapping \/ standby),
           AnnouncedFirst(queue', timers')
    PROVE  ZapitInv'
<1>1. AllDone => AllDone'
  BY DEF AllDone
<1>2. Slept'
  BY <1>1 DEF ZapitInv, Slept
<1>3. Shown'
  BY <1>1 DEF ZapitInv, Shown, IsSet
<1>4. OneTimer' <=> OneTimer
  BY DEF OneTimer
<1>5. OneTimer => Prompt'
  BY DEF ZapitInv, Prompt
<1> QED BY <1>2, <1>3, <1>4, <1>5 DEF ZapitInv

\* A step that reads a message of another kind, sends one, or leaves the socket alone.
LEMMA PictureCalm ==
    ASSUME IInv, TwoTimers, ZapitInv, box' = box,
           \/ queue' = queue
           \/ queue # <<>> /\ queue' = Rest /\ Head(queue).msg \notin Modes
           \/ \E e \in Sent : e.msg \notin Followed \cup {"ANNOUNCE_RECORD"} /\ queue' = Append(queue, e),
           \A i \in Ids : /\ timers'[i] = "over" <=> timers[i] = "over"
                          /\ timers'[i] \in {"waiting", "announced"} <=> timers[i] \in {"waiting", "announced"}
                          /\ timers[i] = "announced" => timers'[i] = "announced",
           UNCHANGED <<mode, was_record, standby, recmode, taping, recordingstatus>>,
           nextRecordingInfo' \in {nextRecordingInfo, None}, Beginning => Beginning',
           mode = "tv" /\ playing => playing',
           OneTimer /\ mode = "standby" => (playing' => playing) /\ (zapping' => zapping \/ standby)
    PROVE  ZapitInv'
<1>1. /\ queue \in Seq(Sent) /\ box.timed \subseteq Timed /\ Timed \subseteq Ids /\ None \notin Ids
      /\ Modes = {"RECORDMODE_ON", "RECORDMODE_OFF"}
      /\ Followed = {"RECORD_START", "RECORD_STOP", "RECORDMODE_ON", "RECORDMODE_OFF"}
  BY Alone, TypesNow DEF Modes, Followed
<1>2. /\ \A m \in Followed, i \in Ids \cup {None} : Has(queue', m, i) => Has(queue, m, i)
      /\ IsOff => IsOff'
      /\ AnnouncedFirst(queue', timers')
  <2>1. AnnouncedFirst(queue, timers) /\ AnnouncedFirst(queue, timers')
    BY <1>1, FirstStays DEF ZapitInv
  <2>2. CASE queue' = queue
    BY <2>1, <2>2 DEF IsOff
  <2>3. CASE queue # <<>> /\ queue' = Rest /\ Head(queue).msg \notin Modes
    <3>1. \A m, i : Has(queue, m, i) <=> Has(queue', m, i) \/ (Head(queue).msg = m /\ Head(queue).timer = i)
      BY <1>1, <2>3, HasRest DEF Rest
    <3>2. AnnouncedFirst(queue', timers')
      BY <1>1, <2>1, <2>3, FirstRest DEF Rest
    <3> QED BY <1>1, <2>3, <3>1, <3>2 DEF IsOff
  <2>4. ASSUME NEW e \in Sent, e.msg \notin Followed \cup {"ANNOUNCE_RECORD"}, queue' = Append(queue, e)
        PROVE  /\ \A m \in Followed, i \in Ids \cup {None} : Has(queue', m, i) => Has(queue, m, i)
               /\ IsOff => IsOff'
               /\ AnnouncedFirst(queue', timers')
    <3>1. \A m, i : Has(queue', m, i) <=> Has(queue, m, i) \/ (e.msg = m /\ e.timer = i)
      BY <1>1, <2>4, HasMore
    <3>2. AnnouncedFirst(queue', timers')
      BY <1>1, <2>1, <2>4, FirstMore
    <3> QED BY <2>4, <3>1, <3>2 DEF IsOff
  <2> QED BY <2>2, <2>3, <2>4
<1>3. (IsOn' => IsOn) /\ (IsOff' <=> IsOff)
  BY <1>1, <1>2 DEF IsOn, IsOff
<1>4. ASSUME NEW k \in box.timed
      PROVE  /\ Done(k) => Done(k)'
             /\ Ahead(queue', timers', k) => Ahead(queue, timers, k)
             /\ Has(queue', "RECORD_STOP", k) => Has(queue, "RECORD_STOP", k)
  <2>1. k \in Ids /\ k # None
    BY <1>1
  <2>2. \A m \in Followed : Has(queue', m, k) => Has(queue, m, k)
    BY <1>2, <2>1
  <2> QED BY <1>1, <2>1, <2>2 DEF Done, Ahead
<1>5. OneTimer => \A k \in box.timed : Has(queue', "RECORD_STOP", k) => ~IsOn /\ nextRecordingInfo' = None
  BY <1>4 DEF ZapitInv, Prompt
<1> QED BY <1>2, <1>3, <1>4, <1>5, PictureStays

LEMMA SendersShow ==
    ASSUME IInv, StatusInv, TwoTimers, TurnsInv, ZapitInv, box' = box,
           \/ ZapDone
           \/ \E m \in {"STANDBY_ON", "STANDBY_OFF"} : ClientSends(m)
           \/ \E i \in Timed : TimerAnnounced(i) \/ TimerStarts(i)
    PROVE  ZapitInv'
<1>1. /\ queue \in Seq(Sent) /\ timers \in [Ids -> States] /\ Timed \subseteq Ids
      /\ {playing, zapping, standby} \subseteq BOOLEAN
  BY TypesNow DEF Ids
<1>2. UNCHANGED <<mode, was_record, standby, recmode, taping, recordingstatus, nextRecordingInfo, agenda>>
  BY DEF ZapDone, ClientSends, TimerAnnounced, TimerStarts, Announces, zapit, recorder
<1>3. Beginning' <=> Beginning
  BY <1>2 DEF Beginning
<1>4. CASE ZapDone
  <2>1. ZapComplete \in Sent /\ ZapComplete.msg \notin Followed \cup {"ANNOUNCE_RECORD"}
    BY SentMessages DEF ZapComplete, Msg, Modes, Followed
  <2>2. /\ queue' = Append(queue, ZapComplete) /\ timers' = timers /\ zapping /\ ~zapping'
        /\ playing' = (playing \/ ~standby)
    BY <1>4 DEF ZapDone
  <2>3. OneTimer /\ mode = "standby" => (playing' => playing)
    BY <2>2 DEF ZapitInv, Prompt
  <2> QED BY <1>1, <1>2, <1>3, <2>1, <2>2, <2>3, PictureCalm
<1>5. ASSUME NEW m \in {"STANDBY_ON", "STANDBY_OFF"}, ClientSends(m) PROVE ZapitInv'
  <2>1. Msg(m, None) \in Sent /\ Msg(m, None).msg \notin Followed \cup {"ANNOUNCE_RECORD"}
    BY SentMessages DEF Messages, Msg, Modes, Followed
  <2>2. queue' = Append(queue, Msg(m, None)) /\ UNCHANGED <<timers, playing, zapping>>
    BY <1>5 DEF ClientSends, zapit
  <2> QED BY <1>1, <1>2, <1>3, <2>1, <2>2, PictureCalm
<1>6. ASSUME NEW i \in Timed, NEW to, NEW m \in {"ANNOUNCE_RECORD", "RECORD_START"},
             timers[i] \in {"waiting", "announced"}, to \in {"announced", "running"},
             m = "ANNOUNCE_RECORD" => to = "announced" /\ timers[i] = "waiting",
             m = "RECORD_START" => to = "running",
             timers' = [timers EXCEPT ![i] = to], queue' = Append(queue, Msg(m, i)),
             UNCHANGED <<playing, zapping>>
      PROVE  ZapitInv'
  <2> DEFINE e == Msg(m, i)
  <2>1. e \in Sent /\ e.msg = m /\ e.timer = i
    BY <1>1, <1>6, SentMessages DEF Messages, Msg
  <2>2. timers'[i] = to /\ \A j \in Ids \ {i} : timers'[j] = timers[j]
    BY <1>1, <1>6
  <2>3. AnnouncedFirst(queue', timers')
    <3>1. \A j \in Timed : timers[j] = "announced" => timers'[j] = "announced" \/ e = Msg("RECORD_START", j)
      BY <1>1, <1>6, <2>2
    <3>2. e.msg = "ANNOUNCE_RECORD" => e.timer \in Timed /\ timers'[e.timer] = "announced"
      BY <1>6, <2>1, <2>2
    <3>3. AnnouncedFirst(queue, timers) /\ queue' = Append(queue, e)
      BY <1>6 DEF ZapitInv
    <3> HIDE DEF e
    <3> QED BY <1>1, <2>1, <3>1, <3>2, <3>3, FirstMore
  <2> HIDE DEF e
  <2>4. \A n, j : Has(queue', n, j) <=> Has(queue, n, j) \/ (m = n /\ i = j)
    <3>1. queue' = Append(queue, e)
      BY <1>6 DEF e
    <3> QED BY <1>1, <2>1, <3>1, HasMore
  <2>5. (IsOn' <=> IsOn) /\ (IsOff' <=> IsOff)
    BY <1>6, <2>4 DEF IsOn, IsOff
  <2>6. box.timed \subseteq Ids
    BY Alone
  <2>7. \A k \in box.timed : /\ Ahead(queue', timers', k) => Ahead(queue, timers, k)
                             /\ Done(k) => Done(k)'
                             /\ Has(queue', "RECORD_STOP", k) => Has(queue, "RECORD_STOP", k)
    BY <1>2, <1>6, <2>2, <2>4, <2>6 DEF Ahead, Done
  <2>8. OneTimer => \A k \in box.timed : Has(queue', "RECORD_STOP", k) => ~IsOn /\ nextRecordingInfo' = None
    BY <1>2, <2>7 DEF ZapitInv, Prompt
  <2> QED BY <1>2, <1>3, <1>6, <2>3, <2>5, <2>7, <2>8, PictureStays
<1>7. ASSUME NEW i \in Timed, TimerAnnounced(i) \/ TimerStarts(i) PROVE ZapitInv'
  BY <1>6, <1>7 DEF TimerAnnounced, TimerStarts, Announces, zapit
<1> QED BY <1>4, <1>5, <1>7

LEMMA TimerStopShows ==
    ASSUME IInv, StatusInv, StopInv, TwoTimers, TurnsInv, ZapitInv, box' = box, NEW i \in Ids, TimerStops(i)
    PROVE  ZapitInv'
<1> DEFINE e == Msg("RECORD_STOP", i)
<1>1. /\ queue \in Seq(Sent) /\ timers \in [Ids -> States] /\ box.faults = {} /\ box.timed \subseteq Timed
      /\ Timed \subseteq Ids
      /\ recmode \in BOOLEAN /\ agenda \in Seq(Tasks) /\ None \notin Ids
      /\ nextRecordingInfo \in Timed \cup {None} /\ taping \in Timed \cup {None}
  BY Alone, TypesNow DEF TurnsInv, NoShifts
<1>2. /\ timers[i] \in {"running", "asked"} /\ timers' = [timers EXCEPT ![i] = "over"]
      /\ queue' = Append(queue, e) /\ ~Starting(i)
      /\ UNCHANGED <<mode, was_record, standby, playing, recmode, zapping, taping, recordingstatus,
                     nextRecordingInfo, recording_id, agenda>>
  BY <1>1 DEF TimerStops, Announces, zapit, recorder
<1>3. e \in Sent /\ e.msg = "RECORD_STOP" /\ e.timer = i
  BY SentMessages DEF Messages, Msg
<1> HIDE DEF e
<1>4. \A m, j : Has(queue', m, j) <=> Has(queue, m, j) \/ (m = "RECORD_STOP" /\ j = i)
  BY <1>1, <1>2, <1>3, HasMore
<1>5. timers'[i] = "over" /\ \A j \in Ids \ {i} : timers'[j] = timers[j]
  BY <1>1, <1>2
<1>6. (IsOn' <=> IsOn) /\ (IsOff' <=> IsOff) /\ (Beginning' <=> Beginning)
  BY <1>2, <1>4 DEF IsOn, IsOff, Beginning
<1>7. AnnouncedFirst(queue', timers')
  <2>1. \A j \in Timed : timers[j] = "announced" => timers'[j] = "announced"
    BY <1>1, <1>2, <1>5
  <2> QED BY <1>1, <1>2, <1>3, <2>1, FirstMore DEF ZapitInv
<1>8. \A k \in box.timed : /\ Ahead(queue', timers', k) => Ahead(queue, timers, k)
                           /\ Done(k) => Done(k)'
  BY <1>1, <1>2, <1>4, <1>5 DEF Ahead, Done
<1>9. i \in box.timed /\ OneTimer => ~IsOn /\ nextRecordingInfo = None
  <2>1. SUFFICES ASSUME i \in box.timed, OneTimer PROVE ~IsOn /\ nextRecordingInfo = None
    OBVIOUS
  <2>2. nextRecordingInfo # i
    <3>1. SUFFICES ASSUME nextRecordingInfo = i PROVE FALSE
      OBVIOUS
    <3>2. taping = None
      BY <1>1, <2>1, <3>1 DEF TurnsInv, OnePlace, OneTimer
    <3>3. CASE Beginning
      <4>1. agenda # <<>> /\ Head(agenda).for = i
        BY <1>1, <2>1, <3>1, <3>3 DEF StopInv, BeginsNext, TurnsInv, Turns, Beginning
      <4>2. Head(agenda) \in Range(agenda)
        BY <1>1, <4>1 DEF Range
      <4> QED BY <1>2, <4>1, <4>2 DEF Starting
    <3>4. CASE agenda # <<>> /\ Head(agenda) = Do("next")
      <4>1. Do("next") \in Range(agenda)
        <5>1. 1 \in DOMAIN agenda /\ agenda[1] = Do("next")
          BY <1>1, <3>4
        <5> QED BY <5>1 DEF Range
      <4> QED BY <1>2, <3>1, <4>1 DEF Starting
    <3> QED BY <1>1, <2>1, <3>1, <3>2, <3>3, <3>4 DEF TurnsInv, Awaited
  <2>3. nextRecordingInfo = None
    BY <1>1, <2>1, <2>2 DEF TurnsInv, OnePlace, OneTimer
  <2>4. ~IsOn
    <3>1. SUFFICES ASSUME IsOn PROVE FALSE
      OBVIOUS
    <3>2. recmode
      BY <2>1, <3>1 DEF ZapitInv, Prompt
    <3>3. ~Beginning
      BY <1>1, <2>3 DEF StopInv, BeginsNext, TurnsInv, Turns
    <3>4. taping # None
      BY <3>2, <3>3 DEF StatusInv, Opening, Beginning
    <3>5. recording_id = i
      BY <1>1, <2>1, <3>3, <3>4 DEF StopInv, TapedEnds, TurnsInv, OnePlace, OneTimer
    <3>6. RecordMode(TRUE) \in Range(queue)
      <4>1. PICK p \in DOMAIN queue : queue[p].msg = "RECORDMODE_ON" /\ queue[p].timer = None
        BY <3>1 DEF IsOn, Has
      <4>2. queue[p] \in Sent
        BY <1>1, <4>1
      <4>3. queue[p] = RecordMode(TRUE)
        BY <4>1, <4>2 DEF Sent, RecordMode, Msg
      <4> QED BY <4>1, <4>3 DEF Range
    <3> QED BY <1>2, <3>5, <3>6 DEF Starting
  <2> QED BY <2>3, <2>4
<1>10. OneTimer => \A k \in box.timed : Has(queue', "RECORD_STOP", k) => ~IsOn /\ nextRecordingInfo' = None
  BY <1>2, <1>4, <1>9 DEF ZapitInv, Prompt
<1> QED BY <1>2, <1>6, <1>7, <1>8, <1>10, PictureStays

\* ZAP_COMPLETE and an announcement; with one timer alone the recording that is announced is yet to come.
LEMMA MessagesShow ==
    ASSUME IInv, StatusInv, StopInv, TwoTimers, TurnsInv, ZapitInv, box' = box,
           HandleZapComplete \/ HandleAnnounceRecord
    PROVE  ZapitInv'
<1>1. ~autoshift /\ {autoshift, playing, zapping, was_record} \subseteq BOOLEAN
  BY TypesNow DEF TurnsInv, NoShifts
<1>2. /\ queue # <<>> /\ queue' = Rest /\ Head(queue).msg \in {"ZAP_COMPLETE", "ANNOUNCE_RECORD"}
      /\ UNCHANGED <<mode, was_record, standby, playing, recmode, taping, recordingstatus, nextRecordingInfo, timers, agenda>>
  <2>1. CASE HandleZapComplete
    BY <2>1 DEF HandleZapComplete, Receives, zapit, recorder
  <2>2. CASE HandleAnnounceRecord
    <3>1. /\ queue' = Rest
          /\ UNCHANGED <<autoshift, shift_timer, recorder, zapit, timers, recording_id, recordingstatus>>
      BY <1>1, <2>2 DEF HandleAnnounceRecord, LeaveTimeshift
    <3> QED BY <2>2, <3>1 DEF HandleAnnounceRecord, Receives, zapit, recorder
  <2> QED BY <2>1, <2>2
<1>3. Head(queue).msg \notin Modes /\ (Beginning' <=> Beginning)
  BY <1>2 DEF Modes, Beginning
<1>4. OneTimer /\ mode = "standby" => (zapping' => zapping \/ standby)
  <2>1. CASE HandleZapComplete
    BY <2>1 DEF HandleZapComplete
  <2>2. CASE HandleAnnounceRecord
    <3>1. SUFFICES ASSUME OneTimer, mode = "standby" PROVE standby
      OBVIOUS
    <3>2. Sender \in Timed /\ Ahead(queue, timers, Sender)
      BY <1>2, <2>2, AnnouncedAhead DEF HandleAnnounceRecord, Receives, ZapitInv
    <3>3. Sender \in box.timed
      BY <3>2 DEF TurnsInv, OnePlace, Ahead
    <3> QED BY <3>1, <3>2, <3>3 DEF ZapitInv, Prompt, Slept
  <2> QED BY <2>1, <2>2
<1> QED BY <1>2, <1>3, <1>4, PictureCalm

\* zapit is put to sleep after a recording, or noted to be put to sleep after this one.
LEMMA RecordModeShows ==
    ASSUME IInv, StatusInv, StopInv, TwoTimers, TurnsInv, ZapitInv, box' = box, NEW on \in BOOLEAN, HandleRecordMode(on)
    PROVE  ZapitInv'
<1>1. /\ queue \in Seq(Sent) /\ {recordingstatus, was_record, standby, playing, recmode} \subseteq BOOLEAN
      /\ box.timed \subseteq Timed /\ Timed \subseteq Ids /\ None \notin Ids /\ mode \in {"tv", "standby"}
  BY Alone, TypesNow
<1>2. /\ queue # <<>> /\ queue' = Rest /\ Head(queue).msg = RecordMode(on).msg /\ Receptive
      /\ standby' = (standby \/ MustSleep(on)) /\ playing' = (playing /\ ~MustSleep(on))
      /\ was_record' = ((mode = "standby" /\ on) \/ (was_record /\ ~MustSleep(on)))
      /\ recordingstatus' = on
      /\ UNCHANGED <<mode, recmode, zapping, taping, nextRecordingInfo, timers, agenda>>
  BY DEF HandleRecordMode, Receives, recorder
<1>3. \A m, i : Has(queue, m, i) <=> Has(queue', m, i) \/ (Head(queue).msg = m /\ Head(queue).timer = i)
  BY <1>1, <1>2, HasRest DEF Rest
<1>4. Head(queue).timer = None
  <2>1. Has(queue, RecordMode(on).msg, Head(queue).timer) /\ Head(queue).timer \in Ids \cup {None}
    BY <1>2, <1>3, TypesNow DEF Sent
  <2>2. RecordMode(on).msg \in Modes
    BY ModeNames
  <2> QED BY <2>1, <2>2 DEF TurnsInv, NoShifts
<1>5. (on => IsOn) /\ (~on => IsOff) /\ (IsOn' => IsOn) /\ (IsOff' => IsOff)
  BY <1>2, <1>3, <1>4 DEF RecordMode, Msg, IsOn, IsOff
<1>6. AnnouncedFirst(queue', timers')
  BY <1>1, <1>2, FirstRest DEF ZapitInv, Rest
<1>7. ~Beginning /\ (Beginning' <=> Beginning) /\ ~Opening
  BY <1>2, HandlerBegins DEF Beginning, Opening
<1>8. \A k \in box.timed : /\ Ahead(queue', timers', k) => Ahead(queue, timers, k)
                           /\ Done(k) => Done(k)'
                           /\ Has(queue', "RECORD_STOP", k) => Has(queue, "RECORD_STOP", k)
  BY <1>2, <1>3 DEF Ahead, Done
<1>9. (AllDone => AllDone') /\ (OneTimer' <=> OneTimer)
  BY <1>8 DEF AllDone, OneTimer
<1>10. recordingstatus \/ on => taping # None \/ AllDone
  BY <1>5, <1>7 DEF TurnsInv, Ended, AllDone, IsOn
<1>11. Slept'
  <2>1. mode = "standby" => standby' \/ was_record'
    BY <1>1, <1>2 DEF ZapitInv, Slept
  <2>2. was_record' /\ ~on => recordingstatus
    BY <1>1, <1>2 DEF MustSleep
  <2>3. was_record' /\ taping = None => AllDone
    BY <1>10, <2>2
  <2> QED BY <1>2, <1>7, <1>9, <2>1, <2>3 DEF Slept
<1>12. Shown'
  <2>1. SUFFICES ASSUME mode = "tv", "STANDBY_OFF" \notin box.users
                 PROVE  /\ ~standby' /\ (playing' \/ (IsSet("stopplayback") /\ recmode'))
                        /\ was_record' => AllDone' /\ ~IsOff'
    BY <1>2 DEF Shown, IsSet
  <2>2. ~standby /\ (playing \/ (IsSet("stopplayback") /\ recmode)) /\ (was_record => AllDone /\ ~IsOff)
    BY <2>1 DEF ZapitInv, Shown
  <2>3. ~MustSleep(on)
    BY <1>5, <2>2 DEF MustSleep
  <2> QED BY <1>1, <1>2, <1>5, <1>9, <2>1, <2>2, <2>3
<1>13. OneTimer => Prompt'
  <2>1. SUFFICES ASSUME OneTimer PROVE Prompt'
    OBVIOUS
  <2>2. Prompt
    BY <2>1 DEF ZapitInv
  <2>3. on => recmode
    BY <1>5, <2>2 DEF Prompt
  <2>4. recordingstatus' \/ IsOn' => recmode'
    BY <1>2, <1>5, <2>2, <2>3 DEF Prompt
  <2>5. ASSUME NEW k \in box.timed
        PROVE  /\ Has(queue', "RECORD_STOP", k) => ~IsOn' /\ nextRecordingInfo' = None
               /\ Ahead(queue', timers', k) => ~was_record'
    <3>1. Has(queue', "RECORD_STOP", k) => ~IsOn' /\ nextRecordingInfo' = None
      BY <1>2, <1>5, <1>8, <2>2, <2>5 DEF Prompt
    <3>2. Ahead(queue', timers', k) => ~was_record /\ ~on
      BY <1>8, <2>1, <2>2, <2>3, <2>5, RecordedIsNotAhead DEF Prompt
    <3> QED BY <1>2, <3>1, <3>2
  <2>6. was_record' /\ ~recmode' => IsOff'
    <3>1. was_record' /\ ~on => recordingstatus
      BY <1>1, <1>2 DEF MustSleep
    <3> QED BY <1>2, <2>2, <2>3, <3>1 DEF Prompt
  <2>7. mode' = "standby" => ~playing' /\ (zapping' => standby')
    BY <1>1, <1>2, <2>2 DEF Prompt
  <2> QED BY <1>2, <2>4, <2>5, <2>6, <2>7 DEF Prompt
<1> QED BY <1>6, <1>9, <1>11, <1>12, <1>13 DEF ZapitInv

\* Standby: the television is switched off or on when the rest of standbyMode is run.
LEMMA StandbyShows ==
    ASSUME IInv, StatusInv, TwoTimers, TurnsInv, ZapitInv, box' = box,
           PressStandby \/ PressZap \/ \E on \in BOOLEAN : HandleStandby(on)
    PROVE  ZapitInv'
<1>1. ~autoshift /\ ~wasshift /\ {autoshift, wasshift} \subseteq BOOLEAN
  BY TypesNow DEF TurnsInv, NoShifts
<1>2. ~Beginning
  <2>1. Receptive
    BY DEF PressStandby, PressZap, Key, HandleStandby, Receives, Receptive
  <2> QED BY <2>1, HandlerBegins
<1>3. ASSUME NEW q, NEW on \in BOOLEAN, StandbyMode(q, on)
      PROVE  queue' = q /\ UNCHANGED <<timers, recordingstatus, taping, standby, playing, recmode>>
  BY <1>1, <1>3 DEF StandbyMode, LeaveTimeshift, zapit, recorder
<1>4. CASE PressStandby
  <2>1. /\ queue' = queue /\ UNCHANGED <<timers, recordingstatus, taping, standby, playing, recmode>>
        /\ UNCHANGED <<mode, nextRecordingInfo, was_record, zapping>>
    BY <1>3, <1>4 DEF PressStandby
  <2> QED BY <1>2, <2>1, PictureCalm
<1>5. CASE PressZap
  <2>1. /\ queue' = queue /\ UNCHANGED <<timers, recordingstatus, taping, standby, playing, recmode>>
        /\ UNCHANGED <<mode, nextRecordingInfo, was_record>> /\ mode = "tv"
    BY <1>1, <1>5 DEF PressZap, LeaveTimeshift, zapit, recorder
  <2> QED BY <1>2, <2>1, PictureCalm
<1>6. ASSUME NEW on \in BOOLEAN, HandleStandby(on) PROVE ZapitInv'
  <2>1. queue # <<>> /\ Head(queue).msg \notin Modes
    BY <1>6 DEF HandleStandby, Receives, Modes
  <2>2. /\ queue' = Rest /\ UNCHANGED <<timers, recordingstatus, taping, standby, playing, recmode>>
        /\ UNCHANGED <<mode, nextRecordingInfo, was_record, zapping>>
    BY <1>3, <1>6 DEF HandleStandby, zapit, recorder
  <2> QED BY <1>2, <2>1, <2>2, PictureCalm
<1> QED BY <1>4, <1>5, <1>6

\* RECORD_START: with one timer alone, its end has not been announced yet.
LEMMA RecordStartShows ==
    ASSUME IInv, StatusInv, StopInv, TwoTimers, TurnsInv, ZapitInv, box' = box, HandleRecordStart
    PROVE  ZapitInv'
<1>1. /\ queue \in Seq(Sent) /\ ~autoshift /\ box.timed \subseteq Timed /\ Timed \subseteq Ids
      /\ None \notin Ids
  BY Alone, TypesNow DEF TurnsInv, NoShifts
<1>2. /\ queue # <<>> /\ queue' = Rest /\ Head(queue).msg = "RECORD_START" /\ Receptive
      /\ nextRecordingInfo' = Sender
      /\ UNCHANGED <<timers, recordingstatus, taping, standby, playing, recmode, mode, was_record, zapping>>
  BY <1>1 DEF HandleRecordStart, Receives, LeaveTimeshift, zapit, recorder
<1>3. ~Beginning
  BY <1>2, HandlerBegins
<1>4. \A m, i : Has(queue, m, i) <=> Has(queue', m, i) \/ (m = "RECORD_START" /\ i = Sender)
  BY <1>1, <1>2, HasRest DEF Rest, Sender
<1>5. AnnouncedFirst(queue', timers')
  BY <1>1, <1>2, FirstRest DEF ZapitInv, Rest
<1>6. (IsOn' <=> IsOn) /\ (IsOff' <=> IsOff)
  BY <1>4 DEF IsOn, IsOff
<1>7. \A k \in box.timed : /\ Ahead(queue', timers', k) => Ahead(queue, timers, k)
                           /\ Done(k) => Done(k)'
  BY <1>2, <1>4 DEF Ahead, Done
<1>8. OneTimer => \A k \in box.timed : ~Has(queue', "RECORD_STOP", k)
  <2>1. SUFFICES ASSUME OneTimer, NEW k \in box.timed, Has(queue', "RECORD_STOP", k) PROVE FALSE
    OBVIOUS
  <2>2. Sender \in Timed
    BY <1>1, <1>2, TypesNow, ConstantsAssumption DEF Sender, Sent
  <2>3. Has(queue, "RECORD_START", Sender)
    BY <1>4
  <2>4. Sender = k
    BY <2>1, <2>2, <2>3 DEF TurnsInv, OnePlace, OneTimer
  <2>5. Has(queue, "RECORD_STOP", k)
    BY <1>4, <2>1
  <2> QED BY <1>1, <2>3, <2>4, <2>5 DEF TurnsInv, EndsLast
<1> QED BY <1>2, <1>3, <1>5, <1>6, <1>7, <1>8, PictureStays

\* RECORD_STOP: the end of the recording is told, and the picture comes back.
LEMMA RecordStopShows ==
    ASSUME IInv, StatusInv, StopInv, TwoTimers, TurnsInv, ZapitInv, box' = box, HandleRecordStop
    PROVE  ZapitInv'
<1>1. /\ queue # <<>> /\ Head(queue).msg = "RECORD_STOP" /\ Receives("RECORD_STOP") /\ Receptive
      /\ UNCHANGED <<timers, mode, was_record, zapping>>
  BY DEF HandleRecordStop, Receives
<1>2. /\ queue \in Seq(Sent) /\ Rest \in Seq(Sent) /\ Head(queue).msg \notin Modes
      /\ agenda \in Seq(Tasks) /\ {recmode, standby, playing, was_record} \subseteq BOOLEAN
      /\ mode \in {"tv", "standby"}
      /\ box.timed \subseteq Timed /\ Timed \subseteq Ids /\ None \notin Ids /\ taping \in Timed \cup {None}
      /\ ~Beginning
      /\ device = "RECORD" <=> taping # None
      /\ recmode <=> taping # None
  BY <1>1, Alone, TypesNow, HandlerBegins, ReceivesKnows DEF Modes, TurnsInv, NoShifts
<1>3. CASE queue' = Rest /\ nextRecordingInfo' \in {nextRecordingInfo, None}
           /\ UNCHANGED <<recordingstatus, recorder, zapit>>
  BY <1>1, <1>2, <1>3, PictureCalm DEF zapit, recorder
<1>4. CASE Sender = recording_id /\ device = "RECORD" /\ Stop(Rest) /\ Reset /\ AfterStop
           /\ nextRecordingInfo' = nextRecordingInfo
  <2>1. /\ taping' = None /\ recordingstatus' = FALSE /\ recmode' = FALSE /\ standby' = standby
        /\ queue' = Append(Rest, RecordMode(FALSE))
        /\ playing' = (playing \/ (mode # "standby" /\ ~standby))
    BY <1>2, <1>4 DEF Stop, RestoreNeutrino, UnsetRecordMode, Reset
  <2>2. taping \in box.timed /\ Sender = taping /\ ~AllDone
    <3>1. taping \in Timed /\ recording_id = taping
      BY <1>2, <1>4 DEF StopInv, TapedEnds
    <3> QED BY <1>2, <1>4, <3>1 DEF TurnsInv, OnePlace, AllDone, Done
  <2>3. \A m, i : /\ Has(queue, m, i) <=> Has(Rest, m, i) \/ (m = "RECORD_STOP" /\ i = Sender)
                  /\ Has(queue', m, i) <=> Has(Rest, m, i) \/ (m = "RECORDMODE_OFF" /\ i = None)
    <3> DEFINE e == RecordMode(FALSE)
    <3>1. e \in Sent /\ e.msg = "RECORDMODE_OFF" /\ e.timer = None
      BY SentMessages DEF RecordMode, Msg
    <3> HIDE DEF e
    <3>2. queue' = Append(Rest, e)
      BY <2>1 DEF e
    <3>3. \A m, i : Has(queue', m, i) <=> Has(Rest, m, i) \/ (m = "RECORDMODE_OFF" /\ i = None)
      BY <1>2, <3>1, <3>2, HasMore
    <3>4. \A m, i : Has(queue, m, i) <=> Has(Rest, m, i) \/ (m = "RECORD_STOP" /\ i = Sender)
      BY <1>1, <1>2, HasRest DEF Rest, Sender
    <3> QED BY <3>3, <3>4
  <2>4. (IsOn' => IsOn) /\ IsOff'
    BY <2>3 DEF IsOn, IsOff
  <2>5. AnnouncedFirst(queue', timers')
    <3> DEFINE e == RecordMode(FALSE)
    <3>1. e \in Sent /\ e.msg = "RECORDMODE_OFF"
      BY SentMessages DEF RecordMode, Msg
    <3> HIDE DEF e
    <3>2. queue' = Append(Rest, e) /\ AnnouncedFirst(Rest, timers) /\ timers' = timers
      BY <1>1, <1>2, <2>1, FirstRest DEF e, ZapitInv, Rest
    <3> QED BY <1>2, <3>1, <3>2, FirstMore
  <2>6. Slept'
    BY <1>1, <2>1, <2>4 DEF ZapitInv, Slept
  <2>7. Shown'
    BY <1>1, <1>2, <2>1, <2>2 DEF ZapitInv, Shown, IsSet
  <2>8. OneTimer => Prompt'
    <3>1. SUFFICES ASSUME OneTimer PROVE Prompt'
      OBVIOUS
    <3>2. Prompt
      BY <3>1 DEF ZapitInv
    <3>3. ~IsOn'
      BY <2>2, <2>3, <2>4, <3>2 DEF Prompt
    <3>4. \A k \in box.timed : /\ Has(queue', "RECORD_STOP", k) => Has(queue, "RECORD_STOP", k)
                               /\ Ahead(queue', timers', k) => Ahead(queue, timers, k)
      BY <1>1, <2>3 DEF Ahead
    <3>5. \A k \in box.timed : /\ Has(queue', "RECORD_STOP", k) => ~IsOn' /\ nextRecordingInfo' = None
                               /\ Ahead(queue', timers', k) => ~was_record'
      BY <1>1, <1>4, <3>2, <3>3, <3>4 DEF Prompt
    <3>6. mode' = "standby" => ~playing' /\ (zapping' => standby')
      BY <1>1, <2>1, <3>2 DEF Prompt
    <3> QED BY <2>1, <2>4, <3>3, <3>5, <3>6 DEF Prompt
  <2> QED BY <2>5, <2>6, <2>7, <2>8 DEF ZapitInv, OneTimer
<1> QED BY <1>3, <1>4 DEF HandleRecordStop, Dropped

\* Pieces that leave the picture alone; what waits is begun later.
LEMMA PiecesShow ==
    ASSUME IInv, StatusInv, TwoTimers, TurnsInv, ZapitInv, box' = box,
           Answer \/ TvMode \/ Shifted \/ Reshift \/ StartNextRecording
    PROVE  ZapitInv'
<1>1. /\ agenda # <<>> /\ Head(agenda).do \in {"ask", "answer", "tv", "shifted", "reshift", "next"}
      /\ UNCHANGED <<mode, was_record, zapping, nextRecordingInfo>>
  BY DEF Answer, TvMode, Shifted, Reshift, StartNextRecording, Doing
<1>2. /\ ~autoshift /\ ~wasshift /\ {autoshift, wasshift} \subseteq BOOLEAN /\ timers \in [Ids -> States]
      /\ ~Beginning
  BY <1>1, TypesNow DEF TurnsInv, NoShifts, Beginning
<1>3. /\ queue' = queue /\ UNCHANGED <<standby, playing, recmode, taping, recordingstatus>>
      /\ \/ timers' = timers
         \/ AskToStop(recording_id)
  <2>1. CASE TvMode
    BY <1>2, <2>1 DEF TvMode, LeaveTimeshift, zapit, recorder
  <2>2. CASE Answer \/ Shifted \/ StartNextRecording
    BY <2>2 DEF Answer, Shifted, StartNextRecording, zapit, recorder
  <2>3. CASE Reshift
    BY <1>2, <2>3 DEF Reshift, zapit, recorder
  <2> QED BY <2>1, <2>2, <2>3
<1>4. \A i \in Ids : /\ timers'[i] = "over" <=> timers[i] = "over"
                     /\ timers'[i] \in {"waiting", "announced"} <=> timers[i] \in {"waiting", "announced"}
                     /\ timers[i] = "announced" => timers'[i] = "announced"
  BY <1>2, <1>3 DEF AskToStop
<1> QED BY <1>1, <1>2, <1>3, <1>4, PictureCalm

\* A recording is being begun: not all are over, and with one timer alone this one is not to be asked for.
LEMMA BegunKnows ==
    ASSUME IInv, StopInv, TwoTimers, TurnsInv, Beginning
    PROVE  /\ nextRecordingInfo = Head(agenda).for /\ nextRecordingInfo \in box.timed /\ nextRecordingInfo # None
           /\ ~AllDone
           /\ \A k \in box.timed : OneTimer => ~Ahead(queue, timers, k)
<1>1. nextRecordingInfo = Head(agenda).for /\ nextRecordingInfo \in Timed /\ None \notin Timed
  BY ConstantsAssumption DEF StopInv, BeginsNext, TurnsInv, Turns
<1>2. /\ nextRecordingInfo \in box.timed /\ ~Ahead(queue, timers, nextRecordingInfo)
      /\ nextRecordingInfo # None
  BY <1>1 DEF TurnsInv, OnePlace, StopInv, WaitingEndsLater
<1> QED BY <1>1, <1>2 DEF AllDone, Done, OneTimer

\* zapit is woken and set to record mode.
LEMMA CutShows ==
    ASSUME IInv, StatusInv, StopInv, TwoTimers, TurnsInv, ZapitInv, box' = box, CutBackNeutrino
    PROVE  ZapitInv'
<1> DEFINE on == RecordMode(TRUE)
           r == ZapComplete
           open == [do |-> "open", for |-> Head(agenda).for]
<1>1. /\ agenda # <<>> /\ Head(agenda).do = "cut" /\ agenda' = <<open>> \o Tail(agenda) /\ ~zapping
      /\ was_record' = (was_record \/ mode = "standby") /\ standby' = FALSE /\ recmode' = TRUE
      /\ UNCHANGED <<timers, mode, recordingstatus, nextRecordingInfo, taping, zapping>>
  BY DEF CutBackNeutrino, Doing, Continue, ZapitAnswers, recorder
<1>2. /\ playing' => mode # "standby"
      /\ mode # "standby" /\ ~IsSet("stopplayback") /\ playing => playing'
  BY DEF CutBackNeutrino
<1>3. /\ queue \in Seq(Sent) /\ Tail(agenda) \in Seq(Tasks) /\ Head(agenda).for \in Programs
      /\ {was_record, standby, playing, recmode, zapping} \subseteq BOOLEAN /\ mode \in {"tv", "standby"}
      /\ box.timed \subseteq Timed /\ Timed \subseteq Ids
  BY <1>1, IdleNow, TypesNow, Alone DEF StatusInv
<1>4. Beginning'
  <2>1. open \in Tasks /\ open.do = "open"
    BY <1>3, TaskTypes DEF Pieces
  <2> HIDE DEF open
  <2>2. agenda' # <<>> /\ Head(agenda') = open
    BY <1>1, <1>3, <2>1, Stacked
  <2> QED BY <2>1, <2>2 DEF Beginning
<1>5. /\ nextRecordingInfo # None /\ ~AllDone
      /\ \A k \in box.timed : OneTimer => ~Ahead(queue, timers, k)
  <2>1. Beginning
    BY <1>1 DEF Beginning
  <2> QED BY <2>1, BegunKnows
<1>6. /\ on \in Sent /\ on.msg = "RECORDMODE_ON" /\ r \in Sent
      /\ r.msg \notin Followed \cup {"ANNOUNCE_RECORD"}
  BY SentMessages DEF RecordMode, ZapComplete, Msg, Followed, Modes
<1>7. PICK z \in {queue, Append(queue, r)} : z \in Seq(Sent) /\ queue' = IF recmode THEN z ELSE Append(z, on)
  BY CutSends
<1> HIDE DEF on, r, open
<1>8. /\ AnnouncedFirst(z, timers)
      /\ \A m \in Followed : \A i : Has(z, m, i) => Has(queue, m, i)
  <2>1. AnnouncedFirst(queue, timers)
    BY DEF ZapitInv
  <2>2. CASE z = queue
    BY <2>1, <2>2
  <2>3. CASE z = Append(queue, r)
    <3>1. AnnouncedFirst(z, timers)
      BY <1>3, <1>6, <2>1, <2>3, FirstMore
    <3>2. \A m, i : Has(z, m, i) <=> Has(queue, m, i) \/ (r.msg = m /\ r.timer = i)
      BY <1>3, <1>6, <2>3, HasMore
    <3> QED BY <1>6, <3>1, <3>2
  <2> QED BY <1>7, <2>2, <2>3
<1>9. /\ AnnouncedFirst(queue', timers')
      /\ \A m \in Followed \ {"RECORDMODE_ON"} : \A i : Has(queue', m, i) => Has(queue, m, i)
  <2>1. CASE recmode
    BY <1>1, <1>7, <1>8, <2>1
  <2>2. CASE ~recmode
    <3>1. AnnouncedFirst(queue', timers')
      BY <1>1, <1>6, <1>7, <1>8, <2>2, FirstMore
    <3>2. \A m, i : Has(queue', m, i) <=> Has(z, m, i) \/ (on.msg = m /\ on.timer = i)
      BY <1>6, <1>7, <2>2, HasMore
    <3> QED BY <1>6, <1>8, <3>1, <3>2
  <2> QED BY <1>3, <2>1, <2>2
<1>10. \A i : /\ Has(queue', "RECORD_START", i) => Has(queue, "RECORD_START", i)
              /\ Has(queue', "RECORD_STOP", i) => Has(queue, "RECORD_STOP", i)
  BY <1>9 DEF Followed, Modes
<1>11. Slept'
  BY <1>1, <1>3, <1>4 DEF Slept
<1>12. Shown'
  BY <1>1, <1>2, <1>3, <1>5 DEF ZapitInv, Shown, IsSet
<1>13. OneTimer => Prompt'
  <2>1. SUFFICES ASSUME OneTimer PROVE Prompt'
    OBVIOUS
  <2>2. ASSUME NEW k \in box.timed
        PROVE  /\ Has(queue', "RECORD_STOP", k) => ~IsOn' /\ nextRecordingInfo' = None
               /\ Ahead(queue', timers', k) => ~was_record'
    <3>1. ~Has(queue', "RECORD_STOP", k)
      BY <1>5, <1>10, <2>1, <2>2 DEF ZapitInv, Prompt
    <3>2. ~Ahead(queue', timers', k)
      BY <1>1, <1>5, <1>10, <2>1, <2>2 DEF Ahead
    <3> QED BY <3>1, <3>2
  <2> QED BY <1>1, <1>2, <1>3, <2>2 DEF Prompt
<1> QED BY <1>9, <1>11, <1>12, <1>13 DEF ZapitInv, OneTimer

\* The recording that waited is under way.
LEMMA OpenShows ==
    ASSUME IInv, StatusInv, StopInv, TwoTimers, TurnsInv, ZapitInv, box' = box, StartRecording
    PROVE  ZapitInv'
<1>1. /\ agenda # <<>> /\ Head(agenda).do = "open" /\ taping' = Head(agenda).for
      /\ UNCHANGED <<queue, mode, was_record, standby, playing, recmode, zapping>>
  BY DEF StartRecording, Doing, zapit
<1>2. Beginning /\ recmode
  BY <1>1 DEF Beginning, Opening, StatusInv
<1>3. /\ nextRecordingInfo = Head(agenda).for /\ nextRecordingInfo \in box.timed
      /\ nextRecordingInfo # None /\ ~AllDone
      /\ box.timed \subseteq Timed
  BY <1>2, BegunKnows, Alone
<1>4. recordingstatus' = TRUE /\ nextRecordingInfo' = None /\ timers' = timers
  BY <1>3 DEF StartRecording, Served
<1>5. taping' # None /\ AnnouncedFirst(queue', timers')
  BY <1>1, <1>3, <1>4 DEF ZapitInv
<1>6. Slept' /\ Shown'
  BY <1>1, <1>3, <1>5 DEF ZapitInv, Slept, Shown, IsSet
<1>7. OneTimer => Prompt'
  <2>1. SUFFICES ASSUME OneTimer PROVE Prompt'
    OBVIOUS
  <2>2. \A k \in box.timed : /\ ~Has(queue', "RECORD_STOP", k)
                             /\ Ahead(queue', timers', k) => ~was_record'
    BY <1>1, <1>3, <1>4, <2>1 DEF ZapitInv, Prompt
  <2> QED BY <1>1, <1>2, <2>1, <2>2 DEF ZapitInv, Prompt
<1> QED BY <1>5, <1>6, <1>7 DEF ZapitInv, OneTimer

\* zapit is put to sleep, now or after the recording.
LEMMA SleepShows ==
    ASSUME IInv, StatusInv, StopInv, TwoTimers, TurnsInv, ZapitInv, box' = box, Sleep
    PROVE  ZapitInv'
<1>1. /\ agenda # <<>> /\ Head(agenda).do = "sleep" /\ ~zapping
      /\ was_record' = (was_record \/ recordingstatus) /\ standby' = (standby \/ ~was_record')
      /\ playing' = FALSE /\ mode' = "standby"
      /\ UNCHANGED <<timers, queue, recordingstatus, nextRecordingInfo, taping, recmode, zapping>>
  BY DEF Sleep, Doing, ZapitAnswers, recorder
<1>2. ~Beginning /\ {was_record, standby, recordingstatus} \subseteq BOOLEAN
  BY <1>1, TypesNow DEF Beginning
<1>3. recordingstatus => taping # None \/ AllDone
  BY <1>2 DEF TurnsInv, Ended, AllDone
<1>4. (AllDone' <=> AllDone) /\ (IsOff' <=> IsOff) /\ (IsOn' <=> IsOn) /\ AnnouncedFirst(queue', timers')
  BY <1>1 DEF AllDone, Done, IsOff, IsOn, ZapitInv
<1>5. Slept'
  BY <1>1, <1>2, <1>3, <1>4 DEF ZapitInv, Slept
<1>6. Shown'
  BY <1>1 DEF Shown
<1>7. OneTimer => Prompt'
  <2>1. SUFFICES ASSUME OneTimer PROVE Prompt'
    OBVIOUS
  <2>2. ASSUME NEW k \in box.timed, Ahead(queue', timers', k) PROVE ~was_record'
    <3>1. Ahead(queue, timers, k)
      BY <1>1, <2>2
    <3>2. ~was_record
      BY <2>1, <2>2, <3>1 DEF ZapitInv, Prompt
    <3>3. ~recordingstatus
      BY <2>1, <2>2, <3>1, RecordedIsNotAhead DEF ZapitInv, Prompt
    <3> QED BY <1>1, <3>2, <3>3
  <2> QED BY <1>1, <1>2, <1>4, <2>1, <2>2 DEF ZapitInv, Prompt
<1> QED BY <1>4, <1>5, <1>6, <1>7 DEF ZapitInv, OneTimer

\* zapit is woken. Unless somebody has sent STANDBY_OFF no message of a recording waits then: a recording
\* that zapit would sleep after is under way, or all are over.
LEMMA WakeShows ==
    ASSUME IInv, StatusInv, StopInv, TwoTimers, TurnsInv, ZapitInv, box' = box, Wake,
           "STANDBY_OFF" \notin box.users => KeptInv
    PROVE  ZapitInv'
<1>1. /\ agenda # <<>> /\ Head(agenda).do = "wake"
      /\ standby' = FALSE /\ playing' = (playing \/ standby \/ was_record)
      /\ was_record' = (was_record /\ ~recordingstatus) /\ mode' = "tv"
      /\ UNCHANGED <<timers, queue, recordingstatus, nextRecordingInfo, taping, recmode, zapping>>
  BY DEF Wake, Doing, recorder
<1>2. /\ ~Beginning /\ ~Opening /\ ~ByHand /\ mode \in {"tv", "standby"}
      /\ {was_record, standby, playing, recordingstatus, recmode} \subseteq BOOLEAN
  BY <1>1, TypesNow DEF Beginning, Opening, ByHand
<1>3. (AllDone' <=> AllDone) /\ (IsOff' <=> IsOff) /\ (IsOn' <=> IsOn) /\ AnnouncedFirst(queue', timers')
  BY <1>1 DEF AllDone, Done, IsOff, IsOn, ZapitInv
<1>4. Slept'
  BY <1>1, <1>2, <1>3 DEF ZapitInv, Slept
<1>5. Shown'
  <2>1. SUFFICES ASSUME "STANDBY_OFF" \notin box.users
                 PROVE  /\ playing' \/ (IsSet("stopplayback") /\ recmode)
                        /\ was_record' => AllDone /\ ~IsOff
    BY <1>1, <1>3 DEF Shown, IsSet
  <2>2. NoMode(queue)
    BY <1>1, <2>1, WokenNow DEF Waking
  <2>3. ~IsOff /\ (recordingstatus <=> taping # None)
    <3>1. ~IsOff
      BY <2>2 DEF NoMode, Modes, IsOff, Has
    <3>2. recordingstatus = recmode
      BY <1>2, <2>2 DEF StatusInv, Agreed
    <3> QED BY <1>2, <3>1, <3>2 DEF StatusInv
  <2>4. playing' \/ (IsSet("stopplayback") /\ recmode)
    BY <1>1, <1>2, <2>1 DEF ZapitInv, Slept, Shown
  <2>5. was_record' => AllDone
    BY <1>1, <1>2, <2>3 DEF ZapitInv, Slept
  <2> QED BY <2>3, <2>4, <2>5
<1>6. OneTimer => Prompt'
  BY <1>1, <1>2, <1>3 DEF ZapitInv, Prompt
<1> QED BY <1>3, <1>4, <1>5, <1>6 DEF ZapitInv, OneTimer

LEMMA ZapitKept ==
    ASSUME IInv, StatusInv, StopInv, TwoTimers, TurnsInv, ZapitInv, Next,
           "STANDBY_OFF" \notin box.users => KeptInv
    PROVE  ZapitInv'
<1>1. /\ box' = box /\ box.faults = {} /\ {"record", "timeshift", "menu"} \cap box.users = {}
      /\ shift_timer = "off" /\ ~autoshift /\ ~wasshift
      /\ agenda # <<>> => Head(agenda).do # "leaveShift"
  BY Alone DEF Next, TurnsInv, NoShifts
<1>2. ~PressRecord /\ ~PressTimeshift /\ ~MenuStop /\ ~ShiftTimer /\ ~ShiftTimerExpires
  BY <1>1 DEF PressRecord, PressTimeshift, MenuStop, Key, ShiftTimer, ShiftTimerExpires
<1>3. ~LeaveShift /\ ~FailRecording
  BY <1>1 DEF LeaveShift, FailRecording, Doing
<1>4. ~AfterFailure /\ ~CloseBox
  <2>1. agenda # <<>> => Head(agenda).do \notin {"box", "failed"}
    BY IdleRest, TypesNow DEF StatusInv, InShape, Busy
  <2> QED BY <2>1 DEF AfterFailure, CloseBox, Doing
<1>5. CASE Handlers
  BY <1>1, <1>2, <1>5, RecordStartShows, RecordStopShows, MessagesShow, RecordModeShows, StandbyShows
     DEF Handlers
<1>6. CASE PieceOfWork
  BY <1>1, <1>3, <1>4, <1>6, PiecesShow, CutShows, OpenShows, SleepShows, WakeShows DEF PieceOfWork
<1>7. CASE Keys
  BY <1>1, <1>2, <1>7, StandbyShows DEF Keys
<1>8. CASE \/ ZapDone \/ \E i \in Timed : TimerAnnounced(i) \/ TimerStarts(i)
           \/ TimerEnds \/ \E m \in {"STANDBY_ON", "STANDBY_OFF"} : ClientSends(m)
  BY <1>1, <1>8, TimerStopShows, SendersShow DEF TimerEnds
<1> QED BY <1>2, <1>5, <1>6, <1>7, <1>8 DEF Next

LEMMA ZapitInvariance == Spec => [](TwoTimers => ZapitInv)
<1>1. Init /\ TwoTimers => ZapitInv
  <2> SUFFICES ASSUME Init, TwoTimers PROVE ZapitInv
    OBVIOUS
  <2>1. /\ queue = <<>> /\ mode = "tv" /\ ~standby /\ playing /\ ~was_record /\ ~recordingstatus
    BY DEF Init
  <2>2. \A m, i : ~Has(queue, m, i)
    BY <2>1 DEF Has
  <2> QED BY <2>1, <2>2 DEF ZapitInv, Slept, Shown, AnnouncedFirst, Prompt, IsOn
<1>2. /\ IInv /\ (Plain(box) => StatusInv) /\ (Plain(box) => StopInv) /\ (TwoTimers => TurnsInv)
      /\ (ByKey(box) => KeptInv) /\ (TwoTimers => ZapitInv) /\ [Next]_vars
      => (TwoTimers => ZapitInv)'
  <2>1. ASSUME ZapitInv, UNCHANGED vars PROVE ZapitInv'
    <3>1. /\ UNCHANGED <<queue, timers, agenda, mode, recordingstatus, nextRecordingInfo, taping, was_record, zapping, box>>
          /\ UNCHANGED <<recmode, standby, playing>>
      BY <2>1 DEF vars, zapit, recorder
    <3>2. (AllDone' <=> AllDone) /\ (IsOff' <=> IsOff) /\ (IsOn' <=> IsOn) /\ (Beginning' <=> Beginning)
          /\ (OneTimer' <=> OneTimer)
      BY <3>1 DEF AllDone, Done, IsOff, IsOn, Beginning, OneTimer
    <3>3. Slept' /\ Shown'
      BY <2>1, <3>1, <3>2 DEF ZapitInv, Slept, Shown, IsSet
    <3>4. OneTimer => Prompt'
      BY <2>1, <3>1, <3>2 DEF ZapitInv, Prompt
    <3> QED BY <2>1, <3>1, <3>2, <3>3, <3>4 DEF ZapitInv
  <2>2. [Next]_vars => box' = box
    BY DEF Next, vars
  <2>3. box' = box => (TwoTimers' <=> TwoTimers)
    BY DEF TwoTimers, OnlyTimers, AtMostTwo, IsSet
  <2>4. IInv /\ TwoTimers => Plain(box)
    BY Alone
  <2>5. IInv /\ TwoTimers /\ "STANDBY_OFF" \notin box.users => ByKey(box)
    BY Alone DEF ByKey, IsSet
  <2> QED BY <2>1, <2>2, <2>3, <2>4, <2>5, ZapitKept
<1> QED BY <1>1, <1>2, Invariance, StatusInvariance, StopInvariance, TurnsInvariance, KeptInvariance, PTL DEF Spec

\* With one timer or two alone, and when nothing is being handled, zapit is awake and shows a picture
\* while the television is on, and with one timer it sleeps while the television is off and nothing is
\* recorded: what the main thread notes in was_record when the television is off, or is switched off,
\* is gone when the last EVT_RECORDMODE has been read (neutrino.cpp:2882-2899, 3543-3622).
THEOREM ZapitStaysFollowing == Spec => []ZapitFollowsTelevision
<1>1. IInv /\ (Plain(box) => StatusInv) /\ (TwoTimers => ZapitInv) => ZapitFollowsTelevision
  <2> SUFFICES ASSUME IInv, Plain(box) => StatusInv, TwoTimers, ZapitInv, Quiet
               PROVE  /\ mode = "tv" /\ "STANDBY_OFF" \notin box.users => AwakeWhenOn
                      /\ mode = "standby" /\ OneTimer => AsleepWhenOff
    BY DEF ZapitFollowsTelevision, TwoTimers, OneTimer
  <2>1. /\ queue = <<>> /\ agenda = <<>> /\ ~zapping
        /\ {playing, standby, was_record, recmode} \subseteq BOOLEAN
    BY TypesNow DEF Quiet
  <2>2. ~IsOff /\ ~Opening
    BY <2>1 DEF IsOff, Has, Opening
  <2>3. recmode <=> taping # None
    BY <2>2, Alone DEF StatusInv
  <2>4. mode = "tv" /\ "STANDBY_OFF" \notin box.users => AwakeWhenOn
    BY <2>3 DEF ZapitInv, Shown, AwakeWhenOn
  <2>5. mode = "standby" /\ OneTimer => AsleepWhenOff
    BY <2>1, <2>2, <2>3 DEF ZapitInv, Slept, Prompt, AsleepWhenOff
  <2> QED BY <2>4, <2>5
<1> QED BY <1>1, Invariance, StatusInvariance, ZapitInvariance, PTL

=============================================================================

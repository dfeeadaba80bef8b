------------------------------- MODULE DvbSub -------------------------------
(***************************************************************************)
(* DVB subtitles: lib/libdvbsub.  The reader thread takes packets from the *)
(* demultiplexer and queues them, the decoder thread turns them into       *)
(* bitmaps and shows each when it is due.  The main thread of neutrino and *)
(* the thread of zapit pause, start and stop the two through plain global  *)
(* variables; only the lists of the converter and the condition variables  *)
(* have mutexes.  A section under a mutex is one step.                     *)
(*                                                                         *)
(* Undefined behaviour is a choice: taking a packet from the empty queue   *)
(* returns no packet or ends the process, and so does a call through the   *)
(* missing converter; a bitmap that was deleted is shown or ends it.       *)
(***************************************************************************)
EXTENDS Integers, Sequences, SequencesExt

CONSTANTS
    None,       \* no pid (0)
    Pids,       \* the subtitle pids of the channels
    MaxCalls,   \* bound: the calls a behaviour has, for each set of threads that make them
    MaxPackets  \* bound: the packets that are broadcast

ASSUME ConstantsAssumption ==
    /\ None \notin Pids
    /\ DOMAIN MaxCalls \subseteq SUBSET {"neutrino", "zapit"}
    /\ \A threads \in DOMAIN MaxCalls : MaxCalls[threads] \in Nat
    /\ MaxPackets \in Nat

Clients == {"neutrino", "zapit"}
Threads == Clients \cup {"reader", "decoder"}

VARIABLES
    pc,              \* where each thread is
    arg, then,       \* a client's call: the pid, and what follows the pause in it
    reader_running, dvbsub_running,
    dvbsub_paused, dvbsub_pid, dvbsub_stopped,
    converter,       \* the object: "none", "alive" or "deleted"
    running,         \* the converter's flag
    bitmaps,         \* the bitmaps it holds
    screen,          \* the bitmap on the screen, or None
    packet_queue,
    filter,          \* the pid the demultiplexer delivers
    got, packet, sb, \* the packets of the reader and of the decoder, and the bitmap it waits for
    dead,            \* the process has crashed
    missed,          \* history: a wake-up came while the reader was about to wait
    users,           \* the threads that call in this behaviour
    calls, packets   \* the counters that MaxCalls and MaxPackets bound

call    == <<arg, then>>
control == <<reader_running, dvbsub_running, dvbsub_paused, dvbsub_pid, dvbsub_stopped>>
shown   == <<running, bitmaps, screen>>
stream  == <<filter, got, packets>>
decode  == <<packet, sb>>
memory  == <<missed, users>>
vars    == <<pc, call, control, converter, shown, packet_queue, stream, decode, dead, memory,
             calls>>

At(t, at)     == pc' = [pc EXCEPT ![t] = at]
Bitmap(n, p)  == [n |-> n, pid |-> p]

Init ==
    /\ users \in DOMAIN MaxCalls
    /\ pc = [t \in Threads |-> IF t = "reader" THEN "top" ELSE IF t = "decoder" THEN "new" ELSE "idle"]
    /\ arg = [c \in Clients |-> None] /\ then = [c \in Clients |-> "idle"]
    /\ reader_running = TRUE /\ dvbsub_running = TRUE
    /\ dvbsub_paused = TRUE /\ dvbsub_pid = None /\ dvbsub_stopped = FALSE
    /\ converter = "none" /\ running = FALSE /\ bitmaps = <<>> /\ screen = None
    /\ packet_queue = <<>> /\ filter = None /\ packets = 0
    /\ got = None /\ packet = None /\ sb = None
    /\ dead = FALSE /\ missed = FALSE /\ calls = 0

-----------------------------------------------------------------------------
\* The calls.  SubtitleChanger pauses and starts with a pid (setting_helpers.cpp), menus
\* pause and start without one, zapping starts with the stored pid, or stops; neutrino
\* closes when it ends.
Call(c) ==
    /\ pc[c] = "idle" /\ c \in users
    /\ calls < MaxCalls[users] /\ calls' = calls + 1
    /\ \/ /\ At(c, "pause")
          /\ \E p \in Pids \cup {None} :
                /\ arg' = [arg EXCEPT ![c] = p]
                /\ \/ p = None /\ then' = [then EXCEPT ![c] = "idle"]
                   \/ p # None /\ c = "neutrino" /\ then' = [then EXCEPT ![c] = "start"]
       \/ \E p \in Pids \cup {None} :
             /\ p = None => c = "neutrino"
             /\ p # None => c = "zapit"
             /\ At(c, "start") /\ arg' = [arg EXCEPT ![c] = p] /\ UNCHANGED then
       \/ At(c, "stop") /\ UNCHANGED call
       \/ /\ c = "neutrino" /\ At(c, "pause")
          /\ then' = [then EXCEPT ![c] = "close"] /\ UNCHANGED arg
    /\ UNCHANGED <<control, converter, shown, packet_queue, stream, decode, dead, memory>>

\* dvbsub_pause: Pause(true) of a running converter clears the screen, then its lists.
Pause(c) ==
    /\ pc[c] = "pause"
    /\ At(c, IF ~reader_running THEN then[c]
             ELSE IF converter = "alive" /\ running THEN "clear" ELSE "paused")
    /\ UNCHANGED <<call, control, converter, shown, packet_queue, stream, decode, dead, memory,
                   calls>>

ClearScreen(c) ==
    /\ pc[c] = "clear" /\ At(c, "reset")
    /\ running' = FALSE /\ screen' = None
    /\ UNCHANGED <<call, control, converter, bitmaps, packet_queue, stream, decode, dead,
                   memory, calls>>

Reset(c) ==
    /\ pc[c] = "reset" /\ At(c, "paused")
    /\ bitmaps' = <<>>
    /\ UNCHANGED <<call, control, converter, running, screen, packet_queue, stream, decode,
                   dead, memory, calls>>

Paused(c) ==
    /\ pc[c] = "paused" /\ At(c, then[c])
    /\ dvbsub_paused' = TRUE
    /\ UNCHANGED <<call, reader_running, dvbsub_running, dvbsub_pid, dvbsub_stopped, converter,
                   shown, packet_queue, stream, decode, dead, memory, calls>>

\* dvbsub_start.
Start(c) ==
    /\ pc[c] = "start"
    /\ IF arg[c] = None
       THEN At(c, IF dvbsub_paused THEN "spin" ELSE "idle") /\ UNCHANGED then
       ELSE IF arg[c] = dvbsub_pid
       THEN At(c, "pid") /\ UNCHANGED then
       ELSE At(c, "pause") /\ then' = [then EXCEPT ![c] = "pid"]
    /\ UNCHANGED <<arg, control, converter, shown, packet_queue, stream, decode, dead, memory,
                   calls>>

SetPid(c) ==
    /\ pc[c] = "pid" /\ At(c, "spin")
    /\ dvbsub_pid' = arg[c]
    /\ UNCHANGED <<call, reader_running, dvbsub_running, dvbsub_paused, dvbsub_stopped,
                   converter, shown, packet_queue, stream, decode, dead, memory, calls>>

\* The loop that waits until the reader has stopped.
Spin(c) ==
    /\ pc[c] = "spin" /\ dvbsub_stopped
    /\ IF dvbsub_pid = None
       THEN At(c, "idle") /\ UNCHANGED dvbsub_paused
       ELSE At(c, "resume") /\ dvbsub_paused' = FALSE
    /\ UNCHANGED <<call, reader_running, dvbsub_running, dvbsub_pid, dvbsub_stopped, converter,
                   shown, packet_queue, stream, decode, dead, memory, calls>>

Resume(c) ==
    /\ pc[c] = "resume" /\ At(c, "wake")
    /\ running' = TRUE
    /\ dead' \in IF converter = "none" THEN {TRUE} ELSE {FALSE, converter = "deleted"}
    /\ UNCHANGED <<call, control, converter, bitmaps, screen, packet_queue, stream, decode,
                   memory, calls>>

\* Mutant: A broadcast that is not sent.
NoBroadcast(c, at) ==
    /\ At(c, at)
    /\ missed' = (pc["reader"] \in {"stop", "lock"})

\* The broadcast of readerCond, under its mutex: only a reader that waits hears it.
Broadcast(c, at) ==
    /\ pc' = [pc EXCEPT ![c] = at,
                        !["reader"] = IF @ = "wait" THEN "woken" ELSE @]
    /\ missed' = (pc["reader"] \in {"stop", "lock"})

Wake(c) ==
    /\ pc[c] = "wake" /\ Broadcast(c, "idle")
    /\ UNCHANGED <<call, control, converter, shown, packet_queue, stream, decode, dead, users,
                   calls>>

\* dvbsub_stop.
Stop(c) ==
    /\ pc[c] = "stop" /\ At(c, "pause")
    /\ dvbsub_pid' = None
    /\ then' = [then EXCEPT ![c] = "idle"]
    /\ UNCHANGED <<arg, reader_running, dvbsub_running, dvbsub_paused, dvbsub_stopped, converter,
                   shown, packet_queue, stream, decode, dead, memory, calls>>

\* dvbsub_close, after its pause.
Close(c) ==
    /\ pc[c] = "close" /\ At(c, "unblock")
    /\ reader_running' = FALSE
    /\ UNCHANGED <<call, dvbsub_running, dvbsub_paused, dvbsub_pid, dvbsub_stopped, converter,
                   shown, packet_queue, stream, decode, dead, memory, calls>>

Unblock(c) ==
    /\ pc[c] = "unblock" /\ Broadcast(c, "join")
    /\ UNCHANGED <<call, control, converter, shown, packet_queue, stream, decode, dead, users,
                   calls>>

Join(c) ==
    /\ pc[c] = "join" /\ pc["reader"] = "gone" /\ At(c, "joinDecoder")
    /\ dvbsub_running' = FALSE
    /\ UNCHANGED <<call, reader_running, dvbsub_paused, dvbsub_pid, dvbsub_stopped, converter,
                   shown, packet_queue, stream, decode, dead, memory, calls>>

JoinDecoder(c) ==
    /\ pc[c] = "joinDecoder" /\ pc["decoder"] = "gone" /\ At(c, "closed")
    /\ UNCHANGED <<call, control, converter, shown, packet_queue, stream, decode, dead, memory,
                   calls>>

ClientStep(c) ==
    \/ Pause(c) \/ ClearScreen(c) \/ Reset(c) \/ Paused(c)
    \/ Start(c) \/ SetPid(c) \/ Spin(c) \/ Resume(c) \/ Wake(c)
    \/ Stop(c) \/ Close(c) \/ Unblock(c) \/ Join(c) \/ JoinDecoder(c)

-----------------------------------------------------------------------------
\* The reader.
ReaderTop ==
    /\ pc["reader"] = "top"
    /\ At("reader", IF ~reader_running THEN "gone" ELSE IF dvbsub_paused THEN "stop" ELSE "read")
    /\ UNCHANGED <<call, control, converter, shown, packet_queue, stream, decode, dead, memory,
                   calls>>

\* Mutant: dvbsub_stopped is set only when the reader is woken.
StopQuietly ==
    /\ pc["reader"] = "stop" /\ At("reader", "lock")
    /\ filter' = None
    /\ UNCHANGED <<call, control, converter, shown, packet_queue, got, packets, decode, dead,
                   memory, calls>>

ReaderStop ==
    /\ pc["reader"] = "stop" /\ At("reader", "lock")
    /\ filter' = None /\ dvbsub_stopped' = TRUE
    /\ UNCHANGED <<call, reader_running, dvbsub_running, dvbsub_paused, dvbsub_pid, converter,
                   shown, packet_queue, got, packets, decode, dead, memory, calls>>

ReaderWait ==
    /\ pc["reader"] = "lock" /\ At("reader", "wait")
    /\ UNCHANGED <<call, control, converter, shown, packet_queue, stream, decode, dead, memory,
                   calls>>

ReaderWoken ==
    /\ pc["reader"] = "woken"
    /\ IF reader_running
       THEN At("reader", "started") /\ filter' = dvbsub_pid
       ELSE At("reader", "gone") /\ UNCHANGED filter
    /\ UNCHANGED <<call, control, converter, shown, packet_queue, got, packets, decode, dead,
                   memory, calls>>

ReaderStarted ==
    /\ pc["reader"] = "started" /\ At("reader", "read")
    /\ dvbsub_stopped' = FALSE
    /\ UNCHANGED <<call, reader_running, dvbsub_running, dvbsub_paused, dvbsub_pid, converter,
                   shown, packet_queue, stream, decode, dead, memory, calls>>

\* Mutant: The reader reads without a filter.
ReadUnfiltered ==
    /\ pc["reader"] = "read"
    /\ IF dvbsub_paused
       THEN At("reader", "top") /\ UNCHANGED stream
       ELSE /\ packets < MaxPackets /\ packets' = packets + 1
            /\ got' = Bitmap(packets', filter) /\ At("reader", "push") /\ UNCHANGED filter
    /\ UNCHANGED <<call, control, converter, shown, packet_queue, decode, dead, memory, calls>>

\* The loops that read the packet all end when dvbsub_paused is set.
ReaderRead ==
    /\ pc["reader"] = "read"
    /\ IF dvbsub_paused
       THEN At("reader", "top") /\ UNCHANGED stream
       ELSE /\ filter # None /\ packets < MaxPackets
            /\ packets' = packets + 1
            /\ got' = Bitmap(packets', filter) /\ At("reader", "push") /\ UNCHANGED filter
    /\ UNCHANGED <<call, control, converter, shown, packet_queue, decode, dead, memory, calls>>

ReaderPush ==
    /\ pc["reader"] = "push" /\ At("reader", "signal")
    /\ packet_queue' = Append(packet_queue, got) /\ got' = None
    /\ UNCHANGED <<call, control, converter, shown, filter, packets, decode, dead, memory,
                   calls>>

ReaderSignal ==
    /\ pc["reader"] = "signal"
    /\ pc' = [pc EXCEPT !["reader"] = "top",
                        !["decoder"] = IF @ = "wait" THEN "awake" ELSE @]
    /\ UNCHANGED <<call, control, converter, shown, packet_queue, stream, decode, dead, memory,
                   calls>>

Reader ==
    \/ ReaderTop \/ ReaderStop \/ ReaderWait \/ ReaderWoken \/ ReaderStarted
    \/ ReaderRead \/ ReaderPush \/ ReaderSignal

-----------------------------------------------------------------------------
\* The decoder.
DecoderNew ==
    /\ pc["decoder"] = "new" /\ At("decoder", "top")
    /\ converter' = "alive"
    /\ UNCHANGED <<call, control, shown, packet_queue, stream, decode, dead, memory, calls>>

\* Mutant: The decoder waits for a signal whether packets are queued or not.
TopAlwaysWaits ==
    /\ pc["decoder"] = "top"
    /\ IF dvbsub_running
       THEN At("decoder", "towait") /\ UNCHANGED converter
       ELSE At("decoder", "gone") /\ converter' = "deleted"
    /\ UNCHANGED <<call, control, shown, packet_queue, stream, decode, dead, memory, calls>>

DecoderTop ==
    /\ pc["decoder"] = "top"
    /\ IF dvbsub_running
       THEN /\ At("decoder", IF packet_queue = <<>> THEN "towait" ELSE "awake")
            /\ UNCHANGED converter
       ELSE At("decoder", "gone") /\ converter' = "deleted"
    /\ UNCHANGED <<call, control, shown, packet_queue, stream, decode, dead, memory, calls>>

DecoderWait ==
    /\ pc["decoder"] = "towait" /\ At("decoder", "wait")
    /\ UNCHANGED <<call, control, converter, shown, packet_queue, stream, decode, dead, memory,
                   calls>>

\* The wait ends after a second.
DecoderTimeout ==
    /\ pc["decoder"] = "wait" /\ At("decoder", "action")
    /\ UNCHANGED <<call, control, converter, shown, packet_queue, stream, decode, dead, memory,
                   calls>>

\* Paused, the queue is emptied until pop returns no packet; else the packet is decoded.
DecoderAwake ==
    /\ pc["decoder"] = "awake"
    /\ IF dvbsub_paused
       THEN /\ packet_queue' = <<>> /\ dead' \in BOOLEAN
            /\ At("decoder", "top") /\ UNCHANGED packet
       ELSE IF packet_queue = <<>>
       THEN dead' \in BOOLEAN /\ At("decoder", "top") /\ UNCHANGED <<packet, packet_queue>>
       ELSE /\ packet' = Head(packet_queue) /\ packet_queue' = Tail(packet_queue)
            /\ At("decoder", "convert") /\ UNCHANGED dead
    /\ UNCHANGED <<call, control, converter, shown, stream, sb, memory, calls>>

\* A packet completes a page, is a part of one, or is none of dvb subtitles.
DecoderConvert ==
    /\ pc["decoder"] = "convert"
    /\ \/ At("decoder", "action") /\ bitmaps' \in {bitmaps, Append(bitmaps, packet)}
       \/ At("decoder", "top") /\ UNCHANGED bitmaps
    /\ packet' = None
    /\ UNCHANGED <<call, control, converter, running, screen, packet_queue, stream, sb, dead,
                   memory, calls>>

DecoderAction ==
    /\ pc["decoder"] = "action"
    /\ At("decoder", IF running THEN "alock" ELSE "top")
    /\ UNCHANGED <<call, control, converter, shown, packet_queue, stream, decode, dead, memory,
                   calls>>

\* The list without bitmap b; no two bitmaps are the same.
Without(b) ==
    IF \E i \in DOMAIN bitmaps : bitmaps[i] = b
    THEN RemoveAt(bitmaps, CHOOSE i \in DOMAIN bitmaps : bitmaps[i] = b)
    ELSE bitmaps

\* Mutant: The flag is not looked at again under the lock.
DrawAnyway(b) == screen' = b /\ bitmaps' = Without(b)

\* Draw(sb), if the converter runs, and remove it.
Draw(b) ==
    /\ screen' = IF running THEN b ELSE screen
    /\ bitmaps' = Without(b)

\* The first bitmap is due, or due later, or there is none and the one shown may time out.
DecoderShow ==
    /\ pc["decoder"] = "alock"
    /\ IF bitmaps = <<>>
       THEN At("decoder", "top") /\ screen' \in {screen, None} /\ UNCHANGED <<bitmaps, sb>>
       ELSE \/ At("decoder", "top") /\ Draw(Head(bitmaps)) /\ UNCHANGED sb
            \/ /\ At("decoder", "asleep") /\ sb' = Head(bitmaps)
               /\ UNCHANGED <<bitmaps, screen>>
    /\ UNCHANGED <<call, control, converter, running, packet_queue, stream, packet, dead, memory,
                   calls>>

\* After the sleep the bitmap may have been deleted by a pause.
DecoderAfterSleep ==
    /\ pc["decoder"] = "asleep" /\ At("decoder", "top")
    /\ IF running THEN Draw(sb) ELSE UNCHANGED <<bitmaps, screen>>
    /\ dead' \in {FALSE, running /\ sb \notin ToSet(bitmaps)}
    /\ sb' = None
    /\ UNCHANGED <<call, control, converter, running, packet_queue, stream, packet, memory,
                   calls>>

Decoder ==
    \/ DecoderNew \/ DecoderTop \/ DecoderWait \/ DecoderTimeout \/ DecoderAwake
    \/ DecoderConvert \/ DecoderAction \/ DecoderShow \/ DecoderAfterSleep

-----------------------------------------------------------------------------
Next ==
    /\ ~dead
    /\ \/ \E c \in Clients : Call(c) \/ ClientStep(c)
       \/ Reader
       \/ Decoder

Fairness ==
    /\ \A c \in Clients : WF_vars(~dead /\ ClientStep(c))
    /\ WF_vars(~dead /\ Reader)
    /\ WF_vars(~dead /\ Decoder)

Spec == Init /\ [][Next]_vars /\ Fairness

-----------------------------------------------------------------------------
Packets == [n : 1 .. MaxPackets, pid : Pids]

\* Where the threads may be.
ClientPlaces  == {"idle", "pause", "clear", "reset", "paused", "start", "pid", "spin", "resume",
                  "wake", "stop", "close", "unblock", "join", "joinDecoder", "closed"}
ReaderPlaces  == {"top", "stop", "lock", "wait", "woken", "started", "read", "push", "signal",
                  "gone"}
DecoderPlaces == {"new", "top", "towait", "wait", "awake", "convert", "action", "alock",
                  "asleep", "gone"}

TypeOK ==
    /\ pc \in [Threads -> ClientPlaces \cup ReaderPlaces \cup DecoderPlaces]
    /\ \A c \in Clients : pc[c] \in ClientPlaces
    /\ pc["reader"] \in ReaderPlaces /\ pc["decoder"] \in DecoderPlaces
    /\ arg \in [Clients -> Pids \cup {None}] /\ then \in [Clients -> {"idle", "start", "pid", "close"}]
    /\ {reader_running, dvbsub_running, dvbsub_paused, dvbsub_stopped, running, dead, missed}
           \subseteq BOOLEAN
    /\ dvbsub_pid \in Pids \cup {None} /\ filter \in Pids \cup {None}
    /\ converter \in {"none", "alive", "deleted"}
    /\ ToSet(bitmaps) \cup ToSet(packet_queue) \subseteq Packets
    /\ {screen, got, packet, sb} \subseteq Packets \cup {None}

\* Nothing is on the screen while the converter is paused: a pause during the sleep of Action,
\* or between its test of running and its lock, leaves no subtitle behind on the menu.
PausedShowsNothing == ~running => screen = None

\* Started subtitles with a waiting reader: only when the wake-up came in the gap between the
\* reader's tests of the flags and its wait.
HangsOnlyIfMissed ==
    /\ ~dvbsub_paused /\ pc["reader"] = "wait"
    /\ \A c \in Clients : pc[c] \notin {"resume", "wake"}
    => missed

\* The calls of the main thread come back when no other thread starts subtitles meanwhile.  The
\* loop of dvbsub_start ends, because the reader stops; dvbsub_close joins both threads, because
\* they see the flags, unless its wake-up came in the gap before the reader's wait.
CallsReturn ==
    /\ users = {"neutrino"} /\ pc["neutrino"] = "spin" ~> (pc["neutrino"] # "spin" \/ dead)
    /\ users = {"neutrino"} /\ pc["neutrino"] = "unblock"
           ~> (pc["neutrino"] = "closed" \/ dead \/ missed)

\* Packets do not stay in the queue, whoever pauses and starts.
QueueIsServed == packet_queue # <<>> ~> (packet_queue = <<>> \/ dead \/ pc["decoder"] = "gone")

=============================================================================

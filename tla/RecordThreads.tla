--------------------------- MODULE RecordThreads ---------------------------
(***************************************************************************)
(* A recording on its way to the disk: start_recording and stop_recording  *)
(* (stream2file.cpp), called by the main thread of neutrino, and the two   *)
(* threads of class cRecord (record_cs.cpp), one from the demultiplexer to *)
(* the ring buffer and one from the ring buffer to the file.               *)
(*                                                                         *)
(* The ring buffer is the stream module RingBuffer implements.  Recordings *)
(* are numbered in the order they start; byte n of the demultiplexer of    *)
(* recording k is <<k, n>>.                                                *)
(*                                                                         *)
(* stop_recording deletes the object its threads still use, and            *)
(* start_recording uses an object again when the last recording was not    *)
(* stopped.  Either way a new recording may be in the memory of one whose  *)
(* threads still run: these then read the device, write the file and       *)
(* release the filters of the new one.  The history variable "mixed" holds *)
(* the recordings that is true of.  Deleted memory is left as it is until  *)
(* the object of a later recording gets it.                                *)
(***************************************************************************)
EXTENDS Integers, Sequences

CONSTANTS
    Recordings, \* bound: how many recordings are started, one after the other
    Capacity,   \* what fits into the ring buffer
    Packet,     \* TS_SIZE
    InSize,     \* IN_SIZE
    MaxBytes    \* bound: the bytes each demultiplexer delivers

ASSUME SizesAssumption ==
    /\ {Recordings, Capacity, Packet, InSize, MaxBytes} \subseteq Nat \ {0}
    /\ Packet < InSize

Recs   == 1..Recordings
Blocks == Recs \* there is always memory no object has used
Flags  == {"RUNNING", "IDLE", "BUFFER_OVERFLOW", "WRITE_OPEN_FAILURE", "WRITE_FAILURE",
           "READ_FAILURE"}
Failures == Flags \ {"RUNNING", "IDLE"}

VARIABLES
    record,   \* the recording the pointer "record" belongs to, or 0
    main,     \* where the main thread is
    started,  \* how many recordings have been started
    block,    \* the memory each recording's object is or was in, 0 before it exists
    mem,      \* the members of the objects: [Blocks -> ObjectType]
    dmx, fil, \* where the two threads of a recording are
    todo,     \* DMXThread: what is left of the current chunk
    packet,   \* DMXThread: the bytes of the first read that are kept
    ring,     \* the ring buffer DMXThread has created
    fring,    \* FileThread: the ring buffer it empties
    avail,    \* FileThread: what is left of its vector
    dev,      \* the dvr device of a recording: is it open, and the bytes it delivered
    filters,  \* the pes filters of a recording are set
    file,     \* the bytes in the file of a recording
    mixed     \* history: the recordings whose object threads of another one may have used

ObjectType == [exit_flag : Flags, file_fd : Recs \cup {0}, dvrfd : Recs \cup {0},
               demuxfd : Recs \cup {0}, ringbuffer : Recs \cup {0}]

caller  == <<record, main, started, mixed>>
threads == <<dmx, fil>>
capture == <<todo, packet>>
writing == <<fring, avail>>
vars == <<caller, block, mem, threads, capture, ring, writing, dev, filters, file>>

This(k)    == mem[block[k]]
Running(k) == This(k).exit_flag = "RUNNING"
Set(k, member, value) == mem' = [mem EXCEPT ![block[k]][member] = value]
Dmx(k, at) == dmx' = [dmx EXCEPT ![k] = at]
Fil(k, at) == fil' = [fil EXCEPT ![k] = at]

\* A thread of recording k finds a failure.
Fail(k, flag) == Set(k, "exit_flag", flag)

Init ==
    /\ record = 0 /\ main = "idle" /\ started = 0
    /\ block = [k \in Recs |-> 0]
    /\ mem = [b \in Blocks |-> [exit_flag |-> "IDLE", file_fd |-> 0, dvrfd |-> 0,
                                demuxfd |-> 0, ringbuffer |-> 0]]
    /\ dmx = [k \in Recs |-> "none"] /\ fil = [k \in Recs |-> "none"]
    /\ todo = [k \in Recs |-> 0] /\ packet = [k \in Recs |-> <<>>]
    /\ ring = [k \in Recs |-> <<>>]
    /\ fring = [k \in Recs |-> 0] /\ avail = [k \in Recs |-> 0]
    /\ dev = [k \in Recs |-> [open |-> FALSE, next |-> 0]]
    /\ filters = [k \in Recs |-> FALSE]
    /\ file = [k \in Recs |-> <<>>]
    /\ mixed = {}

Alive(k) == dmx[k] \notin {"none", "gone", "lost"} \/ fil[k] \notin {"none", "gone", "refused"}

\* The recordings whose threads still use the memory b.
Users(b) == {k \in Recs : block[k] = b /\ Alive(k)}

-----------------------------------------------------------------------------
\* The main thread: start_recording uses the object there is or makes one, in new memory
\* or where an earlier one was; Open resets its exit_flag.  Threads that share an object
\* close a descriptor twice, and its number may be that of a later recording by then: from
\* the first such recording on, every new one counts as mixed.
NewRecord ==
    /\ main = "idle" /\ started < Recordings
    /\ started' = started + 1 /\ record' = started + 1
    /\ \E b \in IF record # 0 THEN {block[record]} ELSE 1..(started + 1) :
          /\ block' = [block EXCEPT ![started + 1] = b]
          /\ mem' = [mem EXCEPT ![b].exit_flag = "IDLE"]
          /\ mixed' = IF mixed \cup Users(b) = {} THEN {}
                      ELSE mixed \cup Users(b) \cup {started + 1}
    /\ main' = "start"
    /\ UNCHANGED <<threads, capture, ring, writing, dev, filters, file>>

\* cRecord::Start: a filter, the dvr device or the thread may be refused.  start_recording
\* then deletes the object; filters set before a refused thread stay set.
Start ==
    /\ main = "start" /\ main' = "idle"
    /\ LET k == record  b == block[record]
       IN  \/ /\ mem' = [mem EXCEPT ![b].file_fd = k, ![b].demuxfd = k, ![b].dvrfd = k,
                                    ![b].exit_flag = "RUNNING"]
             /\ filters' = [filters EXCEPT ![k] = TRUE]
             /\ dev' = [dev EXCEPT ![k].open = TRUE]
             /\ Dmx(k, "create")
             /\ UNCHANGED record
          \/ /\ \/ \E demuxfd \in {k, 0} : \* no filter
                       mem' = [mem EXCEPT ![b].file_fd = k, ![b].demuxfd = demuxfd]
                \/ mem' = [mem EXCEPT ![b].file_fd = k, ![b].demuxfd = 0, ![b].dvrfd = 0]
             /\ record' = 0
             /\ UNCHANGED <<filters, dev, dmx>>
          \/ /\ mem' = [mem EXCEPT ![b].file_fd = k, ![b].demuxfd = k, ![b].dvrfd = k,
                                    ![b].exit_flag = "WRITE_OPEN_FAILURE"]
             /\ filters' = [filters EXCEPT ![k] = TRUE]
             /\ dev' = [dev EXCEPT ![k].open = TRUE]
             /\ record' = 0
             /\ UNCHANGED dmx
    /\ UNCHANGED <<block, started, mixed, fil, capture, ring, writing, file>>

\* stop_recording: cRecord::Stop looks at exit_flag, changes it when it was RUNNING, and the
\* object is deleted, whatever its threads do.
Deleted == record' = 0 /\ main' = "idle"

Stop ==
    /\ main = "idle" /\ record # 0
    /\ IF Running(record) THEN main' = "stop" /\ UNCHANGED record ELSE Deleted
    /\ UNCHANGED <<started, mixed, block, mem, threads, capture, ring, writing, dev, filters, file>>

StopSet ==
    /\ main = "stop" /\ Deleted
    /\ Set(record, "exit_flag", "IDLE")
    /\ UNCHANGED <<started, mixed, block, threads, capture, ring, writing, dev, filters, file>>

-----------------------------------------------------------------------------
\* DMXThread of recording k.  It makes the ring buffer and the file thread, which may be
\* refused.
Create(k) ==
    /\ dmx[k] = "create" /\ Dmx(k, "sync")
    /\ ring' = [ring EXCEPT ![k] = <<>>]
    /\ \/ Set(k, "ringbuffer", k) /\ Fil(k, "start")
       \/ /\ mem' = [mem EXCEPT ![block[k]].ringbuffer = k,
                                ![block[k]].exit_flag = "WRITE_OPEN_FAILURE"]
          /\ Fil(k, "refused")
    /\ UNCHANGED <<caller, block, capture, writing, dev, filters, file>>

\* The n-th and the following bytes of the device the object names.
Bytes(k, n) == [i \in 1..n |-> <<This(k).dvrfd, dev[This(k).dvrfd].next + i>>]
Deliver(k, n) ==
    LET d == This(k).dvrfd
    IN  /\ d # 0 /\ dev[d].open /\ dev[d].next + n <= MaxBytes
        /\ dev' = [dev EXCEPT ![d].next = @ + n]

\* The loop that looks for the start of a packet: what comes before it is dropped.  A poll
\* of 15 seconds without data is no failure.
SyncRead(k) ==
    /\ dmx[k] = "sync" /\ Running(k) /\ Dmx(k, "first")
    /\ \E n \in 1..Packet :
          /\ Deliver(k, n)
          /\ packet' = [packet EXCEPT ![k] = Bytes(k, n)]
    /\ UNCHANGED <<caller, block, mem, fil, todo, ring, writing, filters, file>>

SyncError(k) ==
    /\ dmx[k] = "sync" /\ Running(k) /\ Fail(k, "READ_FAILURE")
    /\ UNCHANGED <<caller, block, threads, capture, ring, writing, dev, filters, file>>

SyncEnd(k) ==
    /\ dmx[k] = "sync" /\ ~Running(k) /\ Dmx(k, "close")
    /\ UNCHANGED <<caller, block, mem, fil, capture, ring, writing, dev, filters, file>>

\* ringbuffer_write of the first bytes.
First(k) ==
    /\ dmx[k] = "first"
    /\ packet' = [packet EXCEPT ![k] = <<>>]
    /\ IF Running(k)
       THEN LET space == Capacity - Len(ring[k])
                n     == Len(packet[k])
            IN  /\ ring' = [ring EXCEPT ![k] =
                               @ \o SubSeq(packet[k], 1, IF n > space THEN space ELSE n)]
                /\ IF n > space THEN Fail(k, "BUFFER_OVERFLOW") ELSE UNCHANGED <<mem>>
                /\ todo' = [todo EXCEPT ![k] = InSize - n]
                /\ Dmx(k, "chunk")
       ELSE Dmx(k, "close") /\ UNCHANGED <<ring, mem, todo>>
    /\ UNCHANGED <<caller, block, fil, writing, dev, filters, file>>

\* Mutant: the room is not looked at.
ChunkUnchecked(k) ==
    /\ dmx[k] = "chunk"
    /\ Dmx(k, IF Running(k) THEN "check" ELSE "close")
    /\ UNCHANGED <<caller, block, mem, fil, capture, ring, writing, dev, filters, file>>

\* A chunk of IN_SIZE bytes begins: there must be room for all of it.
Chunk(k) ==
    /\ dmx[k] = "chunk"
    /\ IF ~Running(k)
       THEN Dmx(k, "close") /\ UNCHANGED <<mem>>
       ELSE IF todo[k] > Capacity - Len(ring[k])
       THEN Fail(k, "BUFFER_OVERFLOW") /\ Dmx(k, "close")
       ELSE Dmx(k, "check") /\ UNCHANGED <<mem>>
    /\ UNCHANGED <<caller, block, fil, capture, ring, writing, dev, filters, file>>

Check(k) ==
    /\ dmx[k] = "check"
    /\ Dmx(k, IF Running(k) THEN "read" ELSE "close")
    /\ UNCHANGED <<caller, block, mem, fil, capture, ring, writing, dev, filters, file>>

Read(k) ==
    /\ dmx[k] = "read"
    /\ \E n \in 1..todo[k] :
          /\ Deliver(k, n)
          /\ ring' = [ring EXCEPT ![k] = @ \o Bytes(k, n)]
          /\ todo' = [todo EXCEPT ![k] = IF n = @ THEN InSize ELSE @ - n]
          /\ Dmx(k, IF n = todo[k] THEN "chunk" ELSE "check")
    /\ UNCHANGED <<caller, block, mem, fil, packet, writing, filters, file>>

\* No data for five seconds, or an error of the device.
ReadFailure(k) ==
    /\ dmx[k] = "read" /\ Dmx(k, "check")
    /\ Fail(k, "READ_FAILURE")
    /\ UNCHANGED <<caller, block, fil, capture, ring, writing, dev, filters, file>>

Close(k) ==
    /\ dmx[k] = "close" /\ Dmx(k, "join")
    /\ LET d == This(k).dvrfd
       IN  dev' = IF d = 0 THEN dev ELSE [dev EXCEPT ![d].open = FALSE]
    /\ UNCHANGED <<caller, block, mem, fil, capture, ring, writing, filters, file>>

\* pthread_join: the file thread has ended, or it was refused and its handle never set;
\* what waits for any thread may return at once or never.  Then the ring buffer is freed
\* and the filters are unset.
Join(k) ==
    /\ dmx[k] = "join" /\ fil[k] \in {"gone", "refused"} /\ Dmx(k, "gone")
    /\ LET f == This(k).demuxfd
       IN  filters' = IF f = 0 THEN filters ELSE [filters EXCEPT ![f] = FALSE]
    /\ Set(k, "demuxfd", 0)
    /\ ring' = [ring EXCEPT ![k] = <<>>]
    /\ UNCHANGED <<caller, block, fil, capture, writing, dev, file>>

JoinNobody(k) ==
    /\ dmx[k] = "join" /\ fil[k] = "refused" /\ Dmx(k, "lost")
    /\ UNCHANGED <<caller, block, mem, fil, capture, ring, writing, dev, filters, file>>

-----------------------------------------------------------------------------
\* FileThread of recording k.  It remembers the ring buffer and asks for vectors.
LookAt(k, r) ==
    /\ avail' = [avail EXCEPT ![k] = Len(ring[r])]
    /\ fring' = [fring EXCEPT ![k] = r]
    /\ Fil(k, IF ring[r] # <<>> THEN "write" ELSE "empty")
    /\ UNCHANGED <<caller, block, mem, dmx, capture, ring, dev, filters, file>>

Begin(k) == fil[k] = "start" /\ LookAt(k, This(k).ringbuffer)
Look(k)  == fil[k] = "look"  /\ LookAt(k, fring[k])

\* Mutant: what write() did not take is skipped.
WriteOnce(k) ==
    /\ fil[k] = "write" /\ Fil(k, "look")
    /\ \E n \in 1..avail[k] :
          LET r == fring[k]  f == This(k).file_fd
          IN  /\ file' = [file EXCEPT ![f] = @ \o SubSeq(ring[r], 1, n)]
              /\ ring' = [ring EXCEPT ![r] = SubSeq(@, avail[k] + 1, Len(@))]
              /\ avail' = [avail EXCEPT ![k] = 0]
    /\ UNCHANGED <<caller, block, mem, dmx, capture, fring, dev, filters>>

\* write() takes a part of the vector, to the file the object names.
Write(k) ==
    /\ fil[k] = "write"
    /\ \E n \in 1..avail[k] :
          LET r == fring[k]  f == This(k).file_fd
              m == IF n > Len(ring[r]) THEN Len(ring[r]) ELSE n
          IN  /\ file' = [file EXCEPT ![f] = @ \o SubSeq(ring[r], 1, m)]
              /\ ring' = [ring EXCEPT ![r] = SubSeq(@, m + 1, Len(@))]
              /\ avail' = [avail EXCEPT ![k] = @ - n]
              /\ Fil(k, IF n = avail[k] THEN "look" ELSE "write")
    /\ UNCHANGED <<caller, block, mem, dmx, capture, fring, dev, filters>>

WriteFailure(k) ==
    /\ fil[k] = "write" /\ Fil(k, "gone")
    /\ Fail(k, "WRITE_FAILURE")
    /\ UNCHANGED <<caller, block, dmx, capture, ring, writing, dev, filters, file>>

\* Mutant: the thread does not look at the flag.
EmptyForEver(k) ==
    /\ fil[k] = "empty" /\ Fil(k, "look")
    /\ UNCHANGED <<caller, block, mem, dmx, capture, ring, writing, dev, filters, file>>

\* The vector was empty: the thread ends when the recording does.
Empty(k) ==
    /\ fil[k] = "empty"
    /\ Fil(k, IF Running(k) THEN "look" ELSE "gone")
    /\ UNCHANGED <<caller, block, mem, dmx, capture, ring, writing, dev, filters, file>>

-----------------------------------------------------------------------------
Main == NewRecord \/ Start \/ Stop \/ StopSet

DMXThread(k) ==
    \/ Create(k) \/ SyncRead(k) \/ SyncError(k) \/ SyncEnd(k) \/ First(k)
    \/ Chunk(k) \/ Check(k) \/ Read(k) \/ ReadFailure(k) \/ Close(k) \/ Join(k)
    \/ JoinNobody(k)

FileThread(k) == Begin(k) \/ Look(k) \/ Write(k) \/ WriteFailure(k) \/ Empty(k)

Next == Main \/ \E k \in Recs : DMXThread(k) \/ FileThread(k)

\* Threads run; poll returns after its timeout, and write after a while.
Fairness == \A k \in Recs : WF_vars(DMXThread(k)) /\ WF_vars(FileThread(k))

Spec == Init /\ [][Next]_vars /\ Fairness

-----------------------------------------------------------------------------
TypeOK ==
    /\ record \in Recs \cup {0} /\ main \in {"idle", "start", "stop"}
    /\ started \in 0..Recordings
    /\ block \in [Recs -> Blocks \cup {0}] /\ mem \in [Blocks -> ObjectType]
    /\ dmx \in [Recs -> {"none", "create", "sync", "first", "chunk", "check", "read",
                         "close", "join", "gone", "lost"}]
    /\ fil \in [Recs -> {"none", "start", "look", "write", "empty", "gone", "refused"}]
    /\ todo \in [Recs -> 0..InSize]
    /\ \A k \in Recs : /\ Len(packet[k]) <= Packet /\ Len(ring[k]) <= Capacity
                       /\ avail[k] <= Capacity /\ fring[k] \in Recs \cup {0}
    /\ dev \in [Recs -> [open : BOOLEAN, next : 0..MaxBytes]]
    /\ filters \in [Recs -> BOOLEAN]
    /\ \A k \in Recs : file[k] \in Seq(Recs \X (1..MaxBytes))
    /\ mixed \subseteq Recs

\* The file holds what the demultiplexer of its own recording delivered, from the first
\* byte on and without a gap, whatever the chunks, the partial writes and the failures, and
\* while the threads of earlier recordings still end in memory of their own
\* (record_cs.cpp:100-142, 206-300).  It says nothing of a recording that was started in the
\* object or the memory that threads of an earlier one still used, of that earlier one, and
\* of the recordings after it (stream2file.cpp:125, 164).
FilesAreGapless ==
    \A k \in Recs \ mixed : \A i \in DOMAIN file[k] : file[k][i] = <<k, i>>

\* A recording that was stopped or has failed releases its filters and its device and its
\* threads end: DMXThread waits for FileThread, which waits for the flag.  Excepted are the
\* recordings FilesAreGapless excepts, and one whose file thread was refused and whose
\* pthread_join of nobody did not return (record_cs.cpp:203, 304).
RecordingsEnd ==
    \A k \in Recs :
        (dmx[k] # "none" /\ ~Running(k)) ~>
            \/ dmx[k] = "gone" /\ fil[k] \in {"gone", "refused"} /\ ~filters[k] /\ ~dev[k].open
            \/ k \in mixed
            \/ dmx[k] = "lost" /\ fil[k] = "refused"
=============================================================================

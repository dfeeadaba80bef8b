------------------------- MODULE RecordThreadsProofs -------------------------
(***************************************************************************)
(* The files of recordings are gapless for every number of recordings,     *)
(* every size of the ring buffer, of packets and of chunks and every       *)
(* length of the stream, except for those whose object threads of another  *)
(* recording have used: these only touch one another.                      *)
(***************************************************************************)
EXTENDS RecordThreads, TLAPS

\* Where the two threads of a recording are while they run, and when FileThread does not.
Capturing == {"sync", "first", "chunk", "check", "read", "close", "join"}
Storing   == {"start", "look", "write", "empty"}
Ended     == {"gone", "refused"}

\* What a demultiplexer delivers.
Stream == Recs \X (1..MaxBytes)

\* The types TypeOK leaves open.
Types ==
    /\ packet \in [Recs -> Seq(Stream)] /\ ring \in [Recs -> Seq(Stream)]
    /\ file \in [Recs -> Seq(Stream)]
    /\ fring \in [Recs -> Recs \cup {0}] /\ avail \in [Recs -> Nat]

\* The main thread has an object while it starts or stops it, and starts a new one.
Pointer ==
    /\ main # "idle" => record # 0
    /\ main = "start" => dmx[record] = "none"
    /\ record <= started
    /\ \A k \in Recs : k > started => dmx[k] = "none"

\* Whose object is the memory of recording k's.
InUse(k) == Alive(k) \/ k = record

\* Memory that belongs to two recordings mixes both.
Owned ==
    /\ \A k \in Recs : InUse(k) => block[k] # 0
    /\ \A j, k \in Recs : InUse(j) /\ InUse(k) /\ block[j] = block[k] =>
          j = k \/ (j \in mixed /\ k \in mixed)

\* FileThread runs within the time of DMXThread, and a chunk has room.
Together(k) ==
    /\ dmx[k] \in {"none", "create"} => fil[k] = "none"
    /\ dmx[k] \in Capturing => fil[k] \in Storing \cup Ended
    /\ dmx[k] \in {"gone", "lost"} => fil[k] \in Ended
    /\ dmx[k] \in {"check", "read"} => todo[k] + Len(ring[k]) <= Capacity

\* The recordings whose files, rings and descriptors recording k may touch: its own, or
\* those of mixed recordings.
Home(k) == IF k \in mixed THEN mixed ELSE {k}
Fds(k)  == IF k \in mixed THEN mixed \cup {0} ELSE {k}

Members(k) ==
    /\ dmx[k] \in Capturing \cup {"create"} =>
          This(k).dvrfd \in Fds(k) /\ This(k).demuxfd \in Fds(k) /\ This(k).file_fd \in Home(k)
    /\ dmx[k] \in Capturing => This(k).ringbuffer \in Home(k)
    /\ fil[k] \in {"look", "write", "empty"} => fring[k] \in Home(k)

\* What is in the file, in the ring buffer and in the hands of DMXThread is the stream from
\* its first byte on; nothing was lost as long as more is read.
Flow(k) ==
    /\ \A i \in 1..Len(file[k])   : file[k][i] = <<k, i>>
    /\ \A i \in 1..Len(ring[k])   : ring[k][i] = <<k, Len(file[k]) + i>>
    /\ \A i \in 1..Len(packet[k]) : packet[k][i] = <<k, i>>
    /\ dmx[k] \in {"none", "create", "sync"} => dev[k].next = 0 /\ file[k] = <<>> /\ ring[k] = <<>>
    /\ dmx[k] = "first" =>
          Len(packet[k]) = dev[k].next /\ file[k] = <<>> /\ ring[k] = <<>>
    /\ dmx[k] # "first" => packet[k] = <<>>
    /\ dmx[k] = "read" \/ (dmx[k] \in {"chunk", "check"} /\ Running(k)) =>
           Len(file[k]) + Len(ring[k]) = dev[k].next

\* The vector of FileThread lies in the buffer.
Vector(k) == fil[k] = "write" => avail[k] \in 1..Len(ring[k])

\* A recording that has ended has given its filters and its device back.
Closed(k) ==
    /\ dmx[k] \in {"join", "gone"} => ~dev[k].open
    /\ dmx[k] = "gone" => ~filters[k]

Pure(k) == Flow(k) /\ Vector(k) /\ Closed(k)

IInv ==
    /\ TypeOK /\ Types /\ Pointer /\ Owned
    /\ \A k \in Recs : Together(k) /\ Members(k)
    /\ \A k \in Recs \ mixed : Pure(k)

-----------------------------------------------------------------------------
LEMMA InitInvariant == Init => IInv
<1> SUFFICES ASSUME Init PROVE IInv
  OBVIOUS
<1> USE DEF Init, Recs, Blocks, Flags
<1>1. TypeOK /\ Types
  BY SizesAssumption DEF TypeOK, Types, ObjectType
<1>2. Pointer /\ Owned
  BY SizesAssumption DEF Pointer, Owned, InUse, Alive
<1>3. \A k \in Recs : Together(k) /\ Members(k)
  BY SizesAssumption DEF Together, Members, Capturing
<1>4. \A k \in Recs : Pure(k)
  BY SizesAssumption DEF Capturing, Pure, Flow, Vector, Closed, Running
<1> QED BY <1>1, <1>2, <1>3, <1>4 DEF IInv

-----------------------------------------------------------------------------
\* A function on the recordings with another value for one of them.
LEMMA ExceptType ==
    ASSUME NEW S, NEW f \in [Recs -> S], NEW k \in Recs, NEW v \in S
    PROVE  /\ [f EXCEPT ![k] = v] \in [Recs -> S]
           /\ [f EXCEPT ![k] = v][k] = v
           /\ \A j \in Recs \ {k} : [f EXCEPT ![k] = v][j] = f[j]
  OBVIOUS

LEMMA DevType ==
    ASSUME TypeOK, NEW k \in Recs, NEW n \in Nat, dev[k].next + n <= MaxBytes
    PROVE  [dev EXCEPT ![k].next = @ + n] \in [Recs -> [open : BOOLEAN, next : 0..MaxBytes]]
<1>1. dev \in [Recs -> [open : BOOLEAN, next : 0..MaxBytes]] /\ MaxBytes \in Nat
  BY SizesAssumption DEF TypeOK
<1>2. dev[k].next + n \in 0..MaxBytes
  BY <1>1
<1>3. [dev[k] EXCEPT !.next = dev[k].next + n] \in [open : BOOLEAN, next : 0..MaxBytes]
  BY <1>1, <1>2
<1> QED BY <1>1, <1>3, ExceptType

\* The memory of a recording in use.
LEMMA BlockInUse == ASSUME TypeOK, Owned, NEW k \in Recs, InUse(k) PROVE block[k] \in Blocks
  BY DEF TypeOK, Owned, Blocks, Recs

\* Where DMXThread runs and where FileThread does.
LEMMA DMXAlive ==
    ASSUME NEW k \in Recs, DMXThread(k) PROVE Alive(k) /\ dmx[k] \in Capturing \cup {"create"}
  BY DEF DMXThread, Create, SyncRead, SyncError, SyncEnd, First, Chunk, Check, Read, ReadFailure,
         Close, Join, JoinNobody, Alive, Capturing

LEMMA FileAlive ==
    ASSUME IInv, NEW k \in Recs, FileThread(k)
    PROVE  Alive(k) /\ dmx[k] \in Capturing /\ fil[k] \in Storing
<1>1. fil[k] \in Storing
  BY DEF FileThread, Begin, Look, Write, WriteFailure, Empty, Storing
<1>2. Alive(k)
  BY <1>1 DEF Alive, Storing
<1>3. Together(k) /\ TypeOK
  BY DEF IInv
<1>4. fil[k] \notin Ended /\ fil[k] # "none"
  BY <1>1 DEF Storing, Ended
<1> QED BY <1>1, <1>2, <1>3, <1>4 DEF Together, TypeOK, Capturing

\* The descriptors, the ring buffer and the file a thread uses.
LEMMA HomeIsRecs ==
    ASSUME TypeOK, NEW k \in Recs
    PROVE  Home(k) \subseteq Recs /\ Fds(k) \subseteq Recs \cup {0} /\ 0 \notin Home(k)
  BY DEF TypeOK, Home, Fds, Recs

\* What a device delivers.
LEMMA BytesOfDevice ==
    ASSUME TypeOK, NEW k \in Recs, block[k] \in Blocks, NEW n \in Nat, Deliver(k, n)
    PROVE  /\ This(k).dvrfd \in Recs
           /\ Bytes(k, n) \in Seq(Stream) /\ Len(Bytes(k, n)) = n
           /\ \A i \in 1..n : Bytes(k, n)[i] = <<This(k).dvrfd, dev[This(k).dvrfd].next + i>>
           /\ dev' = [dev EXCEPT ![This(k).dvrfd].next = @ + n]
           /\ dev' \in [Recs -> [open : BOOLEAN, next : 0..MaxBytes]]
<1> DEFINE d == This(k).dvrfd
<1>1. d \in Recs
  BY DEF Deliver, This, TypeOK, ObjectType
<1>2. dev[d].next + n <= MaxBytes /\ dev' = [dev EXCEPT ![d].next = @ + n]
  BY DEF Deliver
<1>3. Bytes(k, n) = [i \in 1..n |-> <<d, dev[d].next + i>>]
  BY DEF Bytes
<1> HIDE DEF d
<1>4. \A i \in 1..n : <<d, dev[d].next + i>> \in Stream
  BY <1>1, <1>2, SizesAssumption DEF TypeOK, Stream
<1>5. Bytes(k, n) \in Seq(Stream) /\ Len(Bytes(k, n)) = n
  BY <1>3, <1>4
<1>6. \A i \in 1..n : Bytes(k, n)[i] = <<d, dev[d].next + i>>
  BY <1>3
<1>7. dev' \in [Recs -> [open : BOOLEAN, next : 0..MaxBytes]]
  BY <1>1, <1>2, DevType
<1> QED BY <1>1, <1>2, <1>5, <1>6, <1>7 DEF d

\* Objects with other members are objects.
LEMMA SetType ==
    ASSUME mem \in [Blocks -> ObjectType], NEW b \in Blocks, NEW flag \in Flags,
           NEW r \in Recs \cup {0}, NEW x \in Recs \cup {0}
    PROVE  /\ [mem EXCEPT ![b].exit_flag = flag] \in [Blocks -> ObjectType]
           /\ [mem EXCEPT ![b].demuxfd = r] \in [Blocks -> ObjectType]
           /\ [mem EXCEPT ![b].ringbuffer = r] \in [Blocks -> ObjectType]
           /\ [mem EXCEPT ![b].ringbuffer = r, ![b].exit_flag = flag] \in [Blocks -> ObjectType]
           /\ [mem EXCEPT ![b].file_fd = r, ![b].demuxfd = x] \in [Blocks -> ObjectType]
           /\ [mem EXCEPT ![b].file_fd = r, ![b].demuxfd = x, ![b].dvrfd = x] \in [Blocks -> ObjectType]
           /\ [mem EXCEPT ![b].file_fd = r, ![b].demuxfd = x, ![b].dvrfd = r,
                         ![b].exit_flag = flag] \in [Blocks -> ObjectType]
<1>1. [mem EXCEPT ![b].exit_flag = flag] \in [Blocks -> ObjectType]
  BY DEF ObjectType
<1>2. /\ [mem EXCEPT ![b].demuxfd = r] \in [Blocks -> ObjectType]
      /\ [mem EXCEPT ![b].ringbuffer = r] \in [Blocks -> ObjectType]
  BY DEF ObjectType
<1>3. [mem EXCEPT ![b].ringbuffer = r, ![b].exit_flag = flag] \in [Blocks -> ObjectType]
  BY DEF ObjectType
<1>4. [mem EXCEPT ![b].file_fd = r, ![b].demuxfd = x] \in [Blocks -> ObjectType]
  BY DEF ObjectType
<1>5. [mem EXCEPT ![b].file_fd = r, ![b].demuxfd = x, ![b].dvrfd = x] \in [Blocks -> ObjectType]
  BY ZenonT(40) DEF ObjectType
<1>6. [mem EXCEPT ![b].file_fd = r, ![b].demuxfd = x, ![b].dvrfd = r, ![b].exit_flag = flag]
         \in [Blocks -> ObjectType]
  BY ZenonT(40) DEF ObjectType
<1> QED BY <1>1, <1>2, <1>3, <1>4, <1>5, <1>6

\* A new recording gets memory of its own, or mixes those that use it.
LEMMA NewBlock ==
    ASSUME TypeOK, Pointer, Owned, NewRecord
    PROVE  /\ started + 1 \in Recs /\ started \in Nat
           /\ \E b \in Blocks :
                 /\ block' = [block EXCEPT ![started + 1] = b]
                 /\ mem' = [mem EXCEPT ![b].exit_flag = "IDLE"]
                 /\ mixed' = IF mixed \cup Users(b) = {} THEN {}
                             ELSE mixed \cup Users(b) \cup {started + 1}
                 /\ mixed' \subseteq Recs
<1>1. started + 1 \in Recs /\ started \in Nat
  BY SizesAssumption DEF NewRecord, TypeOK, Recs
<1>2. PICK b \in IF record # 0 THEN {block[record]} ELSE 1..(started + 1) :
          /\ block' = [block EXCEPT ![started + 1] = b]
          /\ mem' = [mem EXCEPT ![b].exit_flag = "IDLE"]
          /\ mixed' = IF mixed \cup Users(b) = {} THEN {}
                      ELSE mixed \cup Users(b) \cup {started + 1}
  BY DEF NewRecord
<1>3. b \in Blocks
  <2>1. CASE record # 0
    <3>1. record \in Recs /\ InUse(record)
      BY <2>1 DEF TypeOK, InUse
    <3> QED BY <1>2, <2>1, <3>1, BlockInUse
  <2>2. CASE record = 0
    BY <1>1, <1>2, <2>2, SizesAssumption DEF Blocks, Recs
  <2> QED BY <2>1, <2>2
<1>4. mixed' \subseteq Recs
  BY <1>1, <1>2 DEF Users, TypeOK
<1> QED BY <1>1, <1>2, <1>3, <1>4

\* Types: the steps of the main thread.
LEMMA TypesMain == ASSUME IInv, Main PROVE TypeOK' /\ Types'
<1>0. TypeOK /\ Types /\ Pointer /\ Owned
  BY DEF IInv
<1> USE DEF caller, threads, capture, writing
<1>1. CASE NewRecord
  <2>1. started + 1 \in Recs
    BY <1>0, <1>1, SizesAssumption DEF NewRecord, TypeOK, Recs
  <2>2. PICK b \in Blocks :
            /\ block' = [block EXCEPT ![started + 1] = b]
            /\ mem' = [mem EXCEPT ![b].exit_flag = "IDLE"]
            /\ mixed' = IF mixed \cup Users(b) = {} THEN {}
                        ELSE mixed \cup Users(b) \cup {started + 1}
            /\ mixed' \subseteq Recs
    BY <1>0, <1>1, <2>1, NewBlock
  <2>3. b \in Blocks
    BY <2>2
  <2>4. mem' \in [Blocks -> ObjectType]
    <3>1. mem \in [Blocks -> ObjectType] /\ "IDLE" \in Flags /\ 0 \in Recs \cup {0}
      BY <1>0 DEF TypeOK, Flags
    <3> QED BY <2>2, <2>3, <3>1, SetType
  <2>5. block' \in [Recs -> Blocks \cup {0}]
    BY <1>0, <2>2, <2>3 DEF TypeOK
  <2>6. record' \in Recs \cup {0} /\ started' \in 0..Recordings /\ main' \in {"idle", "start", "stop"}
    BY <1>1, <2>1 DEF NewRecord, Recs
  <2>7. mixed' \subseteq Recs
    BY <2>2
  <2> QED BY <1>0, <1>1, <2>4, <2>5, <2>6, <2>7 DEF NewRecord, TypeOK, Types
<1>2. CASE Start
  <2>1. record \in Recs /\ InUse(record) /\ block[record] \in Blocks
    BY <1>0, <1>2, BlockInUse DEF Start, Pointer, TypeOK, InUse
  <2>2. mem' \in [Blocks -> ObjectType]
    <3>1. PICK x \in Recs \cup {0}, z \in Flags :
              \/ mem' = [mem EXCEPT ![block[record]].file_fd = record, ![block[record]].demuxfd = x]
              \/ mem' = [mem EXCEPT ![block[record]].file_fd = record, ![block[record]].demuxfd = x,
                             ![block[record]].dvrfd = x]
              \/ mem' = [mem EXCEPT ![block[record]].file_fd = record, ![block[record]].demuxfd = x,
                             ![block[record]].dvrfd = record, ![block[record]].exit_flag = z]
      BY <1>2, <2>1, Zenon DEF Start, Flags
    <3>2. mem \in [Blocks -> ObjectType] /\ record \in Recs \cup {0}
      BY <1>0 DEF TypeOK
    <3>3. /\ [mem EXCEPT ![block[record]].file_fd = record, ![block[record]].demuxfd = x]
                \in [Blocks -> ObjectType]
          /\ [mem EXCEPT ![block[record]].file_fd = record, ![block[record]].demuxfd = x,
                         ![block[record]].dvrfd = x] \in [Blocks -> ObjectType]
          /\ [mem EXCEPT ![block[record]].file_fd = record, ![block[record]].demuxfd = x,
                         ![block[record]].dvrfd = record, ![block[record]].exit_flag = z]
                \in [Blocks -> ObjectType]
      BY <2>1, <3>2, SetType
    <3> QED BY <3>1, <3>3
  <2>3. /\ dev' = dev \/ dev' = [dev EXCEPT ![record].open = TRUE]
        /\ filters' = filters \/ filters' = [filters EXCEPT ![record] = TRUE]
    BY <1>2 DEF Start
  <2>6. dev' \in [Recs -> [open : BOOLEAN, next : 0..MaxBytes]] /\ filters' \in [Recs -> BOOLEAN]
    <3>1. [dev EXCEPT ![record].open = TRUE] \in [Recs -> [open : BOOLEAN, next : 0..MaxBytes]]
      BY <1>0, <2>1 DEF TypeOK
    <3>2. [filters EXCEPT ![record] = TRUE] \in [Recs -> BOOLEAN]
      BY <1>0, <2>1 DEF TypeOK
    <3> QED BY <1>0, <2>3, <3>1, <3>2 DEF TypeOK
  <2>4. dmx' \in [Recs -> {"none", "create", "sync", "first", "chunk", "check", "read",
                           "close", "join", "gone", "lost"}]
    BY <1>0, <1>2 DEF Start, Dmx, TypeOK
  <2>5. record' \in Recs \cup {0} /\ main' = "idle" /\ UNCHANGED block
    BY <1>0, <1>2 DEF Start, TypeOK
  <2> QED BY <1>0, <1>2, <2>2, <2>6, <2>4, <2>5 DEF Start, TypeOK, Types
<1>3. CASE Stop
  BY <1>0, <1>3, SizesAssumption DEF Stop, Deleted, TypeOK, Types
<1>4. CASE StopSet
  <2>1. record \in Recs /\ InUse(record) /\ block[record] \in Blocks
    BY <1>0, <1>4, BlockInUse DEF StopSet, Pointer, TypeOK, InUse
  <2>2. mem' \in [Blocks -> ObjectType]
    <3>1. mem \in [Blocks -> ObjectType] /\ "IDLE" \in Flags /\ 0 \in Recs \cup {0}
      BY <1>0 DEF TypeOK, Flags
    <3>2. mem' = [mem EXCEPT ![block[record]].exit_flag = "IDLE"]
      BY <1>4 DEF StopSet, Set
    <3> QED BY <2>1, <3>1, <3>2, SetType
  <2> QED BY <1>0, <1>4, <2>2 DEF StopSet, Deleted, TypeOK, Types
<1> QED BY <1>1, <1>2, <1>3, <1>4 DEF Main

\* What a thread of a recording does to its object.
LEMMA ThreadSetType ==
    ASSUME TypeOK, Owned, NEW k \in Recs, Alive(k)
    PROVE  /\ block[k] \in Blocks
           /\ \A flag \in Flags : Fail(k, flag) => mem' \in [Blocks -> ObjectType]
           /\ Set(k, "demuxfd", 0) => mem' \in [Blocks -> ObjectType]
           /\ Create(k) => mem' \in [Blocks -> ObjectType]
<1>1. block[k] \in Blocks
  BY BlockInUse DEF InUse
<1>2. mem \in [Blocks -> ObjectType] /\ 0 \in Recs \cup {0} /\ "WRITE_OPEN_FAILURE" \in Flags
  BY DEF TypeOK, Flags
<1>3. ASSUME NEW flag \in Flags, Fail(k, flag) PROVE mem' \in [Blocks -> ObjectType]
  <2>1. mem' = [mem EXCEPT ![block[k]].exit_flag = flag]
    BY <1>3 DEF Fail, Set
  <2> QED BY <1>1, <1>2, <2>1, SetType
<1>4. ASSUME Set(k, "demuxfd", 0) PROVE mem' \in [Blocks -> ObjectType]
  <2>1. mem' = [mem EXCEPT ![block[k]].demuxfd = 0]
    BY <1>4 DEF Set
  <2> QED BY <1>1, <1>2, <2>1, SetType
<1>5. ASSUME Create(k) PROVE mem' \in [Blocks -> ObjectType]
  <2>1. \/ mem' = [mem EXCEPT ![block[k]].ringbuffer = k]
        \/ mem' = [mem EXCEPT ![block[k]].ringbuffer = k,
                              ![block[k]].exit_flag = "WRITE_OPEN_FAILURE"]
    BY <1>5 DEF Create, Set
  <2>2. k \in Recs \cup {0}
    OBVIOUS
  <2>3. /\ [mem EXCEPT ![block[k]].ringbuffer = k] \in [Blocks -> ObjectType]
        /\ [mem EXCEPT ![block[k]].ringbuffer = k,
                       ![block[k]].exit_flag = "WRITE_OPEN_FAILURE"] \in [Blocks -> ObjectType]
    BY <1>1, <1>2, <2>2, SetType
  <2> QED BY <2>1, <2>3
<1> QED BY <1>1, <1>3, <1>4, <1>5

\* Types: the steps of DMXThread.
LEMMA TypesDMX == ASSUME IInv, NEW k \in Recs, DMXThread(k) PROVE TypeOK' /\ Types'
<1>0. TypeOK /\ Types /\ Owned /\ Together(k)
  BY DEF IInv
<1>a. Alive(k) /\ block[k] \in Blocks
  BY <1>0, DMXAlive, ThreadSetType
<1>b. \A at \in Capturing \cup {"gone", "lost"} : Dmx(k, at) =>
          dmx' \in [Recs -> {"none", "create", "sync", "first", "chunk", "check", "read", "close",
                             "join", "gone", "lost"}]
  BY <1>0 DEF TypeOK, Dmx, Capturing
<1>c. \A flag \in Failures : Fail(k, flag) => mem' \in [Blocks -> ObjectType]
  BY <1>0, <1>a, ThreadSetType DEF Failures
<1> USE SizesAssumption DEF caller, threads, capture, writing
<1>1. CASE Create(k)
  <2>1. ring' \in [Recs -> Seq(Stream)] /\ \A j \in Recs : Len(ring'[j]) <= Capacity
    BY <1>0, <1>1 DEF Create, TypeOK, Types
  <2>2. mem' \in [Blocks -> ObjectType]
    BY <1>0, <1>1, <1>a, ThreadSetType DEF Create
  <2>3. fil' \in [Recs -> {"none", "start", "look", "write", "empty", "gone", "refused"}]
    BY <1>0, <1>1 DEF Create, TypeOK, Fil
  <2> QED BY <1>0, <1>1, <1>b, <2>1, <2>2, <2>3 DEF Create, TypeOK, Types, Capturing
<1>2. CASE SyncRead(k)
  <2>1. PICK n \in 1..Packet : Deliver(k, n) /\ packet' = [packet EXCEPT ![k] = Bytes(k, n)]
    BY <1>2 DEF SyncRead
  <2>0. n \in Nat
    OBVIOUS
  <2>2. Bytes(k, n) \in Seq(Stream) /\ Len(Bytes(k, n)) = n
    BY <1>0, <1>a, <2>0, <2>1, BytesOfDevice
  <2>3. dev' \in [Recs -> [open : BOOLEAN, next : 0..MaxBytes]]
    BY <1>0, <1>a, <2>0, <2>1, BytesOfDevice
  <2>4. packet' \in [Recs -> Seq(Stream)] /\ \A j \in Recs : Len(packet'[j]) <= Packet
    <3>1. packet' \in [Recs -> Seq(Stream)]
      BY <1>0, <2>1, <2>2 DEF Types
    <3>2. \A j \in Recs \ {k} : packet'[j] = packet[j]
      BY <1>0, <2>1 DEF Types
    <3>3. packet'[k] = Bytes(k, n)
      BY <1>0, <2>1 DEF Types
    <3>4. Len(packet'[k]) <= Packet
      BY <2>1, <2>2, <3>3
    <3>5. \A j \in Recs : Len(packet[j]) <= Packet
      BY <1>0 DEF TypeOK
    <3> QED BY <3>1, <3>2, <3>4, <3>5
  <2> QED BY <1>0, <1>2, <1>b, <2>3, <2>4 DEF SyncRead, TypeOK, Types, Capturing
<1>3. CASE SyncError(k)
  BY <1>0, <1>3, <1>c DEF SyncError, TypeOK, Types, Failures, Flags
<1>4. CASE SyncEnd(k)
  BY <1>0, <1>4, <1>b DEF SyncEnd, TypeOK, Types, Capturing
<1>5. CASE First(k)
  <2> DEFINE space == Capacity - Len(ring[k])
             n == Len(packet[k])
             m == IF n > space THEN space ELSE n
  <2>1. packet' \in [Recs -> Seq(Stream)] /\ \A j \in Recs : Len(packet'[j]) <= Packet
    <3>1. packet' = [packet EXCEPT ![k] = <<>>] /\ <<>> \in Seq(Stream) /\ Len(<<>>) <= Packet
      BY <1>5 DEF First
    <3>2. packet \in [Recs -> Seq(Stream)] /\ \A j \in Recs : Len(packet[j]) <= Packet
      BY <1>0 DEF TypeOK, Types
    <3> QED BY <3>1, <3>2, ExceptType
  <2>2. CASE Running(k)
    <3>0. /\ ring[k] \in Seq(Stream) /\ packet[k] \in Seq(Stream)
          /\ Len(ring[k]) <= Capacity /\ n <= Packet
      BY <1>0 DEF TypeOK, Types
    <3>1. n \in 0..Packet /\ m \in 0..n /\ m <= space /\ Len(ring[k]) \in Nat
      BY <3>0
    <3>2. SubSeq(packet[k], 1, m) \in Seq(Stream) /\ Len(SubSeq(packet[k], 1, m)) = m
      BY <3>0, <3>1
    <3>3. ring' = [ring EXCEPT ![k] = ring[k] \o SubSeq(packet[k], 1, m)]
      BY <1>5, <2>2 DEF First
    <3>4. ring' \in [Recs -> Seq(Stream)] /\ \A j \in Recs : Len(ring'[j]) <= Capacity
      <4>1. /\ ring[k] \o SubSeq(packet[k], 1, m) \in Seq(Stream)
            /\ Len(ring[k] \o SubSeq(packet[k], 1, m)) = Len(ring[k]) + m
        <5> HIDE DEF m
        <5> QED BY <3>0, <3>2
      <4>2. Len(ring[k]) + m <= Capacity
        BY <3>1
      <4> HIDE DEF m
      <4> QED BY <1>0, <3>3, <4>1, <4>2, ExceptType DEF TypeOK, Types
    <3>5. todo' \in [Recs -> 0..InSize]
      <4>1. todo' = [todo EXCEPT ![k] = InSize - n] /\ InSize - n \in 0..InSize
        <5>1. todo' = [todo EXCEPT ![k] = InSize - n]
          BY <1>5, <2>2 DEF First
        <5>2. InSize - n \in 0..InSize
          BY <3>1
        <5> QED BY <5>1, <5>2
      <4> QED BY <1>0, <4>1 DEF TypeOK
    <3>6. mem' \in [Blocks -> ObjectType]
      BY <1>0, <1>5, <2>2, <1>c DEF First, TypeOK, Failures, Flags
    <3> HIDE DEF m, n, space
    <3> QED BY <1>0, <1>5, <1>b, <2>1, <2>2, <3>4, <3>5, <3>6 DEF First, TypeOK, Types, Capturing
  <2>3. CASE ~Running(k)
    BY <1>0, <1>5, <1>b, <2>1, <2>3 DEF First, TypeOK, Types, Capturing
  <2> QED BY <2>2, <2>3
<1>6. CASE Chunk(k)
  BY <1>0, <1>6, <1>b, <1>c DEF Chunk, TypeOK, Types, Capturing, Failures, Flags
<1>7. CASE Check(k)
  BY <1>0, <1>7, <1>b DEF Check, TypeOK, Types, Capturing
<1>8. CASE Read(k)
  <2>1. PICK n \in 1..todo[k] :
            /\ Deliver(k, n)
            /\ ring' = [ring EXCEPT ![k] = @ \o Bytes(k, n)]
            /\ todo' = [todo EXCEPT ![k] = IF n = @ THEN InSize ELSE @ - n]
            /\ Dmx(k, IF n = todo[k] THEN "chunk" ELSE "check")
    BY <1>8 DEF Read
  <2>2. todo[k] \in 0..InSize /\ todo[k] + Len(ring[k]) <= Capacity /\ n \in Nat
        /\ ring[k] \in Seq(Stream)
    BY <1>0, <1>8 DEF Read, TypeOK, Types, Together
  <2>3. Bytes(k, n) \in Seq(Stream) /\ Len(Bytes(k, n)) = n
    BY <1>0, <1>a, <2>1, <2>2, BytesOfDevice
  <2>4. dev' \in [Recs -> [open : BOOLEAN, next : 0..MaxBytes]]
    BY <1>0, <1>a, <2>1, <2>2, BytesOfDevice
  <2>5. ring' \in [Recs -> Seq(Stream)] /\ \A j \in Recs : Len(ring'[j]) <= Capacity
    <3>1. /\ ring[k] \o Bytes(k, n) \in Seq(Stream)
          /\ Len(ring[k] \o Bytes(k, n)) = Len(ring[k]) + n
      BY <2>2, <2>3
    <3>2. Len(ring[k]) + n <= Capacity
      BY <2>2, SizesAssumption
    <3>3. ring' = [ring EXCEPT ![k] = ring[k] \o Bytes(k, n)]
      BY <2>1
    <3> QED BY <1>0, <3>1, <3>2, <3>3, ExceptType DEF TypeOK, Types
  <2>6. todo' \in [Recs -> 0..InSize]
    BY <1>0, <2>1, <2>2 DEF TypeOK
  <2> QED BY <1>0, <1>8, <1>b, <2>1, <2>4, <2>5, <2>6 DEF Read, TypeOK, Types, Capturing
<1>9. CASE ReadFailure(k)
  BY <1>0, <1>9, <1>b, <1>c DEF ReadFailure, TypeOK, Types, Capturing, Failures, Flags
<1>10. CASE Close(k)
  BY <1>0, <1>10, <1>b, ZenonT(40) DEF Close, TypeOK, Types, Capturing
<1>11. CASE Join(k)
  <2>1. ring' \in [Recs -> Seq(Stream)] /\ \A j \in Recs : Len(ring'[j]) <= Capacity
    BY <1>0, <1>11 DEF Join, TypeOK, Types
  <2>2. filters' \in [Recs -> BOOLEAN]
    BY <1>0, <1>11 DEF Join, TypeOK
  <2>3. mem' \in [Blocks -> ObjectType]
    BY <1>0, <1>11, <1>a, ThreadSetType DEF Join
  <2> QED BY <1>0, <1>11, <1>b, <2>1, <2>2, <2>3 DEF Join, TypeOK, Types
<1>12. CASE JoinNobody(k)
  BY <1>0, <1>12, <1>b DEF JoinNobody, TypeOK, Types
<1> QED BY <1>1, <1>2, <1>3, <1>4, <1>5, <1>6, <1>7, <1>8, <1>9, <1>10, <1>11, <1>12 DEF DMXThread

\* What FileThread writes and takes from the buffer, and what it leaves.
Front(s, m) == SubSeq(s, 1, m)
Back(s, m)  == SubSeq(s, m + 1, Len(s))

LEMMA WrittenPart ==
    ASSUME TypeOK, Types, NEW k \in Recs, Write(k), fring[k] \in Recs
    PROVE  \E n \in 1..avail[k], m \in Nat :
              /\ m = IF n > Len(ring[fring[k]]) THEN Len(ring[fring[k]]) ELSE n
              /\ file' = [file EXCEPT ![This(k).file_fd] =
                                         file[This(k).file_fd] \o Front(ring[fring[k]], m)]
              /\ ring' = [ring EXCEPT ![fring[k]] = Back(ring[fring[k]], m)]
              /\ avail' = [avail EXCEPT ![k] = avail[k] - n]
              /\ fil' = [fil EXCEPT ![k] = IF n = avail[k] THEN "look" ELSE "write"]
<1> DEFINE r == fring[k]
           f == This(k).file_fd
           part(n) == IF n > Len(ring[r]) THEN Len(ring[r]) ELSE n
<1>1. PICK n \in 1..avail[k] :
          /\ file' = [file EXCEPT ![f] = file[f] \o SubSeq(ring[r], 1, part(n))]
          /\ ring' = [ring EXCEPT ![r] = SubSeq(ring[r], part(n) + 1, Len(ring[r]))]
          /\ avail' = [avail EXCEPT ![k] = avail[k] - n]
          /\ fil' = [fil EXCEPT ![k] = IF n = avail[k] THEN "look" ELSE "write"]
  BY DEF Write, Fil
<1>2. part(n) \in Nat
  BY DEF Types
<1> QED BY <1>1, <1>2 DEF Front, Back

\* Types: the steps of FileThread.
LEMMA TypesFile == ASSUME IInv, NEW k \in Recs, FileThread(k) PROVE TypeOK' /\ Types'
<1>0. TypeOK /\ Types /\ Owned /\ Together(k) /\ Members(k)
  BY DEF IInv
<1>a. Alive(k) /\ dmx[k] \in Capturing /\ fil[k] \in Storing
  BY FileAlive
<1>b. \A at \in Storing \cup {"gone"} : Fil(k, at) =>
          fil' \in [Recs -> {"none", "start", "look", "write", "empty", "gone", "refused"}]
  BY <1>0 DEF TypeOK, Fil, Storing
<1>c. /\ This(k).file_fd \in Recs /\ This(k).ringbuffer \in Recs
      /\ fil[k] # "start" => fring[k] \in Recs
  <2>1. Home(k) \subseteq Recs
    BY <1>0, HomeIsRecs
  <2> QED BY <1>0, <1>a, <2>1 DEF Members, Storing
<1> USE SizesAssumption DEF caller, threads, capture, writing
<1>1. ASSUME NEW r \in Recs, LookAt(k, r) PROVE TypeOK' /\ Types'
  <2>1. /\ Len(ring[r]) \in Nat /\ Len(ring[r]) <= Capacity
        /\ avail' = [avail EXCEPT ![k] = Len(ring[r])] /\ fring' = [fring EXCEPT ![k] = r]
    BY <1>0, <1>1 DEF LookAt, TypeOK, Types
  <2>2. fil' \in [Recs -> {"none", "start", "look", "write", "empty", "gone", "refused"}]
    BY <1>1, <1>b DEF LookAt, Storing
  <2>3. avail' \in [Recs -> Nat] /\ \A j \in Recs : avail'[j] <= Capacity
    BY <1>0, <2>1 DEF TypeOK, Types
  <2>4. fring' \in [Recs -> Recs \cup {0}]
    BY <1>0, <2>1 DEF TypeOK, Types
  <2> QED BY <1>0, <1>1, <2>2, <2>3, <2>4 DEF LookAt, TypeOK, Types
<1>2. CASE Begin(k) \/ Look(k)
  BY <1>1, <1>2, <1>c DEF Begin, Look
<1>3. CASE Write(k)
  <2>1. PICK r \in Recs, f \in Recs : r = fring[k] /\ f = This(k).file_fd
    BY <1>3, <1>c DEF Write
  <2>2. PICK n \in 1..avail[k], m \in Nat :
          /\ m = IF n > Len(ring[r]) THEN Len(ring[r]) ELSE n
          /\ file' = [file EXCEPT ![f] = file[f] \o Front(ring[r], m)]
          /\ ring' = [ring EXCEPT ![r] = Back(ring[r], m)]
          /\ avail' = [avail EXCEPT ![k] = avail[k] - n]
          /\ fil' = [fil EXCEPT ![k] = IF n = avail[k] THEN "look" ELSE "write"]
    <3>1. fring[k] \in Recs
      BY <2>1
    <3>2. PICK n \in 1..avail[k], m \in Nat :
              /\ m = IF n > Len(ring[fring[k]]) THEN Len(ring[fring[k]]) ELSE n
              /\ file' = [file EXCEPT ![This(k).file_fd] =
                                         file[This(k).file_fd] \o Front(ring[fring[k]], m)]
              /\ ring' = [ring EXCEPT ![fring[k]] = Back(ring[fring[k]], m)]
              /\ avail' = [avail EXCEPT ![k] = avail[k] - n]
              /\ fil' = [fil EXCEPT ![k] = IF n = avail[k] THEN "look" ELSE "write"]
      BY <1>0, <1>3, <3>1, WrittenPart
    <3> QED BY <2>1, <3>2
  <2>3. /\ avail[k] \in Nat /\ avail[k] <= Capacity /\ ring[r] \in Seq(Stream)
        /\ file[f] \in Seq(Stream) /\ Len(ring[r]) \in Nat /\ Len(ring[r]) <= Capacity
        /\ m \in 0..Len(ring[r])
    <3>1. /\ avail[k] \in Nat /\ avail[k] <= Capacity /\ ring[r] \in Seq(Stream)
          /\ file[f] \in Seq(Stream) /\ Len(ring[r]) <= Capacity
      BY <1>0 DEF Types, TypeOK
    <3>2. Len(ring[r]) \in Nat
      BY <3>1
    <3>3. m = IF n > Len(ring[r]) THEN Len(ring[r]) ELSE n
      BY <2>2
    <3>4. m \in 0..Len(ring[r])
      BY <3>1, <3>2, <3>3
    <3> QED BY <3>1, <3>2, <3>4
  <2>5. file' \in [Recs -> Seq(Stream)]
    <3>1. SubSeq(ring[r], 1, m) \in Seq(Stream)
      BY <2>3
    <3>2. file[f] \o SubSeq(ring[r], 1, m) \in Seq(Stream)
      BY <2>3, <3>1
    <3> QED BY <1>0, <2>2, <3>2, ExceptType DEF Types, Front
  <2>6. ring' \in [Recs -> Seq(Stream)] /\ \A j \in Recs : Len(ring'[j]) <= Capacity
    <3>1. /\ SubSeq(ring[r], m + 1, Len(ring[r])) \in Seq(Stream)
          /\ Len(SubSeq(ring[r], m + 1, Len(ring[r]))) <= Capacity
      BY <2>3
    <3> QED BY <1>0, <2>2, <3>1, ExceptType DEF TypeOK, Types, Back
  <2>7. avail' \in [Recs -> Nat] /\ \A j \in Recs : avail'[j] <= Capacity
    <3>1. avail[k] - n \in Nat /\ avail[k] - n <= Capacity
      BY <2>3
    <3> QED BY <1>0, <2>2, <3>1, ExceptType DEF TypeOK, Types
  <2>8. fil' \in [Recs -> {"none", "start", "look", "write", "empty", "gone", "refused"}]
    BY <1>0, <2>2 DEF TypeOK
  <2>9. \A j \in Recs : file'[j] \in Seq(Recs \X (1..MaxBytes))
    BY <2>5 DEF Stream
  <2> QED BY <1>0, <1>3, <2>5, <2>6, <2>7, <2>8, <2>9 DEF Write, TypeOK, Types
<1>4. CASE WriteFailure(k)
  <2>1. mem' \in [Blocks -> ObjectType]
    BY <1>0, <1>4, <1>a, ThreadSetType DEF WriteFailure, Flags
  <2>2. fil' \in [Recs -> {"none", "start", "look", "write", "empty", "gone", "refused"}]
    BY <1>4, <1>b DEF WriteFailure
  <2> QED BY <1>0, <1>4, <2>1, <2>2 DEF WriteFailure, TypeOK, Types
<1>5. CASE Empty(k)
  <2>1. fil' \in [Recs -> {"none", "start", "look", "write", "empty", "gone", "refused"}]
    BY <1>5, <1>b DEF Empty, Storing
  <2> QED BY <1>0, <1>5, <2>1 DEF Empty, TypeOK, Types
<1> QED BY <1>2, <1>3, <1>4, <1>5 DEF FileThread

-----------------------------------------------------------------------------
\* One member of the object in memory b changes, or the two that Create sets.
OneMember(b, k, flag) ==
    \/ mem' = mem
    \/ mem' = [mem EXCEPT ![b].exit_flag = flag]
    \/ mem' = [mem EXCEPT ![b].demuxfd = 0]
    \/ mem' = [mem EXCEPT ![b].ringbuffer = k]
    \/ mem' = [mem EXCEPT ![b].ringbuffer = k, ![b].exit_flag = flag]

\* What a thread of recording k leaves of the members.
Kept(b, k) ==
    \A c \in Blocks :
        /\ c # b => mem'[c] = mem[c]
        /\ mem'[c].dvrfd = mem[c].dvrfd /\ mem'[c].file_fd = mem[c].file_fd
        /\ mem'[c].demuxfd \in {mem[c].demuxfd, 0}
        /\ mem'[c].ringbuffer \in {mem[c].ringbuffer, k}

\* What a thread of recording k does to the objects.
Touches(k) ==
    /\ UNCHANGED <<record, main, started, block, mixed>>
    /\ Kept(block[k], k)

LEMMA Fields ==
    ASSUME mem \in [Blocks -> ObjectType], NEW b \in Blocks, NEW k, NEW flag, OneMember(b, k, flag)
    PROVE  Kept(b, k)
<1> USE DEF Kept
<1>1. CASE mem' = mem
  BY <1>1
<1>2. CASE mem' = [mem EXCEPT ![b].exit_flag = flag]
  BY <1>2 DEF ObjectType
<1>3. CASE mem' = [mem EXCEPT ![b].demuxfd = 0]
  BY <1>3 DEF ObjectType
<1>4. CASE mem' = [mem EXCEPT ![b].ringbuffer = k]
  BY <1>4 DEF ObjectType
<1>5. CASE mem' = [mem EXCEPT ![b].ringbuffer = k, ![b].exit_flag = flag]
  BY <1>5 DEF ObjectType
<1> QED BY <1>1, <1>2, <1>3, <1>4, <1>5 DEF OneMember

LEMMA ThreadTouches ==
    ASSUME IInv, NEW k \in Recs, DMXThread(k) \/ FileThread(k) PROVE Touches(k)
<1>1. Alive(k)
  BY DMXAlive, FileAlive
<1>2. block[k] \in Blocks /\ mem \in [Blocks -> ObjectType]
  BY <1>1, BlockInUse DEF IInv, InUse, TypeOK
<1>3. UNCHANGED <<record, main, started, block, mixed>>
  BY DEF DMXThread, Create, SyncRead, SyncError, SyncEnd, First, Chunk, Check, Read, ReadFailure,
         Close, Join, JoinNobody, FileThread, Begin, Look, LookAt, Write, WriteFailure, Empty, caller
<1>4. PICK flag : OneMember(block[k], k, flag)
  <2>1. CASE Create(k)
    BY <2>1 DEF Create, Set, OneMember
  <2>2. CASE Join(k)
    BY <2>2 DEF Join, Set, OneMember
  <2>3. \/ UNCHANGED mem \/ Create(k) \/ Join(k)
        \/ Fail(k, "READ_FAILURE") \/ Fail(k, "BUFFER_OVERFLOW") \/ Fail(k, "WRITE_FAILURE")
    BY DEF DMXThread, SyncRead, SyncError, SyncEnd, First, Chunk, Check, Read, ReadFailure,
           Close, JoinNobody, FileThread, Begin, Look, LookAt, Write, WriteFailure, Empty
  <2> QED BY <2>1, <2>2, <2>3 DEF Fail, Set, OneMember
<1>5. Kept(block[k], k)
  BY <1>2, <1>4, Fields
<1> QED BY <1>3, <1>5 DEF Touches

\* What a step leaves alone of the threads of recording j.
Quiet(j) ==
    /\ dmx'[j] = dmx[j] /\ fil'[j] = fil[j] /\ todo'[j] = todo[j] /\ packet'[j] = packet[j]
    /\ fring'[j] = fring[j] /\ avail'[j] = avail[j] /\ block'[j] = block[j]

LEMMA QuietDMX ==
    ASSUME IInv, NEW k \in Recs, DMXThread(k), NEW j \in Recs, j # k
    PROVE  Quiet(j) /\ ring'[j] = ring[j]
<1>0. TypeOK /\ Types
  BY DEF IInv
<1>1. /\ dmx' = dmx \/ \E at : dmx' = [dmx EXCEPT ![k] = at]
      /\ fil' = fil \/ \E at : fil' = [fil EXCEPT ![k] = at]
      /\ todo' = todo \/ \E n : todo' = [todo EXCEPT ![k] = n]
      /\ packet' = packet \/ \E p : packet' = [packet EXCEPT ![k] = p]
      /\ ring' = ring \/ \E r : ring' = [ring EXCEPT ![k] = r]
      /\ UNCHANGED <<fring, avail, block>>
  BY DEF DMXThread, Create, SyncRead, SyncError, SyncEnd, First, Chunk, Check, Read, ReadFailure,
         Close, Join, JoinNobody, Dmx, Fil, threads, capture, writing
<1> QED BY <1>0, <1>1 DEF TypeOK, Types, Quiet

LEMMA QuietFile ==
    ASSUME IInv, NEW k \in Recs, FileThread(k), NEW j \in Recs, j # k
    PROVE  Quiet(j)
<1>0. TypeOK /\ Types
  BY DEF IInv
<1>1. /\ UNCHANGED <<dmx, todo, packet, block>>
      /\ \E at : fil' = [fil EXCEPT ![k] = at]
      /\ avail' = avail \/ \E n : avail' = [avail EXCEPT ![k] = n]
      /\ fring' = fring \/ \E r : fring' = [fring EXCEPT ![k] = r]
  BY DEF FileThread, Begin, Look, LookAt, Write, WriteFailure, Empty, Fil, threads, capture, writing
<1> QED BY <1>0, <1>1 DEF TypeOK, Types, Quiet

\* FileThread never puts anything into a ring buffer.
LEMMA RingsShrink ==
    ASSUME IInv, NEW k \in Recs, FileThread(k)
    PROVE  \A j \in Recs : Len(ring'[j]) <= Len(ring[j])
<1>0. TypeOK /\ Types /\ Members(k)
  BY DEF IInv
<1>1. CASE Write(k)
  <2>1. fil[k] = "write" /\ fring[k] \in Recs
    BY <1>0, <1>1, HomeIsRecs DEF Write, Members
  <2>2. PICK n \in 1..avail[k], m \in Nat :
            /\ m = IF n > Len(ring[fring[k]]) THEN Len(ring[fring[k]]) ELSE n
            /\ file' = [file EXCEPT ![This(k).file_fd] =
                                       file[This(k).file_fd] \o Front(ring[fring[k]], m)]
            /\ ring' = [ring EXCEPT ![fring[k]] = Back(ring[fring[k]], m)]
            /\ avail' = [avail EXCEPT ![k] = avail[k] - n]
            /\ fil' = [fil EXCEPT ![k] = IF n = avail[k] THEN "look" ELSE "write"]
    BY <1>0, <1>1, <2>1, WrittenPart
  <2>3. PICK r \in Recs : r = fring[k]
    BY <2>1
  <2>4. ring[r] \in Seq(Stream) /\ Len(Back(ring[r], m)) <= Len(ring[r])
    BY <1>0 DEF Types, Back
  <2>5. \A j \in Recs : ring[j] \in Seq(Stream) /\ Len(ring[j]) \in Nat
    BY <1>0 DEF Types
  <2>6. ring' = [ring EXCEPT ![r] = Back(ring[r], m)]
    BY <2>2, <2>3
  <2> QED BY <1>0, <2>4, <2>5, <2>6 DEF Types
<1>2. CASE ~Write(k)
  <2>1. UNCHANGED ring /\ \A j \in Recs : Len(ring[j]) \in Nat
    BY <1>0, <1>2 DEF FileThread, Begin, Look, LookAt, WriteFailure, Empty, Types
  <2> QED BY <2>1
<1> QED BY <1>1, <1>2

-----------------------------------------------------------------------------
\* The threads of a recording keep the threads of all in their order.
LEMMA TogetherDMX == ASSUME IInv, NEW k \in Recs, DMXThread(k) PROVE \A j \in Recs : Together(j)'
<1>0. TypeOK /\ Types /\ Together(k)
  BY DEF IInv
<1>1. ASSUME NEW j \in Recs, j # k PROVE Together(j)'
  <2>1. Together(j) /\ Quiet(j) /\ ring'[j] = ring[j]
    BY <1>1, QuietDMX DEF IInv
  <2> QED BY <2>1 DEF Together, Quiet
<1>2. Together(k)'
  <2>a. \A at : Dmx(k, at) => dmx'[k] = at
    BY <1>0 DEF Dmx, TypeOK
  <2>b. dmx[k] \in Capturing => fil[k] \in Storing \cup Ended
    BY <1>0 DEF Together
  <2> USE DEF threads, capture, writing
  <2>1. CASE Create(k)
    <3>1. dmx'[k] = "sync" /\ fil'[k] \in {"start", "refused"}
      BY <1>0, <2>a, <2>1 DEF Create, Fil, TypeOK
    <3> QED BY <3>1 DEF Together, Capturing, Storing, Ended
  <2>2. CASE SyncRead(k)
    BY <2>a, <2>b, <2>2 DEF SyncRead, Together, Capturing
  <2>3. CASE SyncError(k)
    BY <2>b, <2>3 DEF SyncError, Together, Capturing
  <2>4. CASE SyncEnd(k)
    BY <2>a, <2>b, <2>4 DEF SyncEnd, Together, Capturing
  <2>5. CASE First(k)
    <3>1. dmx'[k] \in {"chunk", "close"}
      BY <2>a, <2>5 DEF First
    <3> QED BY <2>b, <2>5, <3>1 DEF First, Together, Capturing
  <2>6. CASE Chunk(k)
    <3>1. \/ dmx'[k] = "close"
          \/ dmx'[k] = "check" /\ todo[k] <= Capacity - Len(ring[k])
      <4>1. todo[k] \in Int /\ Len(ring[k]) \in Int /\ Capacity \in Int
        BY <1>0, SizesAssumption DEF TypeOK, Types
      <4> QED BY <2>6, <2>a, <4>1 DEF Chunk
    <3>2. todo[k] \in Int /\ Len(ring[k]) \in Int /\ Capacity \in Int
      BY <1>0, SizesAssumption DEF TypeOK, Types
    <3>3. todo[k] <= Capacity - Len(ring[k]) => todo[k] + Len(ring[k]) <= Capacity
      BY <3>2
    <3>4. UNCHANGED <<fil, todo, ring>> /\ fil[k] \in Storing \cup Ended
      BY <2>b, <2>6 DEF Chunk, Capturing
    <3> QED BY <3>1, <3>3, <3>4 DEF Together, Capturing
  <2>7. CASE Check(k)
    <3>1. dmx'[k] \in {"read", "close"}
      BY <2>a, <2>7 DEF Check
    <3> QED BY <1>0, <2>b, <2>7, <3>1 DEF Check, Together, Capturing
  <2>8. CASE Read(k)
    <3>1. PICK n \in 1..todo[k] :
              /\ Deliver(k, n)
              /\ ring' = [ring EXCEPT ![k] = ring[k] \o Bytes(k, n)]
              /\ todo' = [todo EXCEPT ![k] = IF n = todo[k] THEN InSize ELSE todo[k] - n]
              /\ Dmx(k, IF n = todo[k] THEN "chunk" ELSE "check")
      BY <2>8 DEF Read
    <3>2. /\ todo[k] \in 0..InSize /\ todo[k] + Len(ring[k]) <= Capacity /\ n \in Nat
          /\ ring[k] \in Seq(Stream)
      BY <1>0, <2>8 DEF Read, TypeOK, Types, Together
    <3>3. Bytes(k, n) \in Seq(Stream) /\ Len(Bytes(k, n)) = n
      <4>1. block[k] \in Blocks
        BY DMXAlive, BlockInUse DEF IInv, InUse
      <4> QED BY <1>0, <3>1, <3>2, <4>1, BytesOfDevice
    <3>4. Len(ring'[k]) = Len(ring[k]) + n
      <4>1. ring'[k] = ring[k] \o Bytes(k, n)
        BY <1>0, <3>1 DEF Types
      <4>2. ring[k] \in Seq(Stream)
        BY <3>2
      <4>3. \A s, t \in Seq(Stream) : Len(s \o t) = Len(s) + Len(t)
        OBVIOUS
      <4>4. Len(ring[k] \o Bytes(k, n)) = Len(ring[k]) + Len(Bytes(k, n))
        BY <3>3, <4>2, <4>3
      <4> QED BY <3>3, <4>1, <4>4
    <3>5. \/ dmx'[k] = "chunk"
          \/ dmx'[k] = "check" /\ todo'[k] = todo[k] - n
      BY <1>0, <2>a, <3>1 DEF TypeOK
    <3>6. /\ todo[k] \in Int /\ Len(ring[k]) \in Int /\ n \in Int /\ Capacity \in Int
          /\ todo[k] + Len(ring[k]) <= Capacity
      BY <3>2, SizesAssumption
    <3>7. (todo[k] - n) + (Len(ring[k]) + n) <= Capacity
      BY <3>6
    <3>8. dmx'[k] = "check" => todo'[k] + Len(ring'[k]) <= Capacity
      BY <3>4, <3>5, <3>7
    <3> QED BY <2>b, <2>8, <3>5, <3>8 DEF Read, Together, Capturing
  <2>9. CASE ReadFailure(k)
    BY <1>0, <2>a, <2>b, <2>9 DEF ReadFailure, Together, Capturing
  <2>10. CASE Close(k)
    BY <2>a, <2>b, <2>10 DEF Close, Together, Capturing
  <2>11. CASE Join(k) \/ JoinNobody(k)
    BY <2>a, <2>11 DEF Join, JoinNobody, Together, Capturing, Ended
  <2> QED BY <2>1, <2>2, <2>3, <2>4, <2>5, <2>6, <2>7, <2>8, <2>9, <2>10, <2>11 DEF DMXThread
<1> QED BY <1>1, <1>2

LEMMA TogetherFile == ASSUME IInv, NEW k \in Recs, FileThread(k) PROVE \A j \in Recs : Together(j)'
<1>0. TypeOK /\ Types
  BY DEF IInv
<1>1. \A j \in Recs : /\ Together(j) /\ Len(ring'[j]) <= Len(ring[j])
                      /\ Len(ring[j]) \in Int /\ Len(ring'[j]) \in Int /\ todo[j] \in Int
  <2>1. Types'
    BY TypesFile
  <2>2. \A j \in Recs : Together(j) /\ Len(ring'[j]) <= Len(ring[j])
    BY RingsShrink DEF IInv
  <2>3. \A j \in Recs : ring[j] \in Seq(Stream) /\ todo[j] \in Int
    BY <1>0 DEF TypeOK, Types
  <2>4. \A j \in Recs : ring'[j] \in Seq(Stream)
    BY <2>1 DEF Types
  <2> QED BY <2>2, <2>3, <2>4
<1>2. UNCHANGED <<dmx, todo>>
  BY DEF FileThread, Begin, Look, LookAt, Write, WriteFailure, Empty, threads, capture
<1>3. ASSUME NEW j \in Recs PROVE todo[j] + Len(ring[j]) <= Capacity => todo[j] + Len(ring'[j]) <= Capacity
  BY <1>1, SizesAssumption
<1>4. ASSUME NEW j \in Recs, j # k PROVE Together(j)'
  BY <1>1, <1>2, <1>3, <1>4, QuietFile DEF Together, Quiet
<1>5. Together(k)'
  <2>1. dmx[k] \in Capturing
    BY FileAlive
  <2>2. fil'[k] \in Storing \cup Ended
    <3>1. \A at : Fil(k, at) => fil'[k] = at
      BY <1>0 DEF Fil, TypeOK
    <3> QED BY <3>1 DEF FileThread, Begin, Look, LookAt, Write, WriteFailure, Empty, Storing, Ended
  <2> QED BY <1>1, <1>2, <1>3, <2>1, <2>2 DEF Together, Capturing
<1> QED BY <1>4, <1>5

\* The members of an object stay those of the recordings that use it.
LEMMA MembersOthers ==
    ASSUME IInv, NEW k \in Recs, DMXThread(k) \/ FileThread(k), NEW j \in Recs, j # k
    PROVE  Members(j)'
<1>1. Members(j) /\ Together(j) /\ Quiet(j) /\ Touches(k) /\ Alive(k) /\ TypeOK /\ Owned
  BY QuietDMX, QuietFile, ThreadTouches, DMXAlive, FileAlive DEF IInv
<1>2. Home(j)' = Home(j) /\ Fds(j)' = Fds(j)
  BY <1>1 DEF Touches, Kept, Home, Fds
<1>3. ASSUME dmx[j] \in Capturing \cup {"create"}
      PROVE  /\ (This(j))'.dvrfd \in Fds(j) /\ (This(j))'.demuxfd \in Fds(j)
             /\ (This(j))'.file_fd \in Home(j)
             /\ dmx[j] \in Capturing => (This(j))'.ringbuffer \in Home(j)
  <2>1. Alive(j)
    BY <1>3 DEF Alive, Capturing
  <2>2. block[j] \in Blocks /\ block'[j] = block[j]
    BY <1>1, <2>1, BlockInUse DEF InUse, Quiet
  <2>3. (This(j))' = mem'[block[j]] /\ This(j) = mem[block[j]]
    BY <2>2 DEF This
  <2>4. /\ This(j).dvrfd \in Fds(j) /\ This(j).demuxfd \in Fds(j) /\ This(j).file_fd \in Home(j)
        /\ dmx[j] \in Capturing => This(j).ringbuffer \in Home(j)
    BY <1>1, <1>3 DEF Members
  <2>5. CASE block[j] # block[k]
    BY <1>1, <2>2, <2>3, <2>4, <2>5 DEF Touches, Kept
  <2>6. CASE block[j] = block[k]
    <3>1. j \in mixed /\ k \in mixed
      BY <1>1, <2>1, <2>6 DEF Owned, InUse
    <3>2. k \in Home(j) /\ 0 \in Fds(j)
      BY <3>1 DEF Home, Fds
    <3>3. /\ mem'[block[j]].dvrfd = mem[block[j]].dvrfd
          /\ mem'[block[j]].file_fd = mem[block[j]].file_fd
          /\ mem'[block[j]].demuxfd \in {mem[block[j]].demuxfd, 0}
          /\ mem'[block[j]].ringbuffer \in {mem[block[j]].ringbuffer, k}
      BY <1>1, <2>2 DEF Touches, Kept
    <3> QED BY <2>3, <2>4, <3>2, <3>3
  <2> QED BY <2>5, <2>6
<1>4. dmx'[j] = dmx[j] /\ fil'[j] = fil[j] /\ fring'[j] = fring[j]
  BY <1>1 DEF Quiet
<1> QED BY <1>1, <1>2, <1>3, <1>4 DEF Members

LEMMA MembersOwn ==
    ASSUME IInv, NEW k \in Recs, DMXThread(k) \/ FileThread(k) PROVE Members(k)'
<1>0. Members(k) /\ Touches(k) /\ Alive(k) /\ TypeOK /\ Types /\ Owned /\ Together(k)
  BY ThreadTouches, DMXAlive, FileAlive DEF IInv
<1>1. Home(k)' = Home(k) /\ Fds(k)' = Fds(k) /\ k \in Home(k)
  BY <1>0 DEF Touches, Kept, Home, Fds
<1>2. block[k] \in Blocks /\ (This(k))' = mem'[block[k]] /\ This(k) = mem[block[k]]
  BY <1>0, BlockInUse DEF InUse, Touches, This
<1>3. dmx[k] \in Capturing \cup {"create"}
  BY DMXAlive, FileAlive
<1>4. /\ (This(k))'.dvrfd \in Fds(k) /\ (This(k))'.file_fd \in Home(k)
      /\ This(k).demuxfd \in Fds(k)
      /\ (This(k))'.demuxfd \in {This(k).demuxfd, 0}
      /\ (This(k))'.ringbuffer \in {This(k).ringbuffer, k}
  BY <1>0, <1>2, <1>3 DEF Members, Touches, Kept
<1>5. CASE Join(k) \/ JoinNobody(k)
  <2>1. dmx'[k] \in {"gone", "lost"} /\ fil'[k] \in Ended
    BY <1>0, <1>5 DEF Join, JoinNobody, Dmx, TypeOK, Ended, threads
  <2> QED BY <2>1 DEF Members, Capturing, Ended
<1>6. CASE Create(k)
  <2>1. fil'[k] \in {"start", "refused"}
    BY <1>0, <1>6 DEF Create, Fil, TypeOK
  <2>2. (This(k))'.ringbuffer = k /\ (This(k))'.demuxfd = This(k).demuxfd
    <3>1. mem \in [Blocks -> ObjectType]
      BY <1>0 DEF TypeOK
    <3>2. \/ mem' = [mem EXCEPT ![block[k]].ringbuffer = k]
          \/ mem' = [mem EXCEPT ![block[k]].ringbuffer = k,
                                ![block[k]].exit_flag = "WRITE_OPEN_FAILURE"]
      BY <1>6 DEF Create, Set
    <3> QED BY <1>2, <3>1, <3>2 DEF ObjectType
  <2> QED BY <1>1, <1>4, <2>1, <2>2 DEF Members
<1>7. CASE ~(Create(k) \/ Join(k) \/ JoinNobody(k))
  <2>1. dmx[k] \in Capturing
    BY <1>7, FileAlive DEF DMXThread, SyncRead, SyncError, SyncEnd, First, Chunk, Check, Read,
           ReadFailure, Close, Capturing
  <2>2. (This(k))'.demuxfd = This(k).demuxfd /\ (This(k))'.ringbuffer = This(k).ringbuffer
    <3>1. mem \in [Blocks -> ObjectType]
      BY <1>0 DEF TypeOK
    <3>2. \/ mem' = mem
          \/ \E flag : mem' = [mem EXCEPT ![block[k]].exit_flag = flag]
      BY <1>7 DEF DMXThread, SyncRead, SyncError, SyncEnd, First, Chunk, Check, Read, ReadFailure,
           Close, FileThread, Begin, Look, LookAt, Write, WriteFailure, Empty, Fail, Set
    <3>3. PICK b \in Blocks : b = block[k]
      BY <1>2
    <3>4. CASE mem' = mem
      BY <1>2, <3>4
    <3>5. ASSUME NEW flag, mem' = [mem EXCEPT ![b].exit_flag = flag]
          PROVE  mem'[b].demuxfd = mem[b].demuxfd /\ mem'[b].ringbuffer = mem[b].ringbuffer
      BY <3>1, <3>5 DEF ObjectType
    <3> QED BY <1>2, <3>2, <3>3, <3>4, <3>5
  <2>3. (This(k))'.ringbuffer \in Home(k)
    BY <1>0, <2>1, <2>2 DEF Members
  <2>4. fil'[k] \in {"look", "write", "empty"} => fring'[k] \in Home(k)
    <3>1. CASE Begin(k)
      <4>1. fring'[k] = This(k).ringbuffer
        BY <1>0, <3>1 DEF Begin, LookAt, Types
      <4> QED BY <1>0, <2>1, <4>1 DEF Members
    <3>2. CASE Look(k)
      <4>1. fring'[k] = fring[k] /\ fil[k] = "look"
        BY <1>0, <3>2 DEF Look, LookAt, Types
      <4> QED BY <1>0, <4>1 DEF Members
    <3>3. CASE ~(Begin(k) \/ Look(k))
      <4>1. UNCHANGED fring
        BY <1>7, <3>3 DEF DMXThread, SyncRead, SyncError, SyncEnd, First, Chunk, Check, Read,
           ReadFailure, Close, FileThread, Write, WriteFailure, Empty, writing
      <4>2. UNCHANGED fil \/ fil[k] \in {"write", "empty"}
        BY <1>7, <3>3 DEF DMXThread, SyncRead, SyncError, SyncEnd, First, Chunk, Check, Read,
           ReadFailure, Close, FileThread, Write, WriteFailure, Empty, threads
      <4> QED BY <1>0, <4>1, <4>2 DEF Members
    <3> QED BY <3>1, <3>2, <3>3
  <2> QED BY <1>1, <1>4, <2>2, <2>3, <2>4 DEF Members
<1> QED BY <1>5, <1>6, <1>7

-----------------------------------------------------------------------------
\* What a step leaves alone of recording k: its own state, and its object while it is in use.
Same(k) ==
    /\ dmx'[k] = dmx[k] /\ fil'[k] = fil[k] /\ todo'[k] = todo[k] /\ packet'[k] = packet[k]
    /\ ring'[k] = ring[k] /\ fring'[k] = fring[k] /\ avail'[k] = avail[k]
    /\ dev'[k] = dev[k] /\ filters'[k] = filters[k] /\ file'[k] = file[k]
SameObject(k) == Alive(k) => block'[k] = block[k] /\ mem'[block[k]] = mem[block[k]]

LEMMA SameIsPure == ASSUME NEW k \in Recs, Pure(k), Same(k), SameObject(k) PROVE Pure(k)'
<1>1. Closed(k)' /\ Vector(k)'
  BY DEF Same, Pure, Closed, Vector
<1>2. dmx[k] \in Capturing => Running(k)' = Running(k)
  BY DEF Same, SameObject, Alive, This, Running, Capturing
<1>3. Flow(k)'
  BY <1>2 DEF Same, Pure, Flow, Capturing
<1> QED BY <1>1, <1>3 DEF Pure

\* The threads of a recording leave the others alone that are not mixed.
LEMMA OtherObjects ==
    ASSUME IInv, NEW k \in Recs, DMXThread(k) \/ FileThread(k), NEW j \in Recs \ mixed, j # k
    PROVE  SameObject(j)
<1>1. Touches(k) /\ Alive(k) /\ TypeOK /\ Owned
  BY ThreadTouches, DMXAlive, FileAlive DEF IInv
<1>2. ASSUME Alive(j) PROVE block[j] # block[k] /\ block[j] \in Blocks
  BY <1>1, <1>2, BlockInUse DEF Owned, InUse
<1> QED BY <1>1, <1>2 DEF SameObject, Touches, Kept

LEMMA OtherRecordingsDMX ==
    ASSUME IInv, NEW k \in Recs, DMXThread(k), NEW j \in Recs \ mixed, j # k
    PROVE  Same(j)
<1>0. TypeOK /\ Types /\ Members(k)
  BY DEF IInv
<1>1. This(k).dvrfd # j /\ This(k).demuxfd # j
  <2>1. j \notin Fds(k)
    BY DEF Fds, Recs
  <2> QED BY <1>0, <2>1, DMXAlive DEF Members
<1>2. dev'[j] = dev[j]
  <2>1. dev' = dev \/ \E v : dev' = [dev EXCEPT ![This(k).dvrfd] = v]
    <3>1. CASE SyncRead(k)
      BY <3>1 DEF SyncRead, Deliver
    <3>2. CASE Read(k)
      BY <3>2 DEF Read, Deliver
    <3>3. CASE Close(k)
      BY <3>3 DEF Close
    <3>4. CASE ~(SyncRead(k) \/ Read(k) \/ Close(k))
      BY <3>4 DEF DMXThread, Create, SyncError, SyncEnd, First, Chunk, Check, ReadFailure, Join,
                  JoinNobody
    <3> QED BY <3>1, <3>2, <3>3, <3>4
  <2> QED BY <1>0, <1>1, <2>1 DEF TypeOK
<1>3. filters'[j] = filters[j]
  <2>1. filters' = filters \/ filters' = [filters EXCEPT ![This(k).demuxfd] = FALSE]
    BY DEF DMXThread, Create, SyncRead, SyncError, SyncEnd, First, Chunk, Check, Read, ReadFailure,
           Close, Join, JoinNobody
  <2> QED BY <1>0, <1>1, <2>1 DEF TypeOK
<1>4. UNCHANGED file
  BY DEF DMXThread, Create, SyncRead, SyncError, SyncEnd, First, Chunk, Check, Read, ReadFailure,
         Close, Join, JoinNobody
<1>5. Quiet(j) /\ ring'[j] = ring[j]
  BY QuietDMX
<1> QED BY <1>2, <1>3, <1>4, <1>5 DEF Same, Quiet

LEMMA OtherRecordingsFile ==
    ASSUME IInv, NEW k \in Recs, FileThread(k), NEW j \in Recs \ mixed, j # k
    PROVE  Same(j)
<1>0. TypeOK /\ Types /\ Members(k) /\ dmx[k] \in Capturing
  BY FileAlive DEF IInv
<1>1. file'[j] = file[j] /\ ring'[j] = ring[j]
  <2>1. CASE Write(k)
    <3>1. PICK r, f : r = fring[k] /\ f = This(k).file_fd
      OBVIOUS
    <3>2. r # j /\ f # j
      <4>1. j \notin Home(k)
        BY DEF Home
      <4> QED BY <1>0, <2>1, <3>1, <4>1 DEF Write, Members
    <3>3. (\E v : file' = [file EXCEPT ![f] = v]) /\ (\E v : ring' = [ring EXCEPT ![r] = v])
      BY <2>1, <3>1 DEF Write
    <3> QED BY <1>0, <3>2, <3>3 DEF Types
  <2>2. CASE ~Write(k)
    BY <2>2 DEF FileThread, Begin, Look, LookAt, WriteFailure, Empty
  <2> QED BY <2>1, <2>2
<1>2. UNCHANGED <<dev, filters>>
  BY DEF FileThread, Begin, Look, LookAt, Write, WriteFailure, Empty
<1>3. Quiet(j)
  BY QuietFile
<1> QED BY <1>1, <1>2, <1>3 DEF Same, Quiet

\* A recording that is not mixed finds its own descriptors, ring buffer and file.
LEMMA OwnMembers ==
    ASSUME IInv, NEW k \in Recs \ mixed, dmx[k] \in Capturing \cup {"create"}
    PROVE  /\ This(k).dvrfd = k /\ This(k).demuxfd = k /\ This(k).file_fd = k
           /\ dmx[k] \in Capturing => This(k).ringbuffer = k
           /\ fil[k] \in {"look", "write", "empty"} => fring[k] = k
<1>1. Members(k) /\ Home(k) = {k} /\ Fds(k) = {k}
  BY DEF IInv, Home, Fds
<1> QED BY <1>1 DEF Members

LEMMA OwnBytes ==
    ASSUME IInv, NEW k \in Recs \ mixed, dmx[k] \in Capturing, NEW n \in Nat, Deliver(k, n)
    PROVE  /\ Bytes(k, n) \in Seq(Stream) /\ Len(Bytes(k, n)) = n
           /\ \A i \in 1..n : Bytes(k, n)[i] = <<k, dev[k].next + i>>
           /\ dev' = [dev EXCEPT ![k].next = @ + n]
<1>1. TypeOK /\ block[k] \in Blocks /\ This(k).dvrfd = k
  <2>1. Alive(k)
    BY DEF Alive, Capturing
  <2> QED BY <2>1, BlockInUse, OwnMembers DEF IInv, InUse
<1>2. PICK d : d = This(k).dvrfd
  OBVIOUS
<1>3. /\ Bytes(k, n) \in Seq(Stream) /\ Len(Bytes(k, n)) = n
      /\ \A i \in 1..n : Bytes(k, n)[i] = <<d, dev[d].next + i>>
      /\ dev' = [dev EXCEPT ![d].next = @ + n]
  <2>1. /\ Bytes(k, n) \in Seq(Stream) /\ Len(Bytes(k, n)) = n
        /\ \A i \in 1..n : Bytes(k, n)[i] = <<This(k).dvrfd, dev[This(k).dvrfd].next + i>>
    BY <1>1, BytesOfDevice
  <2>2. dev' = [dev EXCEPT ![This(k).dvrfd].next = @ + n]
    BY <1>1, BytesOfDevice
  <2> QED BY <1>2, <2>1, <2>2
<1>4. d = k
  BY <1>1, <1>2
<1> QED BY <1>3, <1>4

LEMMA FlagIsSet ==
    ASSUME TypeOK, Owned, NEW k \in Recs, Alive(k), NEW flag \in Failures, Fail(k, flag),
           UNCHANGED block
    PROVE  ~Running(k)'
<1>1. block[k] \in Blocks /\ mem \in [Blocks -> ObjectType]
  BY BlockInUse DEF InUse, TypeOK
<1>2. (This(k))'.exit_flag = flag
  BY <1>1 DEF Fail, Set, This, ObjectType
<1> QED BY <1>2 DEF Running, Failures

LEMMA PureDMX == ASSUME IInv, NEW k \in Recs \ mixed, DMXThread(k) PROVE Pure(k)'
<1>0. TypeOK /\ Types /\ Owned /\ Pure(k) /\ Together(k)
  BY DEF IInv
<1>a. Alive(k)
  BY DMXAlive
<1>b. \A at : Dmx(k, at) => dmx'[k] = at
  BY <1>0 DEF Dmx, TypeOK
<1>d. This(k).dvrfd = k /\ This(k).demuxfd = k
  BY DMXAlive, OwnMembers
<1>c. \A flag \in Failures : Fail(k, flag) => \E f \in Flags : Set(k, "exit_flag", f)
  BY DEF Fail, Failures
<1> USE SizesAssumption DEF caller, threads, capture, writing
<1>1. CASE Create(k)
  <2>1. ring'[k] = <<>> /\ fil'[k] \in {"start", "refused"} /\ dmx'[k] = "sync"
    BY <1>0, <1>1, <1>b DEF Create, Fil, TypeOK, Types, Pure, Together
  <2>3. Flow(k)'
    BY <1>0, <1>1, <2>1 DEF Create, Pure, Flow
  <2> QED BY <1>0, <1>1, <2>1, <2>3 DEF Create, Pure, Capturing, Storing, Vector, Closed
<1>2. CASE SyncRead(k)
  <2>1. PICK n \in 1..Packet : Deliver(k, n) /\ packet' = [packet EXCEPT ![k] = Bytes(k, n)]
    BY <1>2 DEF SyncRead
  <2>2. /\ Bytes(k, n) \in Seq(Stream) /\ Len(Bytes(k, n)) = n
        /\ \A i \in 1..n : Bytes(k, n)[i] = <<k, dev[k].next + i>>
        /\ dev' = [dev EXCEPT ![k].next = @ + n]
    BY <1>2, <2>1, OwnBytes DEF SyncRead, Capturing
  <2>3. /\ dev[k].next = 0 /\ dev'[k].next = n /\ dev'[k].open = dev[k].open
        /\ packet'[k] = Bytes(k, n) /\ dmx'[k] = "first"
    BY <1>0, <1>2, <1>b, <2>1, <2>2 DEF SyncRead, Pure, Flow, TypeOK, Types
  <2>4. Flow(k)'
    <3>1. \A i \in 1..n : packet'[k][i] = <<k, i>>
      BY <2>2, <2>3
    <3> QED BY <1>0, <1>2, <2>2, <2>3, <3>1 DEF SyncRead, Pure, Flow
  <2> QED BY <1>0, <1>2, <2>3, <2>4 DEF SyncRead, Pure, Capturing, Vector, Closed
<1>3. CASE SyncError(k)
  BY <1>0, <1>3 DEF SyncError, Pure, Flow, Capturing, Vector, Closed
<1>4. CASE SyncEnd(k)
  <2>1. dmx'[k] = "close" /\ UNCHANGED <<block, mem>>
    BY <1>4, <1>b DEF SyncEnd
  <2> QED BY <1>0, <1>4, <2>1 DEF SyncEnd, Pure, Flow, Capturing, Vector, Closed
<1>5. CASE First(k)
  <2>0. /\ packet[k] \in Seq(Stream) /\ Len(packet[k]) = dev[k].next /\ Len(packet[k]) <= Packet
        /\ file[k] = <<>> /\ ring[k] = <<>> /\ \A i \in 1..Len(packet[k]) : packet[k][i] = <<k, i>>
    BY <1>0, <1>5 DEF First, TypeOK, Types, Pure, Flow
  <2>1. packet'[k] = <<>>
    BY <1>0, <1>5 DEF First, Types
  <2>3. CASE ~Running(k)
    <3>1. dmx'[k] = "close" /\ UNCHANGED <<ring, file, dev, fil, fring, avail, filters>>
      BY <1>5, <1>b, <2>3 DEF First
    <3> QED BY <1>0, <1>5, <2>0, <2>1, <3>1
            DEF First, Pure, Flow, Capturing, Vector, Closed
  <2>4. CASE Running(k)
    <3> DEFINE n == Len(packet[k])
               m == IF n > Capacity - Len(ring[k]) THEN Capacity - Len(ring[k]) ELSE n
    <3>1. /\ dmx'[k] = "chunk" /\ UNCHANGED <<file, dev, fil, fring, avail, filters, block>>
          /\ ring' = [ring EXCEPT ![k] = ring[k] \o SubSeq(packet[k], 1, m)]
          /\ n > Capacity - Len(ring[k]) => Fail(k, "BUFFER_OVERFLOW")
      BY <1>5, <1>b, <2>4 DEF First
    <3>2. m \in 0..n /\ (n > Capacity - Len(ring[k]) \/ m = n)
      BY <2>0
    <3>3. /\ Len(SubSeq(packet[k], 1, m)) = m /\ SubSeq(packet[k], 1, m) \in Seq(Stream)
          /\ \A i \in 1..m : SubSeq(packet[k], 1, m)[i] = <<k, i>>
      <4>1. m \in 0..Len(packet[k])
        BY <3>2
      <4> HIDE DEF m, n
      <4> QED BY <2>0, <4>1, SMTT(30)
    <3>4. ring'[k] = SubSeq(packet[k], 1, m)
      <4> HIDE DEF m
      <4>1. ring'[k] = ring[k] \o SubSeq(packet[k], 1, m)
        BY <1>0, <3>1 DEF Types
      <4> QED BY <2>0, <3>3, <4>1
    <3>5. Running(k)' => Len(file'[k]) + Len(ring'[k]) = dev'[k].next
      <4>1. CASE n > Capacity - Len(ring[k])
        BY <1>0, <1>5, <1>a, <3>1, <4>1, FlagIsSet DEF Failures, Flags
      <4>2. CASE m = n
        BY <2>0, <3>1, <3>3, <3>4, <4>2
      <4> QED BY <3>2, <4>1, <4>2
    <3>6. Flow(k)'
      <4> HIDE DEF m, n
      <4>1. \A i \in 1..Len(ring'[k]) : ring'[k][i] = <<k, Len(file'[k]) + i>>
        <5>1. Len(ring'[k]) = m /\ Len(file'[k]) = 0
          BY <2>0, <3>1, <3>3, <3>4
        <5>2. m \in Nat
          BY <3>2 DEF m
        <5>3. \A i \in 1..m : ring'[k][i] = <<k, i>>
          BY <3>3, <3>4
        <5>4. \A i \in 1..m : 0 + i = i
          BY <5>2
        <5> QED BY <5>1, <5>3, <5>4
      <4>2. \A i \in 1..Len(file'[k]) : file'[k][i] = <<k, i>>
        BY <2>0, <3>1
      <4>3. \A i \in 1..Len(packet'[k]) : packet'[k][i] = <<k, i>>
        BY <2>1
      <4> QED BY <2>1, <3>1, <3>5, <4>1, <4>2, <4>3 DEF Flow
    <3>7. Vector(k)'
      BY <1>0, <2>0, <3>1 DEF Pure, Vector
    <3> QED BY <1>0, <1>5, <3>1, <3>6, <3>7 DEF First, Pure, Capturing, Closed
  <2> QED BY <2>3, <2>4
<1>6. CASE Chunk(k)
  <2>1. UNCHANGED mem \/ \E flag \in Flags : Set(k, "exit_flag", flag)
    BY <1>6, <1>c DEF Chunk, Failures, Flags
  <2>2. \/ dmx'[k] = "close"
        \/ dmx'[k] = "check" /\ UNCHANGED mem /\ Running(k) /\ todo[k] <= Capacity - Len(ring[k])
    <3>1. todo[k] \in Int /\ Len(ring[k]) \in Int /\ Capacity \in Int
      BY <1>0 DEF TypeOK, Types
    <3> QED BY <1>6, <1>b, <3>1 DEF Chunk
  <2>4. Vector(k)' /\ Flow(k)'
    <3>1. todo[k] \in Int /\ Len(ring[k]) \in Int
      BY <1>0 DEF TypeOK, Types
    <3>2. Vector(k)'
      BY <1>0, <1>6, <2>2, <3>1 DEF Chunk, Pure, Vector
    <3>3. Running(k)' => Running(k) \/ dmx'[k] = "close"
      BY <2>2
    <3>4. Flow(k)'
      BY <1>0, <1>6, <2>2, <3>3 DEF Chunk, Pure, Flow
    <3> QED BY <3>2, <3>4
  <2> QED BY <1>0, <1>6, <2>2, <2>4 DEF Chunk, Pure, Capturing, Closed
<1>7. CASE Check(k)
  <2>1. dmx'[k] = "close" \/ (Running(k) /\ dmx'[k] = "read")
    BY <1>7, <1>b DEF Check
  <2> QED BY <1>0, <1>7, <2>1 DEF Check, Pure, Flow, Capturing, Vector, Closed
<1>8. CASE Read(k)
  <2>1. PICK n \in 1..todo[k] :
            /\ Deliver(k, n)
            /\ ring' = [ring EXCEPT ![k] = @ \o Bytes(k, n)]
            /\ todo' = [todo EXCEPT ![k] = IF n = @ THEN InSize ELSE @ - n]
            /\ Dmx(k, IF n = todo[k] THEN "chunk" ELSE "check")
    BY <1>8 DEF Read
  <2>2. /\ todo[k] \in 0..InSize /\ todo[k] + Len(ring[k]) <= Capacity /\ n \in Nat
        /\ ring[k] \in Seq(Stream) /\ file[k] \in Seq(Stream) /\ dev[k].next \in Nat
    BY <1>0, <1>8 DEF Read, TypeOK, Types, Together
  <2>3. /\ Bytes(k, n) \in Seq(Stream) /\ Len(Bytes(k, n)) = n
        /\ \A i \in 1..n : Bytes(k, n)[i] = <<k, dev[k].next + i>>
        /\ dev' = [dev EXCEPT ![k].next = @ + n]
    BY <1>8, <2>1, <2>2, OwnBytes DEF Read, Capturing
  <2>4. ring'[k] = ring[k] \o Bytes(k, n) /\ Len(ring'[k]) = Len(ring[k]) + n
    <3>1. ring'[k] = ring[k] \o Bytes(k, n)
      BY <1>0, <2>1 DEF Types
    <3> QED BY <2>2, <2>3, <3>1
  <2>5. dev'[k].next = dev[k].next + n /\ dev'[k].open = dev[k].open
    BY <1>0, <2>3 DEF TypeOK
  <2>6. \/ dmx'[k] = "chunk"
        \/ dmx'[k] = "check" /\ todo'[k] = todo[k] - n
    BY <1>0, <1>b, <2>1 DEF TypeOK
  <2>7. Len(file[k]) + Len(ring[k]) = dev[k].next
    BY <1>0, <1>8 DEF Read, Pure, Flow
  <2>c. /\ Len(file[k]) + (Len(ring[k]) + n) = dev[k].next + n
        /\ \A i \in Nat : dev[k].next + (i - Len(ring[k])) = Len(file[k]) + i
    <3> DEFINE f == Len(file[k])
               r == Len(ring[k])
               d == dev[k].next
    <3>1. f \in Nat /\ r \in Nat
      BY <2>2
    <3>3. d \in Nat /\ n \in Nat
      BY <2>2
    <3>4. f + r = d
      BY <2>7
    <3> HIDE DEF f, r, d
    <3>2. f + (r + n) = d + n /\ \A i \in Nat : d + (i - r) = f + i
      BY <3>1, <3>3, <3>4
    <3> QED BY <3>2 DEF f, r, d
  <2>8. \A i \in 1..Len(ring'[k]) : ring'[k][i] = <<k, Len(file[k]) + i>>
    <3> SUFFICES ASSUME NEW i \in 1..Len(ring'[k]) PROVE ring'[k][i] = <<k, Len(file[k]) + i>>
      OBVIOUS
    <3>1. CASE i <= Len(ring[k])
      <4>1. ring'[k][i] = ring[k][i]
        BY <2>2, <2>3, <2>4, <3>1
      <4> QED BY <1>0, <2>2, <3>1, <4>1 DEF Pure, Flow
    <3>2. CASE i > Len(ring[k])
      <4>1. i - Len(ring[k]) \in 1..n /\ ring'[k][i] = Bytes(k, n)[i - Len(ring[k])]
        <5>1. Len(ring[k]) \in Nat /\ i \in Nat /\ i <= Len(ring[k]) + n
          BY <2>2, <2>4
        <5>2. i - Len(ring[k]) \in 1..n
          BY <2>2, <3>2, <5>1
        <5> QED BY <2>2, <2>3, <2>4, <3>2, <5>1, <5>2
      <4>2. ring'[k][i] = <<k, dev[k].next + (i - Len(ring[k]))>>
        BY <2>3, <4>1
      <4>3. dev[k].next + (i - Len(ring[k])) = Len(file[k]) + i
        <5>1. i \in Nat
          OBVIOUS
        <5> QED BY <2>c, <5>1
      <4> QED BY <4>2, <4>3
    <3> QED BY <2>2, <3>1, <3>2
  <2>9. Flow(k)'
    <3>1. Len(file[k]) + Len(ring'[k]) = dev'[k].next
      BY <2>4, <2>5, <2>c
    <3> QED BY <1>0, <1>8, <2>6, <2>8, <3>1 DEF Read, Pure, Flow
  <2>10. Vector(k)'
    <3>2. fil[k] = "write" => avail[k] \in 1..Len(ring'[k])
      BY <1>0, <2>2, <2>4 DEF Pure, Vector
    <3> QED BY <1>8, <3>2 DEF Read, Vector
  <2> QED BY <1>0, <1>8, <2>5, <2>6, <2>9, <2>10 DEF Read, Pure, Capturing, Closed
<1>9. CASE ReadFailure(k)
  <2>1. dmx'[k] = "check" /\ UNCHANGED block
    BY <1>9, <1>b DEF ReadFailure
  <2> QED BY <1>0, <1>9, <2>1 DEF ReadFailure, Pure, Flow, Capturing, Vector, Closed
<1>10. CASE Close(k)
  <2>1. dmx'[k] = "join" /\ UNCHANGED <<block, mem>>
    BY <1>10, <1>b DEF Close
  <2>3. ~dev'[k].open
    BY <1>0, <1>10, <1>d DEF Close, TypeOK, Recs
  <2>5. Flow(k)'
    BY <1>0, <1>10, <2>1 DEF Close, Pure, Flow
  <2> QED BY <1>0, <1>10, <2>1, <2>3, <2>5 DEF Close, Pure, Capturing, Vector, Closed
<1>11. CASE Join(k)
  <2>1. dmx'[k] = "gone" /\ fil[k] \in Ended
    BY <1>11, <1>b DEF Join, Ended
  <2>2. ring'[k] = <<>> /\ ~filters'[k]
    BY <1>0, <1>11, <1>d DEF Join, TypeOK, Types, Recs
  <2>3. Flow(k)'
    BY <1>0, <1>11, <2>1, <2>2 DEF Join, Pure, Flow
  <2> QED BY <1>0, <1>11, <2>1, <2>2, <2>3
          DEF Join, Pure, Capturing, Vector, Closed, Ended
<1>12. CASE JoinNobody(k)
  <2>1. dmx'[k] = "lost"
    BY <1>12, <1>b DEF JoinNobody
  <2> QED BY <1>0, <1>12, <2>1 DEF JoinNobody, Pure, Flow, Vector, Closed
<1> QED BY <1>1, <1>2, <1>3, <1>4, <1>5, <1>6, <1>7, <1>8, <1>9, <1>10, <1>11, <1>12 DEF DMXThread

\* What is left of a sequence behind its first n elements.
LEMMA RestOf ==
    ASSUME NEW S, NEW s \in Seq(S), NEW n \in 1..Len(s)
    PROVE  /\ Len(SubSeq(s, n + 1, Len(s))) = Len(s) - n
           /\ \A i \in 1..(Len(s) - n) : SubSeq(s, n + 1, Len(s))[i] = s[n + i]
  OBVIOUS

LEMMA PureFile == ASSUME IInv, NEW k \in Recs \ mixed, FileThread(k) PROVE Pure(k)'
<1>0. TypeOK /\ Types /\ Owned /\ Pure(k) /\ Together(k)
  BY DEF IInv
<1>a. Alive(k) /\ fil[k] \in Storing /\ dmx[k] \in Capturing
  BY FileAlive
<1>b. \A at : Fil(k, at) => fil'[k] = at
  BY <1>0 DEF Fil, TypeOK
<1>c. /\ dmx[k] \in Capturing /\ This(k).file_fd = k /\ This(k).ringbuffer = k
      /\ fil[k] # "start" => fring[k] = k
  BY <1>a, OwnMembers DEF Storing
<1> USE DEF caller, threads, capture, writing
<1>1. ASSUME LookAt(k, k) PROVE Pure(k)'
  <2>1. /\ avail'[k] = Len(ring[k]) /\ fring'[k] = k /\ ring[k] \in Seq(Stream)
        /\ (fil'[k] = "write" /\ ring[k] # <<>>) \/ fil'[k] = "empty"
    BY <1>0, <1>1, <1>b DEF LookAt, Types
  <2>3. Flow(k)'
    BY <1>0, <1>1 DEF LookAt, Pure, Flow, Running, This
  <2>4. Vector(k)'
    <3>1. Len(ring[k]) \in Nat /\ (ring[k] # <<>> => Len(ring[k]) # 0)
      BY <2>1
    <3>2. fil'[k] = "write" => avail'[k] \in 1..Len(ring'[k])
      BY <1>1, <2>1, <3>1 DEF LookAt
    <3> QED BY <1>0, <1>1, <3>2 DEF LookAt, Pure, Vector
  <2> QED BY <1>0, <1>1, <1>c, <2>1, <2>3, <2>4
          DEF LookAt, Pure, Storing, Capturing, Closed
<1>2. CASE Begin(k) \/ Look(k)
  BY <1>1, <1>2, <1>c DEF Begin, Look
<1>3. CASE Write(k)
  <2>1. fring[k] = k
    BY <1>3, <1>c DEF Write
  <2>2. PICK n \in 1..avail[k] :
          LET m == IF n > Len(ring[k]) THEN Len(ring[k]) ELSE n
          IN  /\ file' = [file EXCEPT ![k] = @ \o SubSeq(ring[k], 1, m)]
              /\ ring' = [ring EXCEPT ![k] = SubSeq(@, m + 1, Len(@))]
              /\ avail' = [avail EXCEPT ![k] = @ - n]
              /\ Fil(k, IF n = avail[k] THEN "look" ELSE "write")
    BY <1>3, <1>c, <2>1 DEF Write
  <2> DEFINE f == Len(file[k])
             r == Len(ring[k])
             d == dev[k].next
  <2>3. /\ avail[k] \in 1..r /\ n \in 1..r
        /\ ring[k] \in Seq(Stream) /\ file[k] \in Seq(Stream) /\ f \in Nat /\ r \in Nat
    BY <1>0, <1>3 DEF Write, Pure, Vector, Types
  <2>4. d \in Nat
    BY <1>0, SizesAssumption DEF TypeOK
  <2>5. /\ file'[k] = file[k] \o SubSeq(ring[k], 1, n)
        /\ ring'[k] = SubSeq(ring[k], n + 1, Len(ring[k]))
        /\ avail'[k] = avail[k] - n
        /\ fil'[k] = IF n = avail[k] THEN "look" ELSE "write"
    <3> DEFINE m == IF n > Len(ring[k]) THEN Len(ring[k]) ELSE n
    <3>1. m = n
      BY <2>3
    <3>2. /\ file'[k] = file[k] \o SubSeq(ring[k], 1, m)
          /\ ring'[k] = SubSeq(ring[k], m + 1, Len(ring[k]))
          /\ avail'[k] = avail[k] - n
          /\ fil'[k] = IF n = avail[k] THEN "look" ELSE "write"
      BY <1>0, <1>b, <2>2 DEF Types
    <3> HIDE DEF m
    <3> QED BY <3>1, <3>2
  <2>6. /\ Len(SubSeq(ring[k], 1, n)) = n /\ SubSeq(ring[k], 1, n) \in Seq(Stream)
        /\ \A i \in 1..n : SubSeq(ring[k], 1, n)[i] = ring[k][i]
    BY <2>3
  <2>7. /\ Len(ring'[k]) = r - n
        /\ \A i \in 1..(r - n) : ring'[k][i] = ring[k][n + i]
    BY <2>3, <2>5, RestOf
  <2>8. Len(file'[k]) = f + n
    BY <2>3, <2>5, <2>6
  <2>9. \A i \in 1..f : file'[k][i] = file[k][i]
    BY <2>3, <2>5, <2>6
  <2>10. \A i \in 1..n : file'[k][f + i] = ring[k][i]
    BY <2>3, <2>5, <2>6
  <2>11. \A i \in 1..f : file'[k][i] = <<k, i>>
    BY <1>0, <2>9 DEF Pure, Flow
  <2>12. \A i \in 1..n : file'[k][f + i] = <<k, f + i>>
    <3>1. \A i \in 1..r : ring[k][i] = <<k, f + i>>
      BY <1>0 DEF Pure, Flow
    <3>2. \A i \in 1..n : i \in 1..r
      BY <2>3
    <3> QED BY <2>10, <3>1, <3>2
  <2>13. \A i \in 1..(r - n) : ring'[k][i] = <<k, (f + n) + i>>
    <3> SUFFICES ASSUME NEW i \in 1..(r - n) PROVE ring'[k][i] = <<k, (f + n) + i>>
      OBVIOUS
    <3>1. n + i \in 1..r
      BY <2>3
    <3>2. ring'[k][i] = <<k, f + (n + i)>>
      BY <1>0, <2>7, <3>1 DEF Pure, Flow
    <3>3. f + (n + i) = (f + n) + i
      <4> HIDE DEF f, r
      <4> QED BY <2>3
    <3> QED BY <3>2, <3>3
  <2>14. \A i \in 1..Len(file'[k]) : file'[k][i] = <<k, i>>
    <3> HIDE DEF f, r
    <3> SUFFICES ASSUME NEW i \in 1..(f + n) PROVE file'[k][i] = <<k, i>>
      BY <2>8
    <3>1. CASE i <= f
      BY <2>3, <2>11, <3>1
    <3>2. CASE i > f
      <4>1. i - f \in 1..n /\ f + (i - f) = i
        BY <2>3, <3>2
      <4>2. file'[k][f + (i - f)] = <<k, f + (i - f)>>
        BY <2>12, <4>1
      <4> QED BY <4>1, <4>2
    <3> QED BY <2>3, <3>1, <3>2
  <2>15. /\ dmx'[k] = dmx[k] /\ dev'[k] = dev[k] /\ packet'[k] = packet[k] /\ filters'[k] = filters[k]
         /\ todo'[k] = todo[k] /\ fring'[k] = fring[k] /\ Running(k)' = Running(k)
    BY <1>3 DEF Write, Running, This
  <2>16. ring[k] # <<>>
    BY <2>3
  <2>17. dmx[k] \notin {"none", "create", "sync", "first"}
    BY <1>0, <2>16 DEF Pure, Flow
  <2>18. f + r = d => Len(file'[k]) + Len(ring'[k]) = dev'[k].next
    <3>1. dev'[k].next = d
      BY <2>15
    <3> HIDE DEF f, r, d
    <3>2. f + r = d => (f + n) + (r - n) = d
      BY <2>3, <2>4
    <3> QED BY <2>7, <2>8, <3>1, <3>2
  <2>19. Flow(k)'
    <3>1. dmx'[k] = "read" \/ (dmx'[k] \in {"chunk", "check"} /\ Running(k)') => f + r = d
      BY <1>0, <2>15 DEF Pure, Flow
    <3>2. \A i \in 1..Len(ring'[k]) : ring'[k][i] = <<k, Len(file'[k]) + i>>
      BY <2>7, <2>8, <2>13
    <3>3. packet'[k] = <<>>
      BY <1>0, <2>15, <2>17 DEF Pure, Flow
    <3> HIDE DEF f, r, d
    <3>4. \A i \in 1..Len(packet'[k]) : packet'[k][i] = <<k, i>>
      BY <3>3
    <3> QED BY <2>14, <2>15, <2>17, <2>18, <3>1, <3>2, <3>3, <3>4 DEF Flow
  <2>20. Vector(k)'
    <3>2. fil'[k] = "write" => avail'[k] \in 1..(r - n)
      <4>1. avail'[k] = avail[k] - n /\ (fil'[k] = "write" => n # avail[k])
        BY <2>5
      <4> HIDE DEF r
      <4>2. n # avail[k] => avail[k] - n \in 1..(r - n) \/ avail[k] < n
        BY <2>3
      <4>3. avail[k] >= n
        BY <1>0, <2>3 DEF Types
      <4> QED BY <2>3, <4>1, <4>2, <4>3
    <3> HIDE DEF r
    <3> QED BY <2>7, <3>2 DEF Vector
  <2> HIDE DEF f, r, d
  <2>22. Closed(k)'
    BY <1>0, <2>15 DEF Pure, Closed
  <2> QED BY <2>19, <2>20, <2>22 DEF Pure
<1>4. CASE WriteFailure(k)
  <2>1. \E flag \in Flags : Set(k, "exit_flag", flag)
    BY <1>4 DEF WriteFailure, Fail, Flags
  <2>3. ~Running(k)' /\ fil'[k] = "gone"
    BY <1>0, <1>4, <1>a, <1>b, FlagIsSet DEF WriteFailure, Failures, Flags
  <2> QED BY <1>0, <1>4, <1>c, <2>3 DEF WriteFailure, Pure, Flow, Capturing, Vector, Closed
<1>5. CASE Empty(k)
  <2>1. fil'[k] \in {"look", "gone"} /\ fring[k] = k
    BY <1>5, <1>b, <1>c DEF Empty
  <2>3. Flow(k)'
    BY <1>0, <1>5 DEF Empty, Pure, Flow, Running, This
  <2> QED BY <1>0, <1>5, <1>c, <2>1, <2>3 DEF Empty, Pure, Capturing, Storing, Vector, Closed
<1> QED BY <1>2, <1>3, <1>4, <1>5 DEF FileThread

-----------------------------------------------------------------------------
\* What the steps of the main thread do to an object.
StartFields(b, k) ==
    /\ mem'[b].file_fd = k /\ mem'[b].demuxfd \in {k, 0}
    /\ mem'[b].dvrfd \in {mem[b].dvrfd, k, 0} /\ mem'[b].ringbuffer = mem[b].ringbuffer
    /\ \A c \in Blocks \ {b} : mem'[c] = mem[c]

LEMMA StartTouches ==
    ASSUME IInv, Start
    PROVE  /\ record \in Recs /\ InUse(record) /\ block[record] \in Blocks
           /\ dmx[record] = "none" /\ fil[record] = "none"
           /\ StartFields(block[record], record)
           /\ dmx' = dmx \/ (/\ dmx' = [dmx EXCEPT ![record] = "create"]
                             /\ mem'[block[record]].demuxfd = record
                             /\ mem'[block[record]].dvrfd = record)
<1>0. TypeOK /\ Pointer /\ Owned
  BY DEF IInv
<1>1. record \in Recs /\ InUse(record) /\ block[record] \in Blocks /\ dmx[record] = "none"
  BY <1>0, BlockInUse DEF Start, Pointer, TypeOK, InUse
<1>2. fil[record] = "none"
  BY <1>1 DEF IInv, Together
<1>3. PICK b \in Blocks, k \in Recs : b = block[record] /\ k = record
  BY <1>1
<1>4. mem \in [Blocks -> ObjectType]
  BY <1>0 DEF TypeOK
<1>5. PICK x \in {k, 0}, z \in Flags :
          \/ mem' = [mem EXCEPT ![b].file_fd = k, ![b].demuxfd = x]
          \/ mem' = [mem EXCEPT ![b].file_fd = k, ![b].demuxfd = x, ![b].dvrfd = x]
          \/ mem' = [mem EXCEPT ![b].file_fd = k, ![b].demuxfd = x, ![b].dvrfd = x,
                                ![b].exit_flag = z]
  BY <1>3, ZenonT(40) DEF Start, Flags
<1>6. StartFields(b, k)
  <2>1. CASE mem' = [mem EXCEPT ![b].file_fd = k, ![b].demuxfd = x]
    BY <1>4, <2>1 DEF ObjectType, StartFields
  <2>2. CASE mem' = [mem EXCEPT ![b].file_fd = k, ![b].demuxfd = x, ![b].dvrfd = x]
    BY <1>4, <2>2 DEF ObjectType, StartFields
  <2>3. CASE mem' = [mem EXCEPT ![b].file_fd = k, ![b].demuxfd = x, ![b].dvrfd = x,
                                ![b].exit_flag = z]
    BY <1>4, <2>3 DEF ObjectType, StartFields
  <2> QED BY <1>5, <2>1, <2>2, <2>3
<1>7. ASSUME dmx' # dmx
      PROVE  /\ dmx' = [dmx EXCEPT ![k] = "create"]
             /\ mem'[b].demuxfd = k /\ mem'[b].dvrfd = k
  <2>1. /\ mem' = [mem EXCEPT ![b].file_fd = k, ![b].demuxfd = k, ![b].dvrfd = k,
                              ![b].exit_flag = "RUNNING"]
        /\ dmx' = [dmx EXCEPT ![k] = "create"]
    BY <1>3, <1>7 DEF Start, Dmx
  <2> QED BY <1>4, <2>1 DEF ObjectType
<1> QED BY <1>1, <1>2, <1>3, <1>6, <1>7

\* A new recording.
LEMMA PartsNewRecord ==
    ASSUME IInv, NewRecord
    PROVE  /\ \A k \in Recs : Together(k)' /\ Members(k)'
           /\ \A k \in Recs \ mixed' : Pure(k)'
           /\ Pointer' /\ Owned'
<1>0. /\ TypeOK /\ Types /\ Pointer /\ Owned
      /\ \A k \in Recs : Together(k) /\ Members(k)
      /\ \A k \in Recs \ mixed : Pure(k)
  BY DEF IInv
<1>1. started + 1 \in Recs /\ started \in Nat
  BY <1>0, NewBlock
<1>2. PICK b \in Blocks :
          /\ block' = [block EXCEPT ![started + 1] = b]
          /\ mem' = [mem EXCEPT ![b].exit_flag = "IDLE"]
          /\ mixed' = IF mixed \cup Users(b) = {} THEN {}
                      ELSE mixed \cup Users(b) \cup {started + 1}
          /\ mixed' \subseteq Recs
  BY <1>0, NewBlock
<1>3. PICK n \in Recs : n = started + 1
  BY <1>1
<1>4. /\ record' = n /\ started' = n /\ main' = "start" /\ UNCHANGED <<dmx, fil, fring>>
      /\ \A k \in Recs : Same(k) /\ todo'[k] = todo[k] /\ ring'[k] = ring[k]
  BY <1>3 DEF NewRecord, threads, capture, writing, Same
<1>5. mixed \subseteq mixed' /\ Users(b) \subseteq mixed' /\ (Users(b) # {} => n \in mixed')
  BY <1>2, <1>3
<1>6. dmx[n] = "none" /\ fil[n] = "none" /\ ~Alive(n)
  <2>1. dmx[n] = "none"
    BY <1>0, <1>1, <1>3 DEF Pointer
  <2>2. fil[n] = "none"
    BY <1>0, <2>1 DEF Together
  <2> QED BY <2>1, <2>2 DEF Alive
<1>7. block'[n] = b /\ \A k \in Recs \ {n} : block'[k] = block[k]
  BY <1>0, <1>2, <1>3 DEF TypeOK
<1>8. \A c \in Blocks : /\ c # b => mem'[c] = mem[c]
                        /\ mem'[c].dvrfd = mem[c].dvrfd /\ mem'[c].demuxfd = mem[c].demuxfd
                        /\ mem'[c].file_fd = mem[c].file_fd
                        /\ mem'[c].ringbuffer = mem[c].ringbuffer
  BY <1>0, <1>2 DEF TypeOK, ObjectType
<1>9. \A k \in Recs : Together(k)'
  BY <1>0, <1>4 DEF Together
<1>10. ASSUME NEW k \in Recs PROVE Members(k)'
  <2>1. Home(k) \subseteq Home(k)' /\ Fds(k) \subseteq Fds(k)'
    BY <1>5 DEF Home, Fds
  <2>2. ASSUME dmx[k] \in Capturing \cup {"create"}
        PROVE  /\ (This(k))'.dvrfd = This(k).dvrfd /\ (This(k))'.demuxfd = This(k).demuxfd
               /\ (This(k))'.file_fd = This(k).file_fd
               /\ (This(k))'.ringbuffer = This(k).ringbuffer
    <3>1. Alive(k)
      BY <2>2 DEF Alive, Capturing
    <3>2. k # n /\ block[k] \in Blocks
      BY <1>0, <1>6, <3>1, BlockInUse DEF InUse
    <3>3. (This(k))' = mem'[block[k]] /\ This(k) = mem[block[k]]
      BY <1>7, <3>2 DEF This
    <3> QED BY <1>8, <3>2, <3>3
  <2>3. Members(k)
    BY <1>0
  <2> QED BY <1>4, <2>1, <2>2, <2>3 DEF Members
<1>11. ASSUME NEW k \in Recs \ mixed' PROVE Pure(k)'
  <2>1. k \in Recs \ mixed /\ Same(k)
    BY <1>4, <1>5
  <2>2. SameObject(k)
    <3> SUFFICES ASSUME Alive(k) PROVE block'[k] = block[k] /\ mem'[block[k]] = mem[block[k]]
      BY DEF SameObject
    <3>1. k # n /\ block[k] \in Blocks
      BY <1>0, <1>6, BlockInUse DEF InUse
    <3>2. block[k] # b
      BY <1>5 DEF Users
    <3> QED BY <1>7, <1>8, <3>1, <3>2
  <2> QED BY <1>0, <2>1, <2>2, SameIsPure
<1>12. Pointer'
  <2>1. \A k \in Recs : k > n => dmx[k] = "none"
    BY <1>0, <1>1, <1>3 DEF Pointer, Recs
  <2>2. n # 0 /\ n <= n
    BY <1>1, <1>3
  <2> QED BY <1>4, <1>6, <2>1, <2>2 DEF Pointer
<1>13. Owned'
  <2>1. \A k \in Recs : InUse(k)' => k = n \/ (InUse(k) /\ Alive(k))
    BY <1>4 DEF InUse, Alive
  <2>2. b # 0
    BY SizesAssumption DEF Blocks, Recs
  <2>3. \A k \in Recs : InUse(k)' => block'[k] # 0
    BY <1>0, <1>7, <2>1, <2>2 DEF Owned
  <2>4. ASSUME NEW j \in Recs, NEW k \in Recs, Alive(j), Alive(k), block'[j] = block'[k]
        PROVE  j = k \/ (j \in mixed' /\ k \in mixed')
    BY <1>0, <1>5, <1>6, <1>7, <2>4 DEF Owned, InUse
  <2>5. ASSUME NEW k \in Recs, Alive(k), block'[k] = block'[n] PROVE k \in mixed' /\ n \in mixed'
    <3>1. k \in Users(b)
      BY <1>6, <1>7, <2>5 DEF Users
    <3> QED BY <1>5, <3>1
  <2> QED BY <2>1, <2>3, <2>4, <2>5 DEF Owned
<1> QED BY <1>9, <1>10, <1>11, <1>12, <1>13

\* A recording starts or is refused.
LEMMA PartsStart ==
    ASSUME IInv, Start
    PROVE  /\ \A k \in Recs : Together(k)' /\ Members(k)'
           /\ \A k \in Recs \ mixed' : Pure(k)'
           /\ Pointer' /\ Owned'
<1>0. /\ TypeOK /\ Types /\ Pointer /\ Owned
      /\ \A k \in Recs : Together(k) /\ Members(k)
      /\ \A k \in Recs \ mixed : Pure(k)
  BY DEF IInv
<1>1. PICK r \in Recs, b \in Blocks : r = record /\ b = block[record]
  BY StartTouches
<1>2. /\ InUse(r) /\ block[r] = b /\ dmx[r] = "none" /\ fil[r] = "none" /\ StartFields(b, r)
      /\ dmx' = dmx \/ (/\ dmx' = [dmx EXCEPT ![r] = "create"]
                        /\ mem'[b].demuxfd = r /\ mem'[b].dvrfd = r)
  BY <1>1, StartTouches
<1>3. /\ main' = "idle" /\ record' \in {record, 0}
      /\ UNCHANGED <<block, started, mixed, fil, todo, packet, ring, fring, avail, file>>
      /\ dev' = dev \/ dev' = [dev EXCEPT ![r].open = TRUE]
      /\ filters' = filters \/ filters' = [filters EXCEPT ![r] = TRUE]
  BY <1>1 DEF Start, capture, writing
<1>4. /\ \A k \in Recs \ {r} : dmx'[k] = dmx[k] /\ dev'[k] = dev[k] /\ filters'[k] = filters[k]
      /\ dmx'[r] \in {"none", "create"} /\ dev'[r].next = dev[r].next
  <2>1. \A k \in Recs \ {r} : dmx'[k] = dmx[k]
    BY <1>0, <1>2 DEF TypeOK
  <2>2. dmx'[r] \in {"none", "create"}
    BY <1>0, <1>2 DEF TypeOK
  <2>3. (\A k \in Recs \ {r} : dev'[k] = dev[k]) /\ dev'[r].next = dev[r].next
    BY <1>0, <1>3 DEF TypeOK
  <2>4. \A k \in Recs \ {r} : filters'[k] = filters[k]
    BY <1>0, <1>3 DEF TypeOK
  <2> QED BY <2>1, <2>2, <2>3, <2>4
<1>5. \A k \in Recs : Together(k)'
  BY <1>0, <1>2, <1>3, <1>4 DEF Together, Capturing
<1>6. ASSUME NEW k \in Recs, k # r, Alive(k), block[k] = b PROVE k \in mixed /\ r \in mixed
  BY <1>0, <1>2, <1>6 DEF Owned, InUse
<1>7. ASSUME NEW k \in Recs PROVE Members(k)'
  <2>1. Home(k)' = Home(k) /\ Fds(k)' = Fds(k) /\ k \in Home(k) /\ k \in Fds(k)
    BY <1>3 DEF Home, Fds
  <2>2. CASE k = r
    <3>1. CASE dmx' = dmx
      BY <1>2, <1>3, <2>2, <3>1 DEF Members, Capturing
    <3>2. CASE dmx' # dmx
      <4>1. (This(k))' = mem'[b]
        BY <1>2, <1>3, <2>2 DEF This
      <4>2. mem'[b].demuxfd = k /\ mem'[b].dvrfd = k /\ mem'[b].file_fd = k
        BY <1>2, <2>2, <3>2 DEF StartFields
      <4> QED BY <1>2, <1>3, <1>4, <2>1, <2>2, <4>1, <4>2 DEF Members, Capturing
    <3> QED BY <3>1, <3>2
  <2>3. CASE k # r
    <3>1. ASSUME dmx[k] \in Capturing \cup {"create"}
          PROVE  /\ (This(k))'.dvrfd \in Fds(k) /\ (This(k))'.demuxfd \in Fds(k)
                 /\ (This(k))'.file_fd \in Home(k)
                 /\ dmx[k] \in Capturing => (This(k))'.ringbuffer \in Home(k)
      <4>1. Alive(k) /\ block[k] \in Blocks
        <5>1. Alive(k)
          BY <3>1 DEF Alive, Capturing
        <5> QED BY <1>0, <5>1, BlockInUse DEF InUse
      <4>2. (This(k))' = mem'[block[k]] /\ This(k) = mem[block[k]]
        BY <1>3 DEF This
      <4>3. /\ This(k).dvrfd \in Fds(k) /\ This(k).demuxfd \in Fds(k) /\ This(k).file_fd \in Home(k)
            /\ dmx[k] \in Capturing => This(k).ringbuffer \in Home(k)
        BY <1>0, <3>1 DEF Members
      <4>4. CASE block[k] # b
        BY <1>2, <4>1, <4>2, <4>3, <4>4 DEF StartFields
      <4>5. CASE block[k] = b
        <5>1. r \in Home(k) /\ r \in Fds(k) /\ 0 \in Fds(k)
          BY <1>6, <2>3, <4>1, <4>5 DEF Home, Fds
        <5>2. /\ mem'[b].file_fd = r /\ mem'[b].demuxfd \in {r, 0}
              /\ mem'[b].dvrfd \in {mem[b].dvrfd, r, 0} /\ mem'[b].ringbuffer = mem[b].ringbuffer
          BY <1>2 DEF StartFields
        <5> QED BY <4>2, <4>3, <4>5, <5>1, <5>2
      <4> QED BY <4>4, <4>5
    <3>2. Members(k) /\ dmx'[k] = dmx[k] /\ fil'[k] = fil[k] /\ fring'[k] = fring[k]
      BY <1>0, <1>3, <1>4, <2>3
    <3> QED BY <2>1, <3>1, <3>2 DEF Members
  <2> QED BY <2>2, <2>3
<1>8. ASSUME NEW k \in Recs \ mixed' PROVE Pure(k)'
  <2>1. k \in Recs \ mixed /\ Pure(k)
    BY <1>0, <1>3
  <2>2. CASE k # r
    <3>1. Same(k)
      BY <1>3, <1>4, <2>2 DEF Same
    <3>2. SameObject(k)
      <4> SUFFICES ASSUME Alive(k) PROVE block'[k] = block[k] /\ mem'[block[k]] = mem[block[k]]
        BY DEF SameObject
      <4>1. block[k] \in Blocks /\ block[k] # b
        BY <1>0, <1>6, <2>1, <2>2, BlockInUse DEF InUse
      <4> QED BY <1>2, <1>3, <4>1 DEF StartFields
    <3> QED BY <2>1, <3>1, <3>2, SameIsPure
  <2>3. CASE k = r
    <3>1. dmx[k] = "none" /\ dmx'[k] \in {"none", "create"} /\ fil'[k] = "none"
      BY <1>2, <1>3, <1>4, <2>3
    <3>2. dev'[k].next = dev[k].next
      BY <1>4, <2>3
    <3>3. Flow(k)'
      BY <1>3, <2>1, <3>1, <3>2 DEF Pure, Flow
    <3> QED BY <3>1, <3>3 DEF Pure, Vector, Closed
  <2> QED BY <2>2, <2>3
<1>9. Pointer'
  BY <1>0, <1>1, <1>3, <1>4, SizesAssumption DEF Pointer, TypeOK, Recs
<1>10. Owned'
  <2>1. \A k \in Recs : InUse(k)' => InUse(k)
    BY <1>1, <1>2, <1>3, <1>4 DEF InUse, Alive, Recs
  <2> QED BY <1>0, <1>3, <2>1 DEF Owned
<1> QED BY <1>5, <1>7, <1>8, <1>9, <1>10

\* A recording is stopped.
LEMMA PartsStop ==
    ASSUME IInv, Stop \/ StopSet
    PROVE  /\ \A k \in Recs : Together(k)' /\ Members(k)'
           /\ \A k \in Recs \ mixed' : Pure(k)'
           /\ Pointer' /\ Owned'
<1>0. /\ TypeOK /\ Types /\ Pointer /\ Owned
      /\ \A k \in Recs : Together(k) /\ Members(k)
      /\ \A k \in Recs \ mixed : Pure(k)
  BY DEF IInv
<1>1. /\ main' = "idle" \/ (main' = "stop" /\ record' = record)
      /\ record' \in {record, 0} /\ record # 0 /\ record \in Recs
      /\ UNCHANGED <<started, mixed, block, dmx, fil, todo, packet, ring, fring, avail, dev,
                     filters, file>>
  BY <1>0 DEF Stop, StopSet, Deleted, Pointer, TypeOK, threads, capture, writing
<1>2. PICK r \in Recs, b \in Blocks : r = record /\ b = block[r]
  BY <1>0, <1>1, BlockInUse DEF InUse
<1>3. mem' = mem \/ mem' = [mem EXCEPT ![b].exit_flag = "IDLE"]
  BY <1>2 DEF Stop, StopSet, Set
<1>4. \A c \in Blocks : /\ c # b => mem'[c] = mem[c]
                        /\ mem'[c].dvrfd = mem[c].dvrfd /\ mem'[c].demuxfd = mem[c].demuxfd
                        /\ mem'[c].file_fd = mem[c].file_fd
                        /\ mem'[c].ringbuffer = mem[c].ringbuffer
                        /\ mem'[c].exit_flag \in {mem[c].exit_flag, "IDLE"}
  BY <1>0, <1>3 DEF TypeOK, ObjectType
<1>5. \A k \in Recs : Together(k)'
  BY <1>0, <1>1 DEF Together
<1>6. ASSUME NEW k \in Recs PROVE Members(k)'
  <2>1. Home(k)' = Home(k) /\ Fds(k)' = Fds(k)
    BY <1>1 DEF Home, Fds
  <2>2. ASSUME dmx[k] \in Capturing \cup {"create"}
        PROVE  /\ (This(k))'.dvrfd = This(k).dvrfd /\ (This(k))'.demuxfd = This(k).demuxfd
               /\ (This(k))'.file_fd = This(k).file_fd
               /\ (This(k))'.ringbuffer = This(k).ringbuffer
    <3>1. Alive(k)
      BY <2>2 DEF Alive, Capturing
    <3>2. block[k] \in Blocks
      BY <1>0, <3>1, BlockInUse DEF InUse
    <3>3. (This(k))' = mem'[block[k]] /\ This(k) = mem[block[k]]
      BY <1>1 DEF This
    <3> QED BY <1>4, <3>2, <3>3
  <2>3. Members(k)
    BY <1>0
  <2> QED BY <1>1, <2>1, <2>2, <2>3 DEF Members
<1>7. ASSUME NEW k \in Recs \ mixed' PROVE Pure(k)'
  <2>1. k \in Recs \ mixed /\ Pure(k) /\ Same(k)
    BY <1>0, <1>1 DEF Same
  <2>2. Alive(k) => block[k] \in Blocks
    BY <1>0, BlockInUse DEF InUse
  <2>3. dmx[k] \in Capturing => (Running(k)' => Running(k))
    <3>1. dmx[k] \in Capturing => Alive(k)
      BY DEF Alive, Capturing
    <3> QED BY <1>1, <1>4, <2>2, <3>1 DEF Running, This
  <2>4. Flow(k)'
    BY <2>1, <2>3 DEF Same, Pure, Flow, Capturing
  <2> QED BY <2>1, <2>4 DEF Same, Pure, Vector, Closed
<1>8. Pointer'
  BY <1>0, <1>1, SizesAssumption DEF Pointer, TypeOK, Recs
<1>9. Owned'
  <2>1. \A k \in Recs : InUse(k)' => InUse(k)
    BY <1>1 DEF InUse, Alive, Recs
  <2> QED BY <1>0, <1>1, <2>1 DEF Owned
<1> QED BY <1>5, <1>6, <1>7, <1>8, <1>9

\* Only the main thread gives memory away.
LEMMA ControlKept ==
    ASSUME IInv, NEW k \in Recs, DMXThread(k) \/ FileThread(k) PROVE Pointer' /\ Owned'
<1>0. TypeOK /\ Pointer /\ Owned
  BY DEF IInv
<1>1. Alive(k) /\ dmx[k] # "none"
  BY DMXAlive, FileAlive DEF Capturing
<1>2. UNCHANGED <<record, main, started, block, mixed>>
  BY ThreadTouches DEF Touches, Kept
<1>3. \A j \in Recs : j # k => Quiet(j)
  BY QuietDMX, QuietFile
<1>4. Pointer'
  BY <1>0, <1>1, <1>2, <1>3 DEF Pointer, Quiet, TypeOK
<1>5. \A j \in Recs : InUse(j)' => InUse(j)
  BY <1>1, <1>2, <1>3 DEF InUse, Alive, Quiet
<1> QED BY <1>0, <1>2, <1>4, <1>5 DEF Owned

LEMMA NextInvariant == ASSUME IInv, [Next]_vars PROVE IInv'
<1>1. CASE Main
  <2>1. TypeOK' /\ Types'
    BY <1>1, TypesMain
  <2> QED BY <1>1, <2>1, PartsNewRecord, PartsStart, PartsStop DEF IInv, Main
<1>2. ASSUME NEW k \in Recs, DMXThread(k) PROVE IInv'
  <2>1. TypeOK' /\ Types' /\ Pointer' /\ Owned' /\ UNCHANGED mixed
    BY <1>2, TypesDMX, ControlKept, ThreadTouches DEF Touches, Kept
  <2>2. \A j \in Recs : Together(j)' /\ Members(j)'
    BY <1>2, TogetherDMX, MembersOwn, MembersOthers
  <2>3. ASSUME NEW j \in Recs \ mixed PROVE Pure(j)'
    <3>1. Pure(j)
      BY DEF IInv
    <3>2. CASE j = k
      BY <1>2, <3>2, PureDMX
    <3>3. CASE j # k
      BY <1>2, <3>1, <3>3, OtherObjects, OtherRecordingsDMX, SameIsPure
    <3> QED BY <3>2, <3>3
  <2> QED BY <2>1, <2>2, <2>3 DEF IInv
<1>3. ASSUME NEW k \in Recs, FileThread(k) PROVE IInv'
  <2>1. TypeOK' /\ Types' /\ Pointer' /\ Owned' /\ UNCHANGED mixed
    BY <1>3, TypesFile, ControlKept, ThreadTouches DEF Touches, Kept
  <2>2. \A j \in Recs : Together(j)' /\ Members(j)'
    BY <1>3, TogetherFile, MembersOwn, MembersOthers
  <2>3. ASSUME NEW j \in Recs \ mixed PROVE Pure(j)'
    <3>1. Pure(j)
      BY DEF IInv
    <3>2. CASE j = k
      BY <1>3, <3>2, PureFile
    <3>3. CASE j # k
      BY <1>3, <3>1, <3>3, OtherObjects, OtherRecordingsFile, SameIsPure
    <3> QED BY <3>2, <3>3
  <2> QED BY <2>1, <2>2, <2>3 DEF IInv
<1>4. CASE UNCHANGED vars
  <2> USE <1>4 DEF vars, caller, threads, capture, writing
  <2>1. TypeOK' /\ Types' /\ Pointer' /\ Owned'
    BY DEF IInv, TypeOK, Types, Pointer, Owned, InUse, Alive
  <2>2. \A k \in Recs : Together(k)' /\ Members(k)'
    BY DEF IInv, Together, Members, Home, Fds, This
  <2>3. \A k \in Recs \ mixed : Pure(k)'
    BY SameIsPure DEF IInv, Same, SameObject
  <2> QED BY <2>1, <2>2, <2>3 DEF IInv
<1> QED BY <1>1, <1>2, <1>3, <1>4 DEF Next

LEMMA Invariance == Spec => []IInv
<1>1. IInv /\ [Next]_vars => IInv'
  BY NextInvariant
<1> QED BY <1>1, InitInvariant, PTL DEF Spec

-----------------------------------------------------------------------------
\* The variables have their types; the ring buffer never holds more than fits, whatever
\* threads share an object (record_cs.cpp:81-300).
THEOREM TypeCorrect == Spec => []TypeOK
<1>1. IInv => TypeOK
  BY DEF IInv
<1> QED BY <1>1, Invariance, PTL

\* The file of a recording is gapless (record_cs.cpp:100-142, 206-300), unless threads of an
\* earlier recording used its object, it used theirs, or one before it did (stream2file.cpp:125,
\* 164).
THEOREM Gapless == Spec => []FilesAreGapless
<1>1. IInv => FilesAreGapless
  <2> SUFFICES ASSUME IInv, NEW k \in Recs \ mixed, NEW i \in DOMAIN file[k]
               PROVE  file[k][i] = <<k, i>>
    BY DEF FilesAreGapless
  <2>1. file[k] \in Seq(Stream) /\ Flow(k)
    BY DEF IInv, Types, Pure
  <2>2. i \in 1..Len(file[k])
    BY <2>1
  <2> QED BY <2>1, <2>2 DEF Flow
<1> QED BY <1>1, Invariance, PTL

\* The end of a recording, as far as it is a safety property: when DMXThread has ended, so has
\* FileThread, if there ever was one, and the filters and the device are released
\* (record_cs.cpp:203, 280-300), with the same exceptions.
ReleasedAtEnd ==
    \A k \in Recs \ mixed :
        dmx[k] = "gone" => fil[k] \in {"gone", "refused"} /\ ~filters[k] /\ ~dev[k].open

THEOREM Released == Spec => []ReleasedAtEnd
<1>1. IInv => ReleasedAtEnd
  BY DEF IInv, Pure, Together, Closed, Ended, ReleasedAtEnd
<1> QED BY <1>1, Invariance, PTL
=============================================================================

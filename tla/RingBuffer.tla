----------------------------- MODULE RingBuffer -----------------------------
(***************************************************************************)
(* The ring buffer between the thread that reads the demultiplexer and the *)
(* thread that writes the file of a recording: driver/ringbuffer.c.        *)
(*                                                                         *)
(* One writer and one reader share it without a lock.  Each asks for a     *)
(* vector, the one or two stretches of memory it may use, works on a       *)
(* stretch in pieces of its own choice and advances its pointer after each *)
(* piece.  The copying ringbuffer_write and ringbuffer_read do the same    *)
(* with pieces that are as long as they can be.                            *)
(*                                                                         *)
(* The pointers are volatile and an advance is two statements, an addition *)
(* and a masking: the other side may see the pointer between them.  The    *)
(* size is a power of two: masking with size - 1 is the remainder.         *)
(***************************************************************************)
EXTENDS Integers, Sequences

CONSTANTS
    Size,       \* rb->size
    Overtaking, \* may the reader read everything, wrap around and look again while the
                \* writer is between the two statements of one advance
    MaxBytes    \* bound: the bytes ever written

ASSUME SizeAssumption == Size \in Nat /\ Size >= 2 /\ \E p \in 1..30 : Size = 2^p
ASSUME OtherAssumption == MaxBytes \in Nat /\ Overtaking \in BOOLEAN

VARIABLES
    write_ptr, read_ptr, \* rb->write_ptr and rb->read_ptr
    buf,                 \* rb->buf; the n-th byte written is n, 0 is a byte never written
    wpc, rpc,            \* where the two threads are
    wvec, rvec,          \* what is left of their vectors
    wn, rn,              \* the length of the piece they work on
    put,                 \* history: how many bytes have been written
    out                  \* history: the bytes that have been read

writer == <<write_ptr, wpc, wvec, wn, put>>
reader == <<read_ptr, rpc, rvec, rn, out>>
vars   == <<writer, reader, buf>>

\* ringbuffer_create: the size is the next power of two, and at least 2.
Rounded(sz) ==
    CHOOSE s \in {2^p : p \in 1..30} :
        s >= sz /\ \A p \in 1..30 : 2^p >= sz => s <= 2^p

\* Mutant: a wrapped writer is not recognised.
ReadSpaceUnwrapped(w, r) == IF w > r THEN w - r ELSE 0

\* Mutant: the difference is not reduced.
ReadSpaceUnmasked(w, r) == IF w > r THEN w - r ELSE w - r + Size

ReadSpace(w, r) == IF w > r THEN w - r ELSE (w - r + Size) % Size

\* Mutant: no byte is kept free.
WriteSpaceFull(w, r) ==
    IF w > r THEN (r - w + Size) % Size
    ELSE IF w < r THEN r - w
    ELSE Size

WriteSpace(w, r) ==
    IF w > r THEN ((r - w + Size) % Size) - 1
    ELSE IF w < r THEN r - w - 1
    ELSE Size - 1

\* cnt bytes from p on: a stretch at p and, when it would pass the end, a second
\* one at the start of the memory.
Vector(p, cnt) ==
    IF p + cnt > Size
    THEN [off |-> p, len |-> Size - p, len2 |-> (p + cnt) % Size]
    ELSE [off |-> p, len |-> cnt, len2 |-> 0]

\* What is left of a vector after a piece of n bytes.
Rest(vec, n) ==
    IF n = vec.len
    THEN [off |-> 0, len |-> vec.len2, len2 |-> 0]
    ELSE [off |-> vec.off + n, len |-> vec.len - n, len2 |-> vec.len2]

Init ==
    /\ write_ptr = 0 /\ read_ptr = 0
    /\ buf = [i \in 0..(Size - 1) |-> 0]
    /\ wpc = "vec" /\ rpc = "vec"
    /\ wvec = Vector(0, 0) /\ rvec = Vector(0, 0)
    /\ wn = 0 /\ rn = 0
    /\ put = 0 /\ out = <<>>

-----------------------------------------------------------------------------
\* The writer.
GetWriteVector ==
    /\ wpc = "vec"
    /\ wvec' = Vector(write_ptr, WriteSpace(write_ptr, read_ptr))
    /\ UNCHANGED <<write_ptr, wpc, wn, put, reader, buf>>

Fill ==
    /\ wpc = "vec"
    /\ \E n \in 1..wvec.len :
          /\ put + n <= MaxBytes
          /\ wn' = n
          /\ buf' = [i \in 0..(Size - 1) |->
                        IF i \in wvec.off..(wvec.off + n - 1) THEN put + 1 + i - wvec.off
                                                              ELSE buf[i]]
    /\ wpc' = "add"
    /\ UNCHANGED <<write_ptr, wvec, put, reader>>

WriteAdvance ==
    /\ wpc = "add"
    /\ write_ptr' = write_ptr + wn
    /\ put' = put + wn
    /\ wpc' = "mask"
    /\ UNCHANGED <<wvec, wn, reader, buf>>

\* Mutant: the pointer is not masked.
WriteUnmasked ==
    /\ wpc = "mask"
    /\ wvec' = Rest(wvec, wn) /\ wn' = 0
    /\ wpc' = "vec"
    /\ UNCHANGED <<write_ptr, put, reader, buf>>

WriteMask ==
    /\ wpc = "mask"
    /\ write_ptr' = write_ptr % Size
    /\ wvec' = Rest(wvec, wn) /\ wn' = 0
    /\ wpc' = "vec"
    /\ UNCHANGED <<put, reader, buf>>

-----------------------------------------------------------------------------
\* The reader.
Overtaken == write_ptr = Size /\ read_ptr = 0

GetReadVector ==
    /\ rpc = "vec"
    /\ Overtaken => Overtaking
    /\ rvec' = Vector(read_ptr, ReadSpace(write_ptr, read_ptr))
    /\ UNCHANGED <<read_ptr, rpc, rn, out, writer, buf>>

Drain ==
    /\ rpc = "vec"
    /\ \E n \in 1..rvec.len :
          /\ rn' = n
          /\ out' = [i \in 1..(Len(out) + n) |->
                        IF i <= Len(out) THEN out[i] ELSE buf[rvec.off + i - Len(out) - 1]]
    /\ rpc' = "add"
    /\ UNCHANGED <<read_ptr, rvec, writer, buf>>

ReadAdvance ==
    /\ rpc = "add"
    /\ read_ptr' = read_ptr + rn
    /\ rpc' = "mask"
    /\ UNCHANGED <<rvec, rn, out, writer, buf>>

ReadMask ==
    /\ rpc = "mask"
    /\ read_ptr' = read_ptr % Size
    /\ rvec' = Rest(rvec, rn) /\ rn' = 0
    /\ rpc' = "vec"
    /\ UNCHANGED <<out, writer, buf>>

-----------------------------------------------------------------------------
Writer == GetWriteVector \/ Fill \/ WriteAdvance \/ WriteMask
Reader == GetReadVector \/ Drain \/ ReadAdvance \/ ReadMask
Next   == Writer \/ Reader

\* The threads keep running, a vector that is not empty is worked on, and the reader
\* looks again when its own is used up.
Fairness ==
    /\ WF_vars(WriteAdvance) /\ WF_vars(WriteMask)
    /\ WF_vars(rvec.len = 0 /\ GetReadVector) /\ WF_vars(Drain)
    /\ WF_vars(ReadAdvance) /\ WF_vars(ReadMask)

Spec     == Init /\ [][Next]_vars
FairSpec == Spec /\ Fairness

-----------------------------------------------------------------------------
TypeOK ==
    /\ write_ptr \in 0..Size /\ read_ptr \in 0..Size
    /\ buf \in [0..(Size - 1) -> Nat]
    /\ wpc \in {"vec", "add", "mask"} /\ rpc \in {"vec", "add", "mask"}
    /\ wvec \in [off : 0..Size, len : 0..Size, len2 : 0..Size]
    /\ rvec \in [off : 0..Size, len : 0..Size, len2 : 0..Size]
    /\ wn \in 0..Size /\ rn \in 0..Size
    /\ put \in 0..MaxBytes
    /\ out \in Seq(Nat)

Owned(vec) == vec.off..(vec.off + vec.len - 1) \cup 0..(vec.len2 - 1)

\* What a thread may still touch: a piece is given away with the addition.
OwnedBy(pc, vec, n) == Owned(IF pc = "mask" THEN Rest(vec, n) ELSE vec)

\* The writer and the reader never have the same byte of the memory in their vectors:
\* a vector computed from a pointer that is out of date, or seen between the addition
\* and the masking, only makes the stretches shorter (ringbuffer.c, the comments of
\* get_read_vector and get_write_vector).
StretchesAreDisjoint == OwnedBy(wpc, wvec, wn) \cap OwnedBy(rpc, rvec, rn) = {}

\* What is read is what was written, in its order (ringbuffer.c:19 "This is safe for the
\* case of one read thread and one write thread").
ReadsWhatWasWritten == Len(out) <= put /\ \A i \in DOMAIN out : out[i] = i

\* The ring buffer is a stream of Size - 1 bytes: nothing is lost, doubled, reordered or
\* overwritten on the way from the demultiplexer to the file.
Stream == INSTANCE ByteStream WITH Capacity <- Size - 1

ImplementsStream == Stream!Spec

\* A byte that has been written is read: a reader that never finds an empty vector while
\* there is something to read does not stop (record_cs.cpp, FileThread).
EverythingArrives == \A n \in 1..MaxBytes : put >= n ~> Len(out) >= n
=============================================================================

-------------------------- MODULE RingBufferProofs --------------------------
(***************************************************************************)
(* The ring buffer is a stream for every size: the inductive invariant of  *)
(* RingBuffer, and the proof that it implements ByteStream as long as the  *)
(* reader does not overtake an advance of the writer.                      *)
(***************************************************************************)
EXTENDS RingBuffer, TLAPS

\* x, or its place in the memory when it is one round further.
Wrap(x) == IF x >= Size THEN x - Size ELSE x

\* A piece that has been read but not given back yet.
Pending == IF rpc = "add" THEN rn ELSE 0

\* How many bytes the reader has given back, and how many lie between the pointers.
Released == Len(out) - Pending
Held     == put - Released

\* The pointers lie inside the memory, or just behind it between the two statements, and
\* are Held bytes apart.
Pointers ==
    /\ write_ptr = Size => wpc = "mask"
    /\ read_ptr = Size => rpc = "mask"
    /\ wpc = "add" => put + wn <= MaxBytes
    /\ Pending \in 0..Len(out)
    /\ Len(out) <= put
    /\ Held \in 0..(Size - 1)
    /\ Wrap(write_ptr) = Wrap(Wrap(read_ptr) + Held)

\* A vector of the thread at ptr that may use up to avail bytes.
Stretch(ptr, pc, vec, n, avail) ==
    /\ vec.off + vec.len <= Size
    /\ vec.len2 > 0 => vec.len > 0 /\ vec.off + vec.len = Size
    /\ pc = "vec" => n = 0 /\ (vec.len > 0 => vec.off = ptr) /\ vec.len + vec.len2 <= avail
    /\ pc = "add" => n \in 1..vec.len /\ vec.off = ptr /\ vec.len + vec.len2 <= avail
    /\ pc = "mask" => n \in 1..vec.len /\ vec.off + n = ptr
                        /\ vec.len + vec.len2 - n <= avail

Vectors ==
    /\ Stretch(write_ptr, wpc, wvec, wn, Size - 1 - Held)
    /\ Stretch(read_ptr, rpc, rvec, rn, Held)

\* The bytes between the pointers are the ones still to be read, and a piece the writer
\* has filled holds the next ones.
Contents ==
    /\ \A j \in 0..(Held - 1) : buf[Wrap(Wrap(read_ptr) + j)] = Released + j + 1
    /\ wpc = "add" => \A i \in 0..(wn - 1) : buf[wvec.off + i] = put + 1 + i
    /\ \A i \in 1..Len(out) : out[i] = i

IInv == TypeOK /\ Pointers /\ Vectors /\ Contents

-----------------------------------------------------------------------------
\* Masking brings a position less than two rounds away back into the memory.
LEMMA MaskIsWrap == \A x \in 0..(2 * Size - 1) : x % Size = Wrap(x)
<1>1. SUFFICES ASSUME NEW x \in 0..(2 * Size - 1) PROVE x % Size = Wrap(x)
  OBVIOUS
<1>2. CASE x < Size
  BY <1>2, SizeAssumption, SMT DEF Wrap
<1>3. CASE x >= Size
  BY <1>3, SizeAssumption, SMT DEF Wrap
<1> QED  BY <1>2, <1>3, SizeAssumption

\* What the writer computes is the true space, wherever the reader is in its advance.
LEMMA SpaceForWriting ==
  ASSUME NEW w \in 0..(Size - 1), NEW r \in 0..Size, NEW h \in 0..(Size - 1),
         w = Wrap(Wrap(r) + h)
  PROVE  WriteSpace(w, r) = Size - 1 - h
<1>1. w > r => (r - w + Size) % Size = r - w + Size
  BY SizeAssumption, MaskIsWrap DEF Wrap
<1> QED  BY <1>1, SizeAssumption DEF WriteSpace, Wrap

\* What the reader computes is the true number of bytes, wherever the writer is in its
\* advance, unless it has caught up with it.
LEMMA SpaceForReading ==
  ASSUME NEW w \in 0..Size, NEW r \in 0..(Size - 1), NEW h \in 0..(Size - 1),
         Wrap(w) = Wrap(r + h), ~(w = Size /\ r = 0)
  PROVE  ReadSpace(w, r) = h
<1>1. ~(w > r) => (w - r + Size) % Size = Wrap(w - r + Size)
  BY SizeAssumption, MaskIsWrap
<1> QED  BY <1>1, SizeAssumption DEF ReadSpace, Wrap

VecType == [off : 0..Size, len : 0..Size, len2 : 0..Size]

\* A vector covers the bytes it was asked for and stays inside the memory.
LEMMA VectorCovers ==
  ASSUME NEW p \in 0..(Size - 1), NEW c \in 0..(Size - 1)
  PROVE  LET v == Vector(p, c)
         IN  /\ v \in VecType
             /\ v.off = p /\ v.len + v.len2 = c /\ v.off + v.len <= Size
             /\ v.len2 > 0 => v.len > 0 /\ v.off + v.len = Size
<1>1. p + c > Size => (p + c) % Size = p + c - Size
  BY SizeAssumption, MaskIsWrap DEF Wrap
<1> QED  BY <1>1, SizeAssumption DEF Vector, VecType

\* The rest of a vector after a piece.
LEMMA RestCovers ==
  ASSUME NEW v \in VecType, NEW n \in 1..v.len,
         v.off + v.len <= Size, v.len2 > 0 => v.off + v.len = Size
  PROVE  LET t == Rest(v, n)
         IN  /\ t \in VecType
             /\ t.len + t.len2 = v.len + v.len2 - n /\ t.off + t.len <= Size
             /\ t.len2 > 0 => t.len > 0 /\ t.off + t.len = Size
             /\ t.len > 0 => t.off = Wrap(v.off + n)
BY SizeAssumption DEF Rest, VecType, Wrap

\* A vector stays good when more space becomes free.
LEMMA MoreSpace ==
  ASSUME NEW ptr, NEW pc, NEW v \in VecType, NEW n \in 0..Size, NEW a \in Int, NEW b \in Int,
         a <= b, Stretch(ptr, pc, v, n, a)
  PROVE  Stretch(ptr, pc, v, n, b)
BY SizeAssumption DEF Stretch, VecType

-----------------------------------------------------------------------------
LEMMA InitInvariant == Init => IInv
<1> SUFFICES ASSUME Init PROVE IInv
  OBVIOUS
<1>1. Vector(0, 0) = [off |-> 0, len |-> 0, len2 |-> 0]
  BY SizeAssumption DEF Vector
<1>2. TypeOK
  BY <1>1, SizeAssumption, OtherAssumption DEF Init, TypeOK
<1>3. Pending = 0 /\ Len(out) = 0 /\ Held = 0
  <2>1. out = <<>> /\ rpc = "vec" /\ put = 0
    BY DEF Init
  <2>2. Len(out) = 0
    BY <2>1
  <2>3. Pending = 0
    BY <2>1 DEF Pending
  <2>4. put = 0
    BY <2>1
  <2> QED  BY <2>2, <2>3, <2>4 DEF Held, Released
<1>4. Pointers
  BY <1>3, SizeAssumption DEF Init, Pointers, Wrap
<1>5. Vectors
  BY <1>1, <1>3, SizeAssumption DEF Init, Vectors, Stretch
<1>6. Contents
  BY <1>3, SizeAssumption DEF Init, Contents
<1> QED  BY <1>2, <1>4, <1>5, <1>6 DEF IInv

-----------------------------------------------------------------------------
\* The writer's steps.
LEMMA GetWriteVectorStep == ASSUME IInv, GetWriteVector PROVE IInv'
<1> USE SizeAssumption DEF IInv
<1>1. UNCHANGED <<write_ptr, wpc, wn, put, read_ptr, rpc, rvec, rn, out, buf>>
  BY DEF GetWriteVector, reader
<1>2. UNCHANGED <<Pending, Released, Held>>
  BY <1>1 DEF Pending, Released, Held
<1>3. write_ptr \in 0..(Size - 1) /\ write_ptr = Wrap(Wrap(read_ptr) + Held)
  BY DEF GetWriteVector, TypeOK, Pointers, Wrap
<1>4. WriteSpace(write_ptr, read_ptr) = Size - 1 - Held
  BY <1>3, SpaceForWriting DEF TypeOK, Pointers
<1>5. /\ wvec' \in VecType /\ wvec'.off = write_ptr
      /\ wvec'.len + wvec'.len2 = Size - 1 - Held
      /\ wvec'.off + wvec'.len <= Size
      /\ wvec'.len2 > 0 => wvec'.len > 0 /\ wvec'.off + wvec'.len = Size
  <2>1. Size - 1 - Held \in 0..(Size - 1)
    BY DEF Pointers
  <2>2. wvec' = Vector(write_ptr, Size - 1 - Held)
    BY <1>4 DEF GetWriteVector
  <2> QED  BY <1>3, <2>1, <2>2, VectorCovers
<1>6. TypeOK'
  BY <1>1, <1>5 DEF TypeOK, VecType
<1>7. Pointers'
  BY <1>1, <1>2 DEF Pointers, Wrap
<1>8. Vectors'
  <2>1. Stretch(write_ptr, wpc, wvec, wn, Size - 1 - Held)'
    BY <1>1, <1>2, <1>5 DEF Vectors, Stretch, GetWriteVector, TypeOK, VecType
  <2>2. Stretch(read_ptr, rpc, rvec, rn, Held)'
    BY <1>1, <1>2 DEF Vectors, Stretch
  <2> QED  BY <2>1, <2>2 DEF Vectors
<1>9. Contents'
  BY <1>1, <1>2 DEF Contents, Wrap, GetWriteVector
<1> QED  BY <1>6, <1>7, <1>8, <1>9

LEMMA FillStep == ASSUME IInv, Fill PROVE IInv'
<1> USE SizeAssumption DEF IInv
<1>1. UNCHANGED <<write_ptr, wvec, put, read_ptr, rpc, rvec, rn, out>>
  BY DEF Fill, reader
<1>2. UNCHANGED <<Pending, Released, Held>>
  BY <1>1 DEF Pending, Released, Held
<1>3. wpc = "vec" /\ wpc' = "add"
  BY DEF Fill
<1>4. PICK n \in 1..wvec.len :
        /\ put + n <= MaxBytes
        /\ wn' = n
        /\ buf' = [i \in 0..(Size - 1) |->
                      IF i \in wvec.off..(wvec.off + n - 1) THEN put + 1 + i - wvec.off
                                                            ELSE buf[i]]
  BY DEF Fill
<1>5. /\ wvec.off = write_ptr /\ wvec.off + wvec.len <= Size /\ n \in 1..Size
      /\ write_ptr \in 0..(Size - 1) /\ n + wvec.len2 <= Size - 1 - Held
      /\ wvec.off + n <= Size /\ n <= Size - 1 - Held
  <2>1. /\ wvec.off \in 0..Size /\ wvec.len \in 0..Size /\ wvec.len2 \in 0..Size
        /\ write_ptr \in 0..Size /\ Held \in 0..(Size - 1)
    BY DEF TypeOK, Pointers
  <2>2. write_ptr # Size
    BY <1>3 DEF Pointers
  <2>3. /\ wvec.off + wvec.len <= Size
        /\ wvec.len > 0 => wvec.off = write_ptr
        /\ wvec.len + wvec.len2 <= Size - 1 - Held
    BY <1>3 DEF Vectors, Stretch
  <2> QED  BY <2>1, <2>2, <2>3
<1>6. TypeOK'
  <2>1. buf' \in [0..(Size - 1) -> Nat]
    <3>1. \A i \in wvec.off..(wvec.off + n - 1) : put + 1 + i - wvec.off \in Nat
      BY <1>5 DEF TypeOK
    <3>2. \A i \in 0..(Size - 1) : buf[i] \in Nat
      BY DEF TypeOK
    <3> QED  BY <1>4, <3>1, <3>2
  <2>2. wn' \in 0..Size
    BY <1>4, <1>5
  <2> QED  BY <1>1, <1>3, <2>1, <2>2 DEF TypeOK
<1>7. Pointers'
  BY <1>1, <1>2, <1>3, <1>4 DEF Pointers, Wrap, TypeOK
<1>8. Vectors'
  <2>1. Stretch(write_ptr, wpc, wvec, wn, Size - 1 - Held)'
    BY <1>1, <1>2, <1>3, <1>4, <1>5 DEF Vectors, Stretch, TypeOK
  <2>2. Stretch(read_ptr, rpc, rvec, rn, Held)'
    BY <1>1, <1>2 DEF Vectors, Stretch
  <2> QED  BY <2>1, <2>2 DEF Vectors
<1>9. Contents'
  <2>1. ASSUME NEW j \in 0..(Held - 1)
        PROVE  buf'[Wrap(Wrap(read_ptr) + j)] = Released + j + 1
    <3> DEFINE c == Wrap(Wrap(read_ptr) + j)
    <3>1. c \in 0..(Size - 1) /\ ~(c \in wvec.off..(wvec.off + n - 1))
      <4>1. Held \in 0..(Size - 1) /\ read_ptr \in 0..Size
        BY DEF Pointers, TypeOK
      <4>2. write_ptr = Wrap(Wrap(read_ptr) + Held)
        <5>1. Wrap(write_ptr) = write_ptr
          BY <1>5 DEF Wrap
        <5> QED  BY <5>1 DEF Pointers
      <4> QED  BY <1>5, <4>1, <4>2 DEF Wrap
    <3>2. buf'[c] = buf[c]
      BY <1>4, <3>1
    <3> QED  BY <3>2 DEF Contents
  <2>2. \A i \in 0..(n - 1) : buf'[wvec.off + i] = put + 1 + i
    BY <1>4, <1>5 DEF TypeOK
  <2>3. \A i \in 1..Len(out) : out[i] = i
    BY DEF Contents
  <2> QED  BY <1>1, <1>2, <1>4, <2>1, <2>2, <2>3 DEF Contents, Wrap
<1> QED  BY <1>6, <1>7, <1>8, <1>9

LEMMA WriteAdvanceStep == ASSUME IInv, WriteAdvance PROVE IInv'
<1> USE SizeAssumption DEF IInv
<1>1. UNCHANGED <<wvec, wn, read_ptr, rpc, rvec, rn, out, buf>>
  BY DEF WriteAdvance, reader
<1>2. /\ wpc = "add" /\ wpc' = "mask"
      /\ write_ptr' = write_ptr + wn /\ put' = put + wn
  BY DEF WriteAdvance
<1>3. /\ wn \in 1..Size /\ wvec.off = write_ptr /\ wn <= wvec.len
      /\ write_ptr + wn <= Size /\ wn + wvec.len2 <= Size - 1 - Held
      /\ wvec.len + wvec.len2 <= Size - 1 - Held
      /\ wvec.off \in 0..Size /\ wvec.len \in 0..Size /\ wvec.len2 \in 0..Size
      /\ write_ptr \in 0..(Size - 1) /\ read_ptr \in 0..Size
      /\ Held \in 0..(Size - 1) /\ Released \in Nat /\ put \in Nat /\ put = Released + Held
  <2>1. /\ wvec.off \in 0..Size /\ wvec.len \in 0..Size /\ wvec.len2 \in 0..Size
        /\ wn \in 0..Size /\ put \in Nat /\ read_ptr \in 0..Size
        /\ write_ptr \in 0..Size
    BY DEF TypeOK
  <2>2. /\ wvec.off + wvec.len <= Size /\ wn \in 1..wvec.len /\ wvec.off = write_ptr
        /\ wvec.len + wvec.len2 <= Size - 1 - Held
    BY <1>2 DEF Vectors, Stretch
  <2>3. write_ptr # Size /\ Held \in 0..(Size - 1) /\ Pending \in 0..Len(out)
    BY <1>2 DEF Pointers
  <2>4. Released \in Nat /\ put = Released + Held
    <3>1. Len(out) \in Nat
      BY DEF TypeOK
    <3> QED  BY <2>1, <2>3, <3>1 DEF Released, Held
  <2> QED  BY <2>1, <2>2, <2>3, <2>4
<1>4. UNCHANGED <<Pending, Released>> /\ Held' = Held + wn
  <2>1. UNCHANGED <<Pending, Released>>
    BY <1>1 DEF Pending, Released
  <2> QED  BY <1>2, <1>3, <2>1 DEF Held
<1>5. write_ptr = Wrap(Wrap(read_ptr) + Held)
  <2>1. Wrap(write_ptr) = write_ptr
    BY <1>3 DEF Wrap
  <2> QED  BY <2>1 DEF Pointers
<1>6. TypeOK'
  <2>1. put' \in 0..MaxBytes
    BY <1>2, <1>3, OtherAssumption DEF Pointers
  <2>2. write_ptr' \in 0..Size
    BY <1>2, <1>3
  <2> QED  BY <1>1, <1>2, <2>1, <2>2 DEF TypeOK
<1>7. Pointers'
  <2>1. Held' \in 0..(Size - 1)
    BY <1>3, <1>4
  <2>2. Wrap(write_ptr') = Wrap(Wrap(read_ptr) + Held')
    BY <1>2, <1>3, <1>4, <1>5 DEF Wrap
  <2>3. Len(out) <= put' /\ Pending' \in 0..Len(out)'
    <3>1. Len(out) \in Nat
      BY DEF TypeOK
    <3> QED  BY <1>1, <1>2, <1>3, <1>4, <3>1 DEF Pointers
  <2> QED  BY <1>1, <1>2, <2>1, <2>2, <2>3 DEF Pointers, Wrap
<1>8. Vectors'
  <2>1. Stretch(write_ptr, wpc, wvec, wn, Size - 1 - Held)'
    BY <1>1, <1>2, <1>3, <1>4 DEF Vectors, Stretch
  <2>2. Stretch(read_ptr, rpc, rvec, rn, Held)'
    <3>1. /\ rvec.len \in 0..Size /\ rvec.len2 \in 0..Size /\ rn \in 0..Size
          /\ Held' >= Held /\ Held' \in Int
      BY <1>3, <1>4 DEF TypeOK
    <3>2. Stretch(read_ptr, rpc, rvec, rn, Held)
      BY DEF Vectors
    <3> QED  BY <1>1, <1>3, <3>1, <3>2 DEF Stretch
  <2> QED  BY <2>1, <2>2 DEF Vectors
<1>9. Contents'
  <2>1. ASSUME NEW j \in 0..(Held + wn - 1)
        PROVE  buf[Wrap(Wrap(read_ptr) + j)] = Released + j + 1
    <3>1. CASE j < Held
      BY <1>3, <3>1 DEF Contents
    <3>2. CASE j >= Held
      <4>1. Wrap(Wrap(read_ptr) + j) = wvec.off + (j - Held)
        BY <1>3, <1>5, <3>2 DEF Wrap
      <4>2. buf[wvec.off + (j - Held)] = put + 1 + (j - Held)
        <5>1. j - Held \in 0..(wn - 1)
          BY <1>3, <3>2
        <5> QED  BY <1>2, <5>1 DEF Contents
      <4> QED  BY <1>3, <4>1, <4>2
    <3> QED  BY <1>3, <3>1, <3>2
  <2>2. \A j \in 0..(Held' - 1) : buf[Wrap(Wrap(read_ptr) + j)] = Released + j + 1
    <3>1. Held' - 1 = Held + wn - 1
      BY <1>3, <1>4
    <3> QED  BY <2>1, <3>1
  <2>3. (\A j \in 0..(Held - 1) : buf[Wrap(Wrap(read_ptr) + j)] = Released + j + 1)'
    BY <1>1, <1>4, <2>2 DEF Wrap
  <2> QED  BY <1>1, <1>2, <2>3 DEF Contents
<1> QED  BY <1>6, <1>7, <1>8, <1>9

LEMMA WriteMaskStep == ASSUME IInv, WriteMask PROVE IInv'
<1> USE SizeAssumption DEF IInv
<1>1. UNCHANGED <<put, read_ptr, rpc, rvec, rn, out, buf>>
  BY DEF WriteMask, reader
<1>2. UNCHANGED <<Pending, Released, Held>>
  BY <1>1 DEF Pending, Released, Held
<1>3. /\ wpc = "mask" /\ wpc' = "vec" /\ wn' = 0
      /\ write_ptr' = write_ptr % Size /\ wvec' = Rest(wvec, wn)
  BY DEF WriteMask
<1>4. /\ wvec \in VecType /\ wn \in 1..wvec.len /\ wvec.off + wvec.len <= Size
      /\ wvec.len2 > 0 => wvec.off + wvec.len = Size
      /\ wvec.off + wn = write_ptr /\ write_ptr \in 0..Size
      /\ wvec.len + wvec.len2 - wn <= Size - 1 - Held
  BY <1>3 DEF Vectors, Stretch, TypeOK, VecType
<1>5. write_ptr' = Wrap(write_ptr) /\ write_ptr' \in 0..(Size - 1)
  BY <1>3, <1>4, MaskIsWrap DEF Wrap
<1>6. /\ wvec' \in VecType
      /\ wvec'.len + wvec'.len2 = wvec.len + wvec.len2 - wn /\ wvec'.off + wvec'.len <= Size
      /\ wvec'.len2 > 0 => wvec'.len > 0 /\ wvec'.off + wvec'.len = Size
      /\ wvec'.len > 0 => wvec'.off = Wrap(write_ptr)
  BY <1>3, <1>4, RestCovers
<1>7. TypeOK'
  <2>1. write_ptr' \in 0..Size /\ wn' \in 0..Size /\ wvec' \in VecType
    BY <1>3, <1>5, <1>6
  <2> QED  BY <1>1, <1>3, <2>1 DEF TypeOK, VecType
<1>8. Pointers'
  <2>1. Wrap(write_ptr') = Wrap(write_ptr)
    BY <1>4, <1>5 DEF Wrap
  <2>2. write_ptr' # Size
    BY <1>5
  <2> QED  BY <1>1, <1>2, <1>3, <2>1, <2>2 DEF Pointers, Wrap
<1>9. Vectors'
  <2>1. Stretch(write_ptr, wpc, wvec, wn, Size - 1 - Held)'
    BY <1>2, <1>3, <1>4, <1>5, <1>6 DEF Stretch
  <2>2. Stretch(read_ptr, rpc, rvec, rn, Held)'
    BY <1>1, <1>2 DEF Vectors, Stretch
  <2> QED  BY <2>1, <2>2 DEF Vectors
<1>10. Contents'
  BY <1>1, <1>2, <1>3 DEF Contents, Wrap
<1> QED  BY <1>7, <1>8, <1>9, <1>10

-----------------------------------------------------------------------------
\* The reader's steps.
LEMMA GetReadVectorStep == ASSUME IInv, GetReadVector, ~Overtaking PROVE IInv'
<1> USE SizeAssumption DEF IInv
<1>1. UNCHANGED <<read_ptr, rpc, rn, out, write_ptr, wpc, wvec, wn, put, buf>>
  BY DEF GetReadVector, writer
<1>2. UNCHANGED <<Pending, Released, Held>>
  BY <1>1 DEF Pending, Released, Held
<1>3. /\ read_ptr \in 0..(Size - 1) /\ write_ptr \in 0..Size /\ Held \in 0..(Size - 1)
      /\ Wrap(write_ptr) = Wrap(read_ptr + Held) /\ ~(write_ptr = Size /\ read_ptr = 0)
  BY DEF GetReadVector, Overtaken, TypeOK, Pointers, Wrap
<1>4. ReadSpace(write_ptr, read_ptr) = Held
  BY <1>3, SpaceForReading
<1>5. /\ rvec' \in VecType /\ rvec'.off = read_ptr
      /\ rvec'.len + rvec'.len2 = Held
      /\ rvec'.off + rvec'.len <= Size
      /\ rvec'.len2 > 0 => rvec'.len > 0 /\ rvec'.off + rvec'.len = Size
  <2>1. rvec' = Vector(read_ptr, Held)
    BY <1>4 DEF GetReadVector
  <2> QED  BY <1>3, <2>1, VectorCovers
<1>6. TypeOK'
  BY <1>1, <1>5 DEF TypeOK, VecType
<1>7. Pointers'
  BY <1>1, <1>2 DEF Pointers, Wrap
<1>8. Vectors'
  <2>1. Stretch(write_ptr, wpc, wvec, wn, Size - 1 - Held)'
    BY <1>1, <1>2 DEF Vectors, Stretch
  <2>2. Stretch(read_ptr, rpc, rvec, rn, Held)'
    BY <1>1, <1>2, <1>3, <1>5 DEF Vectors, Stretch, GetReadVector, VecType
  <2> QED  BY <2>1, <2>2 DEF Vectors
<1>9. Contents'
  BY <1>1, <1>2 DEF Contents, Wrap
<1> QED  BY <1>6, <1>7, <1>8, <1>9

\* A piece of n bytes is read: it holds the next n bytes of the stream.
LEMMA DrainReads ==
  ASSUME IInv, Drain
  PROVE  \E n \in 1..rvec.len :
            /\ rn' = n /\ n \in 1..(Size - 1) /\ n <= Held /\ Held = put - Len(out)
            /\ Pending = 0 /\ Released = Len(out)
            /\ out' \in Seq(Nat) /\ Len(out') = Len(out) + n
            /\ \A i \in 1..Len(out') : out'[i] = i
<1> USE SizeAssumption DEF IInv
<1>1. PICK n \in 1..rvec.len :
        /\ rn' = n
        /\ out' = [i \in 1..(Len(out) + n) |->
                      IF i <= Len(out) THEN out[i] ELSE buf[rvec.off + i - Len(out) - 1]]
  BY DEF Drain
<1>2. rpc = "vec"
  BY DEF Drain
<1>3. out \in Seq(Nat) /\ Len(out) \in Nat /\ put \in Nat
  BY DEF TypeOK
<1>4. Pending = 0 /\ Released = Len(out) /\ Held = put - Len(out)
  BY <1>2, <1>3 DEF Pending, Released, Held
<1>5. /\ rvec.off = read_ptr /\ read_ptr \in 0..(Size - 1) /\ read_ptr + n <= Size
      /\ n <= Held /\ Held \in 0..(Size - 1) /\ n \in 1..(Size - 1)
  <2>1. /\ rvec.off \in 0..Size /\ rvec.len \in 0..Size /\ rvec.len2 \in 0..Size
        /\ read_ptr \in 0..Size /\ Held \in 0..(Size - 1)
    BY DEF TypeOK, Pointers
  <2>2. read_ptr # Size
    BY <1>2 DEF Pointers
  <2>3. /\ rvec.off + rvec.len <= Size
        /\ rvec.len > 0 => rvec.off = read_ptr
        /\ rvec.len + rvec.len2 <= Held
    BY <1>2 DEF Vectors, Stretch
  <2> QED  BY <2>1, <2>2, <2>3
<1>6. ASSUME NEW i \in 1..(Len(out) + n) PROVE out'[i] = i
  <2>1. CASE i <= Len(out)
    <3>1. out[i] = i
      BY <1>3, <2>1 DEF Contents
    <3> QED  BY <1>1, <2>1, <3>1
  <2>2. CASE i > Len(out)
    <3> DEFINE k == i - Len(out) - 1
    <3>1. k \in 0..(n - 1) /\ k \in 0..(Held - 1) /\ Wrap(Wrap(read_ptr) + k) = rvec.off + k
      BY <1>3, <1>5, <2>2 DEF Wrap
    <3>2. buf[rvec.off + k] = Released + k + 1
      BY <3>1 DEF Contents
    <3>3. out'[i] = buf[rvec.off + i - Len(out) - 1]
      BY <1>1, <1>3, <2>2
    <3>4. rvec.off + i - Len(out) - 1 = rvec.off + k
      BY <1>3, <1>5
    <3> QED  BY <1>3, <1>4, <3>2, <3>3, <3>4
  <2> QED  BY <1>3, <2>1, <2>2
<1>7. out' = [i \in 1..(Len(out) + n) |-> i]
  BY <1>1, <1>6
<1>8. out' \in Seq(Nat) /\ Len(out') = Len(out) + n
  <2>1. Len(out) + n \in Nat
    BY <1>3, <1>5
  <2> QED  BY <1>7, <2>1
<1> QED  BY <1>1, <1>4, <1>5, <1>6, <1>8

LEMMA DrainStep == ASSUME IInv, Drain PROVE IInv'
<1> USE SizeAssumption DEF IInv
<1>1. UNCHANGED <<read_ptr, rvec, write_ptr, wpc, wvec, wn, put, buf>>
  BY DEF Drain, writer
<1>2. rpc = "vec" /\ rpc' = "add"
  BY DEF Drain
<1>3. PICK n \in 1..rvec.len :
        /\ rn' = n /\ n \in 1..(Size - 1) /\ n <= Held /\ Held = put - Len(out)
        /\ Pending = 0 /\ Released = Len(out)
        /\ out' \in Seq(Nat) /\ Len(out') = Len(out) + n
        /\ \A i \in 1..Len(out') : out'[i] = i
  BY DrainReads
<1>4. Len(out) \in Nat /\ put \in Nat /\ Held \in 0..(Size - 1)
  BY DEF TypeOK, Pointers
<1>5. Pending' = n /\ UNCHANGED <<Released, Held>>
  <2>1. Pending' = n
    BY <1>2, <1>3 DEF Pending
  <2> QED  BY <1>1, <1>3, <1>4, <2>1 DEF Released, Held
<1>6. TypeOK'
  <2>1. rn' \in 0..Size
    BY <1>3
  <2> QED  BY <1>1, <1>2, <1>3, <2>1 DEF TypeOK
<1>7. Pointers'
  <2>1. read_ptr # Size
    BY <1>2 DEF Pointers
  <2>2. Pending' \in 0..Len(out') /\ Len(out') <= put'
    BY <1>1, <1>3, <1>4, <1>5
  <2> QED  BY <1>1, <1>2, <1>5, <2>1, <2>2 DEF Pointers, Wrap
<1>8. Vectors'
  <2>1. Stretch(write_ptr, wpc, wvec, wn, Size - 1 - Held)'
    BY <1>1, <1>5 DEF Vectors, Stretch
  <2>2. Stretch(read_ptr, rpc, rvec, rn, Held)'
    BY <1>1, <1>2, <1>3, <1>5, SMTT(30) DEF Vectors, Stretch, TypeOK
  <2> QED  BY <2>1, <2>2 DEF Vectors
<1>9. Contents'
  BY <1>1, <1>3, <1>5 DEF Contents, Wrap
<1> QED  BY <1>6, <1>7, <1>8, <1>9

LEMMA ReadAdvanceStep == ASSUME IInv, ReadAdvance PROVE IInv'
<1> USE SizeAssumption DEF IInv
<1>1. UNCHANGED <<rvec, rn, out, write_ptr, wpc, wvec, wn, put, buf>>
  BY DEF ReadAdvance, writer
<1>2. rpc = "add" /\ rpc' = "mask" /\ read_ptr' = read_ptr + rn
  BY DEF ReadAdvance
<1>3. /\ rn \in 1..Size /\ rvec.off = read_ptr /\ rn <= rvec.len
      /\ read_ptr + rn <= Size /\ rvec.len + rvec.len2 <= Held
      /\ rvec.len \in 0..Size /\ rvec.len2 \in 0..Size
      /\ read_ptr \in 0..(Size - 1) /\ Held \in 0..(Size - 1)
      /\ Len(out) \in Nat /\ put \in Nat /\ Released = Len(out) - rn /\ Held = put - Released
  <2>1. /\ rvec.off \in 0..Size /\ rvec.len \in 0..Size /\ rvec.len2 \in 0..Size
        /\ rn \in 0..Size /\ put \in Nat /\ read_ptr \in 0..Size
        /\ Held \in 0..(Size - 1) /\ Len(out) \in Nat
    BY DEF TypeOK, Pointers
  <2>2. /\ rvec.off + rvec.len <= Size /\ rn \in 1..rvec.len /\ rvec.off = read_ptr
        /\ rvec.len + rvec.len2 <= Held
    BY <1>2 DEF Vectors, Stretch
  <2>3. read_ptr # Size /\ Pending = rn
    BY <1>2 DEF Pointers, Pending
  <2>4. Released = Len(out) - rn /\ Held = put - Released
    BY <2>3 DEF Released, Held
  <2> QED  BY <2>1, <2>2, <2>3, <2>4
<1>4. Pending' = 0 /\ Released' = Released + rn /\ Held' = Held - rn
  <2>1. Pending' = 0
    BY <1>2 DEF Pending
  <2>2. Released' = Len(out)
    BY <1>1, <1>3, <2>1 DEF Released
  <2>3. Held' = put - Len(out)
    BY <1>1, <2>2 DEF Held
  <2> QED  BY <1>3, <2>1, <2>2, <2>3
<1>5. TypeOK'
  <2>1. read_ptr' \in 0..Size
    BY <1>2, <1>3
  <2> QED  BY <1>1, <1>2, <2>1 DEF TypeOK
<1>6. Pointers'
  <2>1. Held' \in 0..(Size - 1)
    BY <1>3, <1>4
  <2>2. Wrap(write_ptr) = Wrap(read_ptr + Held)
    BY <1>3, SMTT(30) DEF Pointers, Wrap
  <2>3. write_ptr \in 0..Size
    BY DEF TypeOK
  <2>4. Wrap(write_ptr) = Wrap(Wrap(read_ptr') + Held')
    <3>1. CASE read_ptr + rn = Size
      BY <1>2, <1>3, <1>4, <2>2, <3>1, SMTT(30) DEF Wrap
    <3>2. CASE read_ptr + rn < Size
      <4>1. Wrap(read_ptr') + Held' = read_ptr + Held
        BY <1>2, <1>3, <1>4, <3>2 DEF Wrap
      <4> QED  BY <2>2, <4>1
    <3> QED  BY <1>3, <3>1, <3>2
  <2>5. Pending' \in 0..Len(out)
    BY <1>3, <1>4
  <2> QED  BY <1>1, <1>2, <2>1, <2>4, <2>5 DEF Pointers, Wrap
<1>7. Vectors'
  <2>1. Stretch(write_ptr, wpc, wvec, wn, Size - 1 - Held)'
    <3>1. wvec \in VecType /\ wn \in 0..Size
      BY DEF TypeOK, VecType
    <3>2. Stretch(write_ptr, wpc, wvec, wn, Size - 1 - Held)
      BY DEF Vectors
    <3>3. /\ Size - 1 - Held \in Int /\ Size - 1 - Held' \in Int
          /\ Size - 1 - Held <= Size - 1 - Held'
      BY <1>3, <1>4
    <3>4. Stretch(write_ptr, wpc, wvec, wn, Size - 1 - Held')
      BY <3>1, <3>2, <3>3, MoreSpace
    <3> QED  BY <1>1, <3>4 DEF Stretch
  <2>2. Stretch(read_ptr, rpc, rvec, rn, Held)'
    BY <1>1, <1>2, <1>3, <1>4, SMTT(30) DEF Vectors, Stretch
  <2> QED  BY <2>1, <2>2 DEF Vectors
<1>8. Contents'
  <2>1. ASSUME NEW j \in 0..(Held - rn - 1)
        PROVE  buf[Wrap(Wrap(read_ptr + rn) + j)] = Released + rn + j + 1
    <3>1. j + rn \in 0..(Held - 1) /\ Wrap(Wrap(read_ptr) + (j + rn)) = Wrap(Wrap(read_ptr + rn) + j)
      BY <1>3 DEF Wrap
    <3>2. buf[Wrap(Wrap(read_ptr) + (j + rn))] = Released + (j + rn) + 1
      BY <3>1 DEF Contents
    <3> QED  BY <1>3, <3>1, <3>2
  <2>2. Held' - 1 = Held - rn - 1
    BY <1>4
  <2>3. (\A j \in 0..(Held - 1) : buf[Wrap(Wrap(read_ptr) + j)] = Released + j + 1)'
    BY <1>1, <1>2, <1>4, <2>1, <2>2 DEF Wrap
  <2> QED  BY <1>1, <2>3 DEF Contents
<1> QED  BY <1>5, <1>6, <1>7, <1>8

LEMMA ReadMaskStep == ASSUME IInv, ReadMask PROVE IInv'
<1> USE SizeAssumption DEF IInv
<1>1. UNCHANGED <<out, write_ptr, wpc, wvec, wn, put, buf>>
  BY DEF ReadMask, writer
<1>2. /\ rpc = "mask" /\ rpc' = "vec" /\ rn' = 0
      /\ read_ptr' = read_ptr % Size /\ rvec' = Rest(rvec, rn)
  BY DEF ReadMask
<1>3. UNCHANGED <<Pending, Released, Held>>
  BY <1>1, <1>2 DEF Pending, Released, Held
<1>4. /\ rvec \in VecType /\ rn \in 1..rvec.len /\ rvec.off + rvec.len <= Size
      /\ rvec.len2 > 0 => rvec.off + rvec.len = Size
      /\ rvec.off + rn = read_ptr /\ read_ptr \in 0..Size
      /\ rvec.len + rvec.len2 - rn <= Held
  BY <1>2 DEF Vectors, Stretch, TypeOK, VecType
<1>5. read_ptr' = Wrap(read_ptr) /\ read_ptr' \in 0..(Size - 1) /\ Wrap(read_ptr') = Wrap(read_ptr)
  BY <1>2, <1>4, MaskIsWrap DEF Wrap
<1>6. /\ rvec' \in VecType
      /\ rvec'.len + rvec'.len2 = rvec.len + rvec.len2 - rn /\ rvec'.off + rvec'.len <= Size
      /\ rvec'.len2 > 0 => rvec'.len > 0 /\ rvec'.off + rvec'.len = Size
      /\ rvec'.len > 0 => rvec'.off = Wrap(read_ptr)
  BY <1>2, <1>4, RestCovers
<1>7. TypeOK'
  <2>1. read_ptr' \in 0..Size /\ rn' \in 0..Size /\ rvec' \in VecType
    BY <1>2, <1>5, <1>6
  <2> QED  BY <1>1, <1>2, <2>1 DEF TypeOK, VecType
<1>8. Pointers'
  <2>1. read_ptr' # Size
    BY <1>5
  <2>2. Wrap(write_ptr') = Wrap(Wrap(read_ptr') + Held')
    <3>1. Wrap(write_ptr) = Wrap(Wrap(read_ptr) + Held)
      BY DEF Pointers
    <3>2. Wrap(write_ptr') = Wrap(write_ptr)
      BY <1>1 DEF Wrap
    <3> QED  BY <1>3, <1>5, <3>1, <3>2
  <2> QED  BY <1>1, <1>3, <2>1, <2>2 DEF Pointers
<1>9. Vectors'
  <2>1. Stretch(write_ptr, wpc, wvec, wn, Size - 1 - Held)'
    BY <1>1, <1>3 DEF Vectors, Stretch
  <2>2. Stretch(read_ptr, rpc, rvec, rn, Held)'
    BY <1>2, <1>3, <1>4, <1>5, <1>6 DEF Stretch
  <2> QED  BY <2>1, <2>2 DEF Vectors
<1>10. Contents'
  <2>1. (\A j \in 0..(Held - 1) : buf[Wrap(Wrap(read_ptr) + j)] = Released + j + 1)'
    <3>1. \A j \in 0..(Held - 1) : buf[Wrap(Wrap(read_ptr') + j)] = Released + j + 1
      BY <1>5 DEF Contents
    <3> QED  BY <1>1, <1>3, <3>1 DEF Wrap
  <2> QED  BY <1>1, <2>1 DEF Contents
<1> QED  BY <1>7, <1>8, <1>9, <1>10

-----------------------------------------------------------------------------
LEMMA StutterStep == ASSUME IInv, UNCHANGED vars PROVE IInv'
<1>1. UNCHANGED <<Pending, Released, Held>>
  BY DEF vars, writer, reader, Pending, Released, Held
<1> QED
  BY <1>1 DEF vars, writer, reader, IInv, TypeOK, Pointers, Vectors, Stretch, Contents, Wrap

LEMMA Step == ASSUME IInv, [Next]_vars, ~Overtaking PROVE IInv'
<1>1. CASE GetWriteVector  BY <1>1, GetWriteVectorStep
<1>2. CASE Fill            BY <1>2, FillStep
<1>3. CASE WriteAdvance    BY <1>3, WriteAdvanceStep
<1>4. CASE WriteMask       BY <1>4, WriteMaskStep
<1>5. CASE GetReadVector   BY <1>5, GetReadVectorStep
<1>6. CASE Drain           BY <1>6, DrainStep
<1>7. CASE ReadAdvance     BY <1>7, ReadAdvanceStep
<1>8. CASE ReadMask        BY <1>8, ReadMaskStep
<1>9. CASE UNCHANGED vars  BY <1>9, StutterStep
<1> QED
  BY <1>1, <1>2, <1>3, <1>4, <1>5, <1>6, <1>7, <1>8, <1>9 DEF Next, Writer, Reader

\* IInv holds in every state, when the reader does not overtake an advance.
THEOREM Invariance == ASSUME ~Overtaking PROVE Spec => []IInv
<1>1. Init => IInv
  BY InitInvariant
<1>2. IInv /\ [Next]_vars => IInv'
  BY Step
<1> QED  BY <1>1, <1>2, PTL DEF Spec

\* The pointers, the vectors and the memory keep their types (ringbuffer.h).
THEOREM TypeCorrectness == ASSUME ~Overtaking PROVE Spec => []TypeOK
<1>1. IInv => TypeOK
  BY DEF IInv
<1> QED  BY <1>1, Invariance, PTL

-----------------------------------------------------------------------------
\* What a thread may touch is a vector from its masked pointer on.
LEMMA OwnedStretch ==
  ASSUME SizeAssumption, NEW ptr \in 0..Size, NEW pc, NEW v \in VecType, NEW n \in 0..Size,
         NEW avail \in Nat, Stretch(ptr, pc, v, n, avail), pc \in {"vec", "add", "mask"},
         ptr = Size => pc = "mask"
  PROVE  LET t == IF pc = "mask" THEN Rest(v, n) ELSE v
         IN  /\ t \in VecType /\ t.len + t.len2 <= avail /\ t.off + t.len <= Size
             /\ t.len2 > 0 => t.len > 0 /\ t.off + t.len = Size
             /\ t.len > 0 => t.off = Wrap(ptr)
<1>1. CASE pc = "mask"
  <2>1. /\ n \in 1..v.len /\ v.off + v.len <= Size /\ v.off + n = ptr
        /\ v.len2 > 0 => v.off + v.len = Size
        /\ v.len + v.len2 - n <= avail
    BY <1>1 DEF Stretch
  <2> QED  BY <1>1, <2>1, RestCovers
<1>2. CASE pc # "mask"
  BY <1>2 DEF Stretch, VecType, Wrap
<1> QED  BY <1>1, <1>2

\* Two vectors that start Held bytes apart and are not longer than what lies between
\* them have no byte in common.
LEMMA Apart ==
  ASSUME SizeAssumption, NEW w \in 0..(Size - 1), NEW r \in 0..(Size - 1),
         NEW h \in 0..(Size - 1), w = Wrap(r + h), NEW a \in VecType, NEW b \in VecType,
         a.len + a.len2 <= Size - 1 - h, a.off + a.len <= Size,
         a.len2 > 0 => a.len > 0 /\ a.off + a.len = Size, a.len > 0 => a.off = w,
         b.len + b.len2 <= h, b.off + b.len <= Size,
         b.len2 > 0 => b.len > 0 /\ b.off + b.len = Size, b.len > 0 => b.off = r
  PROVE  Owned(a) \cap Owned(b) = {}
<1> SUFFICES ASSUME NEW c \in Owned(a), c \in Owned(b) PROVE FALSE
  OBVIOUS
<1>1. /\ a.off \in 0..Size /\ a.len \in 0..Size /\ a.len2 \in 0..Size
      /\ b.off \in 0..Size /\ b.len \in 0..Size /\ b.len2 \in 0..Size
  BY DEF VecType
<1>2. \/ c \in a.off..(a.off + a.len - 1)
      \/ c \in 0..(a.len2 - 1)
  BY DEF Owned
<1>3. \/ c \in b.off..(b.off + b.len - 1)
      \/ c \in 0..(b.len2 - 1)
  BY DEF Owned
<1>4. CASE r + h < Size
  <2>1. w = r + h
    BY <1>4 DEF Wrap
  <2> QED  BY <1>1, <1>2, <1>3, <1>4, <2>1
<1>5. CASE r + h >= Size
  <2>1. w = r + h - Size
    BY <1>5 DEF Wrap
  <2> QED  BY <1>1, <1>2, <1>3, <1>5, <2>1
<1> QED  BY <1>4, <1>5

\* The writer and the reader never have the same byte of the memory in their vectors,
\* for a buffer of any size (ringbuffer_get_read_vector, ringbuffer_get_write_vector).
THEOREM Disjointness == ASSUME ~Overtaking PROVE Spec => []StretchesAreDisjoint
<1>1. IInv => StretchesAreDisjoint
  <2> SUFFICES ASSUME IInv PROVE StretchesAreDisjoint
    OBVIOUS
  <2> USE SizeAssumption DEF IInv
  <2> DEFINE a == IF wpc = "mask" THEN Rest(wvec, wn) ELSE wvec
             b == IF rpc = "mask" THEN Rest(rvec, rn) ELSE rvec
  <2>1. /\ write_ptr \in 0..Size /\ read_ptr \in 0..Size
        /\ wvec \in VecType /\ rvec \in VecType /\ wn \in 0..Size /\ rn \in 0..Size
        /\ wpc \in {"vec", "add", "mask"} /\ rpc \in {"vec", "add", "mask"}
    BY DEF TypeOK, VecType
  <2>2. /\ Held \in 0..(Size - 1) /\ Size - 1 - Held \in Nat /\ Held \in Nat
        /\ Wrap(write_ptr) = Wrap(Wrap(read_ptr) + Held)
        /\ write_ptr = Size => wpc = "mask"
        /\ read_ptr = Size => rpc = "mask"
    BY DEF Pointers
  <2>3. Wrap(write_ptr) \in 0..(Size - 1) /\ Wrap(read_ptr) \in 0..(Size - 1)
    BY <2>1 DEF Wrap
  <2>4. /\ a \in VecType /\ a.len + a.len2 <= Size - 1 - Held /\ a.off + a.len <= Size
        /\ a.len2 > 0 => a.len > 0 /\ a.off + a.len = Size
        /\ a.len > 0 => a.off = Wrap(write_ptr)
    <3>1. Stretch(write_ptr, wpc, wvec, wn, Size - 1 - Held)
      BY DEF Vectors
    <3> QED  BY <2>1, <2>2, <3>1, OwnedStretch, ZenonT(40)
  <2>5. /\ b \in VecType /\ b.len + b.len2 <= Held /\ b.off + b.len <= Size
        /\ b.len2 > 0 => b.len > 0 /\ b.off + b.len = Size
        /\ b.len > 0 => b.off = Wrap(read_ptr)
    <3>1. Stretch(read_ptr, rpc, rvec, rn, Held)
      BY DEF Vectors
    <3>2. Held \in Nat /\ (read_ptr = Size => rpc = "mask")
      BY <2>2
    <3> HIDE DEF IInv
    <3> QED  BY <2>1, <3>1, <3>2, OwnedStretch
  <2> HIDE DEF a, b
  <2>6. Owned(a) \cap Owned(b) = {}
    BY <2>2, <2>3, <2>4, <2>5, Apart
  <2> QED  BY <2>6 DEF StretchesAreDisjoint, OwnedBy, a, b
<1> QED  BY <1>1, Invariance, PTL

\* What is read is what was written (ringbuffer.c:19): every byte read is the next one.
THEOREM Integrity == ASSUME ~Overtaking PROVE Spec => []ReadsWhatWasWritten
<1>1. IInv => ReadsWhatWasWritten
  <2> SUFFICES ASSUME IInv PROVE ReadsWhatWasWritten
    OBVIOUS
  <2>1. DOMAIN out = 1..Len(out)
    BY DEF IInv, TypeOK
  <2> QED  BY <2>1 DEF IInv, Pointers, Contents, ReadsWhatWasWritten
<1> QED  BY <1>1, Invariance, PTL

-----------------------------------------------------------------------------
\* The ring buffer implements the stream: a piece is put by the addition of the writer
\* and got when the reader copies it; every other step is invisible.
THEOREM Refinement == ASSUME ~Overtaking PROVE Spec => ImplementsStream
<1>1. Init => Stream!Init
  BY DEF Init, Stream!Init
<1>2. IInv /\ [Next]_vars => [Stream!Next]_<<put, out>>
  <2> SUFFICES ASSUME IInv, [Next]_vars PROVE [Stream!Next]_<<put, out>>
    OBVIOUS
  <2> USE SizeAssumption DEF IInv
  <2>1. CASE WriteAdvance
    <3>1. /\ wn \in 1..(Size - 1) /\ wn <= Size - 1 - Held
          /\ put' = put + wn /\ out' = out
      <4>1. /\ wvec.len \in 0..Size /\ wvec.len2 \in 0..Size
            /\ wn \in 1..wvec.len /\ wvec.len + wvec.len2 <= Size - 1 - Held
            /\ Held \in 0..(Size - 1)
        BY <2>1 DEF WriteAdvance, Vectors, Stretch, TypeOK, Pointers
      <4> QED  BY <2>1, <4>1 DEF WriteAdvance, reader
    <3>2. Len(out) \in Nat /\ put \in Nat /\ Held >= put - Len(out)
      <4>1. Len(out) \in Nat /\ put \in Nat /\ Pending \in Nat
        BY DEF TypeOK, Pointers
      <4> QED  BY <4>1 DEF Held, Released
    <3>3. Held \in 0..(Size - 1)
      BY DEF Pointers
    <3>4. put + wn - Len(out) <= Size - 1
      BY <3>1, <3>2, <3>3
    <3>5. Stream!Put(wn)
      BY <3>1, <3>4 DEF Stream!Put
    <3> QED  BY <3>1, <3>5 DEF Stream!Next
  <2>2. CASE Drain
    <3>1. PICK n \in 1..rvec.len :
            /\ rn' = n /\ n \in 1..(Size - 1) /\ n <= Held /\ Held = put - Len(out)
            /\ Pending = 0 /\ Released = Len(out)
            /\ out' \in Seq(Nat) /\ Len(out') = Len(out) + n
            /\ \A i \in 1..Len(out') : out'[i] = i
      BY <2>2, DrainReads
    <3>2. Len(out) \in Nat /\ put \in Nat
      BY DEF TypeOK
    <3>3. out' = [i \in 1..(Len(out) + n) |-> i]
      BY <3>1
    <3>4. Len(out) + n <= put
      BY <3>1, <3>2
    <3>5. put' = put
      BY <2>2 DEF Drain, writer
    <3>6. Stream!Get(n)
      BY <3>3, <3>4, <3>5 DEF Stream!Get
    <3> QED  BY <3>1, <3>6 DEF Stream!Next
  <2>3. CASE GetWriteVector \/ Fill \/ WriteMask \/ GetReadVector \/ ReadAdvance \/ ReadMask
    BY <2>3 DEF GetWriteVector, Fill, WriteMask, GetReadVector, ReadAdvance, ReadMask,
                writer, reader
  <2>4. CASE UNCHANGED vars
    BY <2>4 DEF vars, writer, reader
  <2> QED  BY <2>1, <2>2, <2>3, <2>4 DEF Next, Writer, Reader
<1> QED  BY <1>1, <1>2, Invariance, PTL DEF Spec, ImplementsStream, Stream!Spec
=============================================================================

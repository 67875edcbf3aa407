------------------------------- MODULE Buffer -------------------------------
(***************************************************************************)
(* The Buffer of Buffer.h and Buffer.cc: a vector with a reserved front,   *)
(* a read index and a write index.  Sizes are parameters, so that small    *)
(* ones reach every branch.  A buffer is a record of the three members;    *)
(* the functions that change it are operators from a buffer to a buffer.   *)
(*                                                                         *)
(* Bytes are numbered in the order in which they go in.  A byte written    *)
(* past the end of the vector is not in the model, and neither is anything *)
(* done with the buffer after that: the C++ program has no defined meaning *)
(* from there on.                                                          *)
(*                                                                         *)
(* retrieveUnchecked, makeSpaceLen and readFdIndexLeft are seeded faults,   *)
(* each of the operator that follows it.                                   *)
(***************************************************************************)
EXTENDS Naturals, Sequences

CONSTANTS
  kCheapPrepend,    (* reserved bytes in front, 8 in the code *)
  kInitialSize,     (* initial size without them, 1024 in the code *)
  ExtraSize,        (* sizeof extrabuf, 65536 in the code *)
  MaxBytes          (* bound: bytes that ever go in *)

ASSUME SizesAssumption ==
  /\ kCheapPrepend \in Nat \ {0}
  /\ kInitialSize \in Nat
  /\ ExtraSize \in Nat
  /\ MaxBytes \in Nat

VARIABLES
  buf,      (* the buffer *)
  taken,    (* history: bytes that went in *)
  out       (* history: the bytes the last reading call gave *)

vars == <<buf, taken, out>>

Byte == 0..MaxBytes           (* 0 is what the vector fills itself with *)

BufferType ==
  [buffer_ : Seq(Byte), readerIndex_ : Nat, writerIndex_ : Nat]

-----------------------------------------------------------------------------
readableBytes(b) == b.writerIndex_ - b.readerIndex_
writerBytes(b) == Len(b.buffer_) - b.writerIndex_
prependableBytes(b) == b.readerIndex_

(* The write index has passed the end of the vector. *)
Overrun(b) == b.writerIndex_ > Len(b.buffer_)

Readable(b) == SubSeq(b.buffer_, b.readerIndex_ + 1, b.writerIndex_)

(* The vector resized to n: new bytes are 0. *)
Resize(cells, n) == [k \in 1..n |-> IF k <= Len(cells) THEN cells[k] ELSE 0]

(* Bytes s copied into the vector at offset i; what is past its end is not kept. *)
Write(cells, i, s) ==
  [k \in 1..Len(cells) |-> IF k > i /\ k <= i + Len(s) THEN s[k - i] ELSE cells[k]]

EmptyBuffer ==
  [buffer_ |-> [k \in 1..(kCheapPrepend + kInitialSize) |-> 0],
   readerIndex_ |-> kCheapPrepend, writerIndex_ |-> kCheapPrepend]

retrieveAll(b) ==
  [b EXCEPT !.readerIndex_ = kCheapPrepend, !.writerIndex_ = kCheapPrepend]

retrieveUnchecked(b, len) == [b EXCEPT !.readerIndex_ = @ + len]

retrieve(b, len) ==
  IF len < readableBytes(b) THEN [b EXCEPT !.readerIndex_ = @ + len] ELSE retrieveAll(b)

makeSpaceLen(b, len) ==
  IF writerBytes(b) + prependableBytes(b) < len
    THEN [b EXCEPT !.buffer_ = Resize(@, len)]
    ELSE [b EXCEPT !.buffer_ = Write(@, kCheapPrepend, Readable(b)),
                   !.readerIndex_ = kCheapPrepend,
                   !.writerIndex_ = kCheapPrepend + readableBytes(b)]

(* Grow the vector, or move the readable bytes to the front. *)
makeSpace(b, len) ==
  IF writerBytes(b) + prependableBytes(b) < len
    THEN [b EXCEPT !.buffer_ = Resize(@, b.writerIndex_ + len)]
    ELSE [b EXCEPT !.buffer_ = Write(@, kCheapPrepend, Readable(b)),
                   !.readerIndex_ = kCheapPrepend,
                   !.writerIndex_ = kCheapPrepend + readableBytes(b)]

ensureWriteableBytes(b, len) ==
  IF writerBytes(b) < len THEN makeSpace(b, len) ELSE b

append(b, s) ==
  LET room == ensureWriteableBytes(b, Len(s))
  IN  [room EXCEPT !.buffer_ = Write(@, room.writerIndex_, s),
                   !.writerIndex_ = @ + Len(s)]

(* What readv may return: the free part of the vector, and extrabuf behind  *)
(* it when that part is the smaller of the two.                             *)
readvLimit(b) ==
  writerBytes(b) + IF writerBytes(b) < ExtraSize THEN ExtraSize ELSE 0

readFdIndexLeft(b, s) ==
  LET n == Len(s)
      writable == writerBytes(b)
      filled == [b EXCEPT !.buffer_ = Write(@, b.writerIndex_, s)]
  IN  IF n <= writable
        THEN [filled EXCEPT !.writerIndex_ = @ + n]
        ELSE append(filled, SubSeq(s, writable + 1, n))

(* readFd when readv gave the bytes s: those that did not fit are appended. *)
readFd(b, s) ==
  LET n == Len(s)
      writable == writerBytes(b)
      filled == [b EXCEPT !.buffer_ = Write(@, b.writerIndex_, s)]
  IN  IF n <= writable
        THEN [filled EXCEPT !.writerIndex_ = @ + n]
        ELSE append([filled EXCEPT !.writerIndex_ = Len(b.buffer_)],
                    SubSeq(s, writable + 1, n))

-----------------------------------------------------------------------------
Fresh(n) == [i \in 1..n |-> taken + i]

Init == buf = EmptyBuffer /\ taken = 0 /\ out = <<>>

AppendBytes(n) ==
  /\ buf' = append(buf, Fresh(n))
  /\ taken' = taken + n
  /\ UNCHANGED out

(* readFd when readv gave n bytes; when it gave none, or an error, nothing  *)
(* changes.                                                                 *)
ReadFd(n) ==
  /\ n <= readvLimit(buf)
  /\ buf' = readFd(buf, Fresh(n))
  /\ taken' = taken + n
  /\ UNCHANGED out

(* writeFd: write took n bytes. *)
WriteFd(n) ==
  /\ n <= readableBytes(buf)
  /\ out' = SubSeq(Readable(buf), 1, n)
  /\ UNCHANGED <<buf, taken>>

(* retrieve accepts any length. *)
Retrieve(len) ==
  /\ buf' = retrieve(buf, len)
  /\ UNCHANGED <<taken, out>>

(* retriveAsString builds its result from len bytes at the read index, and  *)
(* all its callers ask for at most what is readable.                        *)
RetriveAsString(len) ==
  /\ len <= readableBytes(buf)
  /\ out' = SubSeq(Readable(buf), 1, len)
  /\ buf' = retrieve(buf, len)
  /\ UNCHANGED taken

Next ==
  /\ ~Overrun(buf)
  /\ \/ \E n \in 1..(MaxBytes - taken) : AppendBytes(n) \/ ReadFd(n)
     \/ \E n \in 0..MaxBytes : WriteFd(n) \/ Retrieve(n) \/ RetriveAsString(n)

Spec == Init /\ [][Next]_vars

-----------------------------------------------------------------------------
(* The three members keep their types and the indices their order, however  *)
(* growing, moving and retrieving alternate.                                *)
TypeOK ==
  /\ buf \in BufferType
  /\ kCheapPrepend <= buf.readerIndex_
  /\ buf.readerIndex_ <= buf.writerIndex_
  /\ taken \in 0..MaxBytes
  /\ out \in Seq(Byte)

(* makeSpace counts the reserved front as free, so an append may write past *)
(* the end of the vector, but never by more than that front.                *)
OverrunBounded == buf.writerIndex_ <= Len(buf.buffer_) + kCheapPrepend

(* As long as no append has passed the end, the buffer is a queue of bytes: *)
(* nothing is lost, repeated or moved out of order by growing the vector,   *)
(* by moving the readable part, or by what arrives through extrabuf.        *)
Queue == INSTANCE ByteQueue WITH
           contents <- IF Overrun(buf) THEN <<>> ELSE Readable(buf),
           intact <- ~Overrun(buf)

Promise == Queue!Spec

(* Buffer.h:80 on append: the bytes are added to the writable part.         *)
WithinBuffer == ~Overrun(buf)
=============================================================================

---------------------------- MODULE BufferProofs ----------------------------
(***************************************************************************)
(* Proofs about Buffer, for any sizes of the reserved front, of the vector *)
(* and of extrabuf.  The lemmas are about the operators, one per function  *)
(* of Buffer.h and Buffer.cc; the theorems follow from them.               *)
(***************************************************************************)
EXTENDS Buffer, SequenceTheorems, TLAPS

-----------------------------------------------------------------------------
(* Sequences.                                                               *)

LEMMA FunctionIsSeq ==
  ASSUME NEW S, NEW n \in Nat, NEW f \in [1..n -> S]
  PROVE  /\ f \in Seq(S)
         /\ Len(f) = n
<1>1. f \in Seq(S)
  BY SeqDef
<1>2. Len(f) \in Nat /\ 1..Len(f) = 1..n
  BY <1>1, LenProperties
<1>3. QED
  BY <1>1, <1>2

(* What follows the first m elements, up to the nth. *)
LEMMA SubSeqAfter ==
  ASSUME NEW s \in Seq(Byte), NEW m \in Nat, NEW n \in Nat, m <= n, n <= Len(s)
  PROVE  /\ SubSeq(s, m + 1, n) \in Seq(Byte)
         /\ Len(SubSeq(s, m + 1, n)) = n - m
         /\ \A i \in 1..(n - m) : SubSeq(s, m + 1, n)[i] = s[m + i]
<1>1. Len(s) \in Nat /\ m + 1 \in Int /\ n \in Int
  BY LenProperties
<1>2. \A k \in (m + 1)..n : s[k] \in Byte
  BY <1>1, ElementOfSeq
<1>3. /\ SubSeq(s, m + 1, n) \in Seq(Byte)
      /\ Len(SubSeq(s, m + 1, n)) = IF m + 1 <= n THEN n - (m + 1) + 1 ELSE 0
      /\ \A i \in 1..(n - (m + 1) + 1) : SubSeq(s, m + 1, n)[i] = s[(m + 1) + i - 1]
  BY <1>1, <1>2, SubSeqProperties
<1>4. n - (m + 1) + 1 = n - m /\ \A i \in 1..(n - m) : (m + 1) + i - 1 = m + i
  OBVIOUS
<1>5. QED
  BY <1>3, <1>4

(* The first m elements. *)
LEMMA SubSeqFirst ==
  ASSUME NEW s \in Seq(Byte), NEW m \in Nat, m <= Len(s)
  PROVE  /\ SubSeq(s, 1, m) \in Seq(Byte)
         /\ Len(SubSeq(s, 1, m)) = m
         /\ \A i \in 1..m : SubSeq(s, 1, m)[i] = s[i]
<1>1. /\ SubSeq(s, 0 + 1, m) \in Seq(Byte) /\ Len(SubSeq(s, 0 + 1, m)) = m - 0
      /\ \A i \in 1..(m - 0) : SubSeq(s, 0 + 1, m)[i] = s[0 + i]
  BY SubSeqAfter
<1>2. 0 + 1 = 1 /\ m - 0 = m /\ \A i \in 1..m : 0 + i = i
  OBVIOUS
<1>3. QED
  BY <1>1, <1>2

LEMMA WholeSeq ==
  ASSUME NEW s \in Seq(Byte)
  PROVE  SubSeq(s, 1, Len(s)) = s
BY LenProperties, SubSeqFirst, SeqEqual

LEMMA WriteProperties ==
  ASSUME NEW cells \in Seq(Byte), NEW i \in Nat, NEW s \in Seq(Byte)
  PROVE  /\ Write(cells, i, s) \in Seq(Byte)
         /\ Len(Write(cells, i, s)) = Len(cells)
         /\ \A k \in 1..Len(cells) :
              Write(cells, i, s)[k] = IF k > i /\ k <= i + Len(s) THEN s[k - i] ELSE cells[k]
<1>1. Len(cells) \in Nat /\ Len(s) \in Nat
  BY LenProperties
<1>2. ASSUME NEW k \in 1..Len(cells)
      PROVE  (IF k > i /\ k <= i + Len(s) THEN s[k - i] ELSE cells[k]) \in Byte
  <2>1. CASE k > i /\ k <= i + Len(s)
    <3>1. k - i \in 1..Len(s)
      BY <1>1, <2>1
    <3>2. QED
      BY <2>1, <3>1, ElementOfSeq
  <2>2. CASE ~(k > i /\ k <= i + Len(s))
    BY <2>2, ElementOfSeq
  <2>3. QED
    BY <2>1, <2>2
<1>3. Write(cells, i, s) \in [1..Len(cells) -> Byte]
  BY <1>2 DEF Write
<1>4. QED
  BY <1>1, <1>3, FunctionIsSeq DEF Write

LEMMA ResizeProperties ==
  ASSUME NEW cells \in Seq(Byte), NEW n \in Nat
  PROVE  /\ Resize(cells, n) \in Seq(Byte)
         /\ Len(Resize(cells, n)) = n
         /\ \A k \in 1..n : Resize(cells, n)[k] = IF k <= Len(cells) THEN cells[k] ELSE 0
<1>1. Len(cells) \in Nat /\ 0 \in Byte
  BY LenProperties, SizesAssumption DEF Byte
<1>2. ASSUME NEW k \in 1..n
      PROVE  (IF k <= Len(cells) THEN cells[k] ELSE 0) \in Byte
  <2>1. CASE k <= Len(cells)
    <3>1. k \in 1..Len(cells)
      BY <1>1, <2>1
    <3>2. QED
      BY <2>1, <3>1, ElementOfSeq
  <2>2. CASE ~(k <= Len(cells))
    BY <1>1, <2>2
  <2>3. QED
    BY <2>1, <2>2
<1>3. Resize(cells, n) \in [1..n -> Byte]
  BY <1>2 DEF Resize
<1>4. QED
  BY <1>3, FunctionIsSeq DEF Resize

-----------------------------------------------------------------------------
(* The functions.                                                           *)

(* A buffer with its indices in order. *)
Ordered(b) ==
  /\ b \in BufferType
  /\ kCheapPrepend <= b.readerIndex_
  /\ b.readerIndex_ <= b.writerIndex_

(* One on which no append has passed the end. *)
Sound(b) == Ordered(b) /\ ~Overrun(b)

LEMMA SoundNumbers ==
  ASSUME NEW b, Sound(b)
  PROVE  /\ Len(b.buffer_) \in Nat /\ b.buffer_ \in Seq(Byte)
         /\ b.readerIndex_ \in Nat /\ b.writerIndex_ \in Nat
         /\ b.writerIndex_ <= Len(b.buffer_)
         /\ readableBytes(b) \in Nat /\ writerBytes(b) \in Nat
         /\ kCheapPrepend \in Nat
<1>1. b.buffer_ \in Seq(Byte) /\ b.readerIndex_ \in Nat /\ b.writerIndex_ \in Nat
  BY DEF Sound, Ordered, BufferType
<1>2. Len(b.buffer_) \in Nat
  BY <1>1, LenProperties
<1>3. QED
  BY <1>1, <1>2, SizesAssumption
     DEF Sound, Ordered, Overrun, readableBytes, writerBytes

LEMMA ReadableProperties ==
  ASSUME NEW b, Sound(b)
  PROVE  /\ Readable(b) \in Seq(Byte)
         /\ Len(Readable(b)) = readableBytes(b)
         /\ \A i \in 1..readableBytes(b) :
              Readable(b)[i] = b.buffer_[b.readerIndex_ + i]
<1>1. /\ Len(b.buffer_) \in Nat /\ b.buffer_ \in Seq(Byte)
      /\ b.readerIndex_ \in Nat /\ b.writerIndex_ \in Nat
      /\ b.writerIndex_ <= Len(b.buffer_) /\ b.readerIndex_ <= b.writerIndex_
  BY SoundNumbers DEF Sound, Ordered
<1>2. QED
  BY <1>1, SubSeqAfter DEF Readable, readableBytes

LEMMA RetrieveProperties ==
  ASSUME NEW b, Sound(b), NEW len \in Nat
  PROVE  /\ Sound(retrieve(b, len))
         /\ Readable(retrieve(b, len)) = SubSeq(Readable(b), len + 1, Len(Readable(b)))
<1> DEFINE c == retrieve(b, len)
<1>1. /\ Len(b.buffer_) \in Nat /\ b.buffer_ \in Seq(Byte)
      /\ b.readerIndex_ \in Nat /\ b.writerIndex_ \in Nat
      /\ b.writerIndex_ <= Len(b.buffer_) /\ b.readerIndex_ <= b.writerIndex_
      /\ kCheapPrepend <= b.readerIndex_ /\ kCheapPrepend \in Nat
  BY SoundNumbers DEF Sound, Ordered
<1>2. /\ Readable(b) \in Seq(Byte)
      /\ Len(Readable(b)) = b.writerIndex_ - b.readerIndex_
      /\ \A i \in 1..(b.writerIndex_ - b.readerIndex_) :
           Readable(b)[i] = b.buffer_[b.readerIndex_ + i]
  BY ReadableProperties DEF readableBytes
<1>3. CASE len < b.writerIndex_ - b.readerIndex_
  <2>1. c = [b EXCEPT !.readerIndex_ = @ + len]
    BY <1>3 DEF retrieve, readableBytes
  <2>2. /\ c.buffer_ = b.buffer_ /\ c.writerIndex_ = b.writerIndex_
        /\ c.readerIndex_ = b.readerIndex_ + len /\ c \in BufferType
    BY <1>1, <2>1 DEF Sound, Ordered, BufferType
  <2>3. Sound(c)
    BY <1>1, <1>3, <2>2 DEF Sound, Ordered, Overrun
  <2>4. /\ Readable(c) \in Seq(Byte)
        /\ Len(Readable(c)) = b.writerIndex_ - (b.readerIndex_ + len)
        /\ \A i \in 1..(b.writerIndex_ - (b.readerIndex_ + len)) :
             Readable(c)[i] = b.buffer_[b.readerIndex_ + len + i]
    BY <2>2, <2>3, ReadableProperties DEF readableBytes
  <2>5. /\ SubSeq(Readable(b), len + 1, Len(Readable(b))) \in Seq(Byte)
        /\ Len(SubSeq(Readable(b), len + 1, Len(Readable(b)))) = Len(Readable(b)) - len
        /\ \A i \in 1..(Len(Readable(b)) - len) :
             SubSeq(Readable(b), len + 1, Len(Readable(b)))[i] = Readable(b)[len + i]
    <3>1. /\ Readable(b) \in Seq(Byte) /\ Len(Readable(b)) \in Nat
          /\ len <= Len(Readable(b)) /\ Len(Readable(b)) <= Len(Readable(b))
      BY <1>1, <1>2, <1>3
    <3> DEFINE q == Readable(b)
    <3> HIDE DEF q
    <3>2. q \in Seq(Byte) /\ Len(q) \in Nat /\ len <= Len(q) /\ Len(q) <= Len(q)
      BY <3>1 DEF q
    <3>3. /\ SubSeq(q, len + 1, Len(q)) \in Seq(Byte)
          /\ Len(SubSeq(q, len + 1, Len(q))) = Len(q) - len
          /\ \A i \in 1..(Len(q) - len) : SubSeq(q, len + 1, Len(q))[i] = q[len + i]
      BY <3>2, SubSeqAfter
    <3>4. QED
      BY <3>3 DEF q
  <2>6. Len(Readable(c)) = Len(Readable(b)) - len
    BY <1>1, <1>2, <2>4
  <2>7. ASSUME NEW i \in 1..Len(Readable(c))
        PROVE  Readable(c)[i] = SubSeq(Readable(b), len + 1, Len(Readable(b)))[i]
    <3>1. len + i \in 1..(b.writerIndex_ - b.readerIndex_)
      BY <1>1, <1>2, <1>3, <2>4
    <3>2. Readable(b)[len + i] = b.buffer_[b.readerIndex_ + (len + i)]
      BY <1>2, <3>1
    <3>3. Readable(c)[i] = b.buffer_[b.readerIndex_ + len + i]
      BY <1>1, <2>4
    <3>4. b.readerIndex_ + len + i = b.readerIndex_ + (len + i)
      BY <1>1, <3>1
    <3>5. QED
      BY <2>5, <2>6, <3>2, <3>3, <3>4
  <2>8. QED
    BY <2>3, <2>4, <2>5, <2>6, <2>7, SeqEqual
<1>4. CASE ~(len < b.writerIndex_ - b.readerIndex_)
  <2>1. c = [b EXCEPT !.readerIndex_ = kCheapPrepend, !.writerIndex_ = kCheapPrepend]
    BY <1>4 DEF retrieve, retrieveAll, readableBytes
  <2>2. /\ c.buffer_ = b.buffer_ /\ c.writerIndex_ = kCheapPrepend
        /\ c.readerIndex_ = kCheapPrepend /\ c \in BufferType
    BY <1>1, <2>1 DEF Sound, Ordered, BufferType
  <2>3. Sound(c)
    BY <1>1, <2>2 DEF Sound, Ordered, Overrun
  <2>4. Readable(c) = <<>>
    BY <1>1, <2>2, SubSeqEmpty DEF Readable
  <2>5. SubSeq(Readable(b), len + 1, Len(Readable(b))) = <<>>
    BY <1>1, <1>2, <1>4, SubSeqEmpty
  <2>6. QED
    BY <2>3, <2>4, <2>5
<1>5. QED
  BY <1>3, <1>4

(* A buffer by its three members. *)
LEMMA Members ==
  ASSUME NEW c \in BufferType, NEW x, NEW r, NEW w,
         c.buffer_ = x, c.readerIndex_ = r, c.writerIndex_ = w,
         kCheapPrepend <= r, r <= w, w <= Len(x)
  PROVE  /\ Sound(c)
         /\ Readable(c) \in Seq(Byte)
         /\ Len(Readable(c)) = w - r
         /\ \A i \in 1..(w - r) : Readable(c)[i] = x[r + i]
<1>1. x \in Seq(Byte) /\ r \in Nat /\ w \in Nat /\ Len(x) \in Nat
  BY LenProperties DEF BufferType
<1>2. Sound(c)
  BY <1>1 DEF Sound, Ordered, Overrun
<1>3. readableBytes(c) = w - r
  BY DEF readableBytes
<1>4. QED
  BY <1>2, <1>3, ReadableProperties

(* Making space keeps what is readable.  It makes room for len bytes only   *)
(* if the reserved front is counted as room.                                *)
LEMMA MakeSpaceProperties ==
  ASSUME NEW b, Sound(b), NEW len \in Nat
  PROVE  /\ Sound(makeSpace(b, len))
         /\ Readable(makeSpace(b, len)) = Readable(b)
         /\ makeSpace(b, len).writerIndex_ + len
              <= Len(makeSpace(b, len).buffer_) + kCheapPrepend
<1> DEFINE c == makeSpace(b, len)
           x == b.buffer_
           r == b.readerIndex_
           w == b.writerIndex_
           s == Readable(b)
<1>1. /\ Len(x) \in Nat /\ x \in Seq(Byte)
      /\ r \in Nat /\ w \in Nat /\ w <= Len(x) /\ r <= w
      /\ kCheapPrepend <= r /\ kCheapPrepend \in Nat
  BY SoundNumbers DEF Sound, Ordered
<1>2. /\ s \in Seq(Byte) /\ Len(s) = w - r
      /\ \A i \in 1..(w - r) : s[i] = x[r + i]
  BY ReadableProperties DEF readableBytes
<1>3. b \in BufferType
  BY DEF Sound, Ordered
<1>4. CASE Len(x) - w + r < len
  <2> DEFINE y == Resize(x, w + len)
  <2>1. c = [b EXCEPT !.buffer_ = y]
    BY <1>4 DEF makeSpace, writerBytes, prependableBytes
  <2>2. w + len \in Nat
    BY <1>1
  <2>3. /\ y \in Seq(Byte) /\ Len(y) = w + len
        /\ \A k \in 1..(w + len) : y[k] = IF k <= Len(x) THEN x[k] ELSE 0
    BY <1>1, <2>2, ResizeProperties
  <2> HIDE DEF c, y
  <2>4. /\ c \in BufferType
        /\ c.buffer_ = y /\ c.readerIndex_ = r /\ c.writerIndex_ = w
    BY <1>3, <2>1, <2>3 DEF BufferType
  <2> HIDE DEF x, r, w, s
  <2>5. w <= Len(y)
    BY <1>1, <2>3
  <2>6. /\ Sound(c) /\ Readable(c) \in Seq(Byte) /\ Len(Readable(c)) = w - r
        /\ \A i \in 1..(w - r) : Readable(c)[i] = y[r + i]
    BY <1>1, <2>4, <2>5, Members
  <2>7. ASSUME NEW i \in 1..(w - r)
        PROVE  Readable(c)[i] = s[i]
    <3>1. r + i \in 1..(w + len) /\ r + i <= Len(x)
      BY <1>1
    <3>2. QED
      BY <1>2, <2>3, <2>6, <3>1
  <2>8. Readable(c) = s
    BY <1>2, <2>6, <2>7, SeqEqual
  <2>9. c.writerIndex_ + len <= Len(c.buffer_) + kCheapPrepend
    BY <1>1, <2>3, <2>4
  <2>10. QED
    BY <2>6, <2>8, <2>9 DEF c, s
<1>5. CASE ~(Len(x) - w + r < len)
  <2> DEFINE y == Write(x, kCheapPrepend, s)
             v == kCheapPrepend + (w - r)
  <2>1. c = [b EXCEPT !.buffer_ = y, !.readerIndex_ = kCheapPrepend, !.writerIndex_ = v]
    BY <1>5 DEF makeSpace, writerBytes, prependableBytes, readableBytes
  <2>2. /\ y \in Seq(Byte) /\ Len(y) = Len(x)
        /\ \A k \in 1..Len(x) :
             y[k] = IF k > kCheapPrepend /\ k <= kCheapPrepend + Len(s)
                      THEN s[k - kCheapPrepend] ELSE x[k]
    BY <1>1, <1>2, WriteProperties
  <2>3. v \in Nat /\ v <= Len(x) /\ v - kCheapPrepend = w - r /\ kCheapPrepend <= v
    BY <1>1
  <2> HIDE DEF c, y, v
  <2>4. /\ c \in BufferType
        /\ c.buffer_ = y /\ c.readerIndex_ = kCheapPrepend /\ c.writerIndex_ = v
    BY <1>1, <1>3, <2>1, <2>2, <2>3 DEF BufferType
  <2> HIDE DEF x, r, w, s
  <2>5. /\ Sound(c) /\ Readable(c) \in Seq(Byte) /\ Len(Readable(c)) = v - kCheapPrepend
        /\ \A i \in 1..(v - kCheapPrepend) : Readable(c)[i] = y[kCheapPrepend + i]
    <3>1. kCheapPrepend <= kCheapPrepend /\ kCheapPrepend <= v /\ v <= Len(y)
      BY <1>1, <2>2, <2>3
    <3>2. QED
      BY <2>4, <3>1, Members
  <2>6. ASSUME NEW i \in 1..(w - r)
        PROVE  Readable(c)[i] = s[i]
    <3> DEFINE j == kCheapPrepend + i
    <3>1. /\ j \in 1..Len(x) /\ j > kCheapPrepend /\ j <= kCheapPrepend + Len(s)
          /\ j - kCheapPrepend = i
      BY <1>1, <1>2
    <3>2. i \in 1..(v - kCheapPrepend)
      BY <2>3
    <3>3. Readable(c)[i] = y[j]
      BY <2>5, <3>2
    <3> HIDE DEF j
    <3>4. y[j] = s[j - kCheapPrepend]
      BY <2>2, <3>1
    <3>5. QED
      BY <3>1, <3>3, <3>4
  <2>7. Readable(c) = s
    BY <1>2, <2>3, <2>5, <2>6, SeqEqual
  <2>8. v + len <= Len(y) + kCheapPrepend
    BY <1>1, <1>5, <2>2 DEF v
  <2>9. QED
    BY <2>4, <2>5, <2>7, <2>8 DEF c, s
<1>6. QED
  BY <1>4, <1>5

(* Writing s at the write index and moving the index over the first m bytes *)
(* of it, all within the vector, adds those m bytes to what is readable.    *)
Fill(b, s, m) ==
  [b EXCEPT !.buffer_ = Write(@, b.writerIndex_, s), !.writerIndex_ = @ + m]

LEMMA FillProperties ==
  ASSUME NEW b, Sound(b), NEW s \in Seq(Byte), NEW m \in Nat, m <= Len(s),
         b.writerIndex_ + m <= Len(b.buffer_)
  PROVE  /\ Sound(Fill(b, s, m))
         /\ Readable(Fill(b, s, m)) = Readable(b) \o SubSeq(s, 1, m)
         /\ Len(Fill(b, s, m).buffer_) = Len(b.buffer_)
<1> DEFINE c == Fill(b, s, m)
           x == b.buffer_
           r == b.readerIndex_
           w == b.writerIndex_
           q == Readable(b)
           y == Write(x, w, s)
           t == SubSeq(s, 1, m)
<1>1. /\ Len(x) \in Nat /\ x \in Seq(Byte)
      /\ r \in Nat /\ w \in Nat /\ r <= w /\ w + m <= Len(x)
      /\ kCheapPrepend <= r /\ kCheapPrepend \in Nat /\ Len(s) \in Nat
  BY SoundNumbers, LenProperties DEF Sound, Ordered
<1>2. /\ q \in Seq(Byte) /\ Len(q) = w - r
      /\ \A i \in 1..(w - r) : q[i] = x[r + i]
  BY ReadableProperties DEF readableBytes
<1>3. /\ y \in Seq(Byte) /\ Len(y) = Len(x)
      /\ \A k \in 1..Len(x) :
           y[k] = IF k > w /\ k <= w + Len(s) THEN s[k - w] ELSE x[k]
  BY <1>1, WriteProperties
<1>4. /\ t \in Seq(Byte) /\ Len(t) = m
      /\ \A i \in 1..m : t[i] = s[i]
  BY SubSeqFirst
<1> HIDE DEF y, t
<1>5. /\ c \in BufferType
      /\ c.buffer_ = y /\ c.readerIndex_ = r /\ c.writerIndex_ = w + m
  <2>1. b \in BufferType /\ c = [b EXCEPT !.buffer_ = y, !.writerIndex_ = w + m]
    BY DEF Sound, Ordered, y, Fill
  <2>2. w + m \in Nat
    BY <1>1
  <2>3. QED
    BY <1>3, <2>1, <2>2 DEF BufferType
<1> HIDE DEF c, x, r, w, q
<1>6. /\ Sound(c) /\ Readable(c) \in Seq(Byte) /\ Len(Readable(c)) = (w + m) - r
      /\ \A i \in 1..((w + m) - r) : Readable(c)[i] = y[r + i]
  <2>1. kCheapPrepend <= r /\ r <= w + m /\ w + m <= Len(y)
    BY <1>1, <1>3
  <2>2. QED
    BY <1>5, <2>1, Members
<1>7. /\ q \o t \in Seq(Byte) /\ Len(q \o t) = (w - r) + m
      /\ \A i \in 1..((w - r) + m) :
           (q \o t)[i] = IF i <= w - r THEN q[i] ELSE t[i - (w - r)]
  <2>1. /\ q \o t \in Seq(Byte) /\ Len(q \o t) = Len(q) + Len(t)
        /\ \A i \in 1..(Len(q) + Len(t)) :
             (q \o t)[i] = IF i <= Len(q) THEN q[i] ELSE t[i - Len(q)]
    <3>1. q \in Seq(Byte) /\ t \in Seq(Byte)
      BY <1>2, <1>4
    <3>2. /\ q \o t \in Seq(Byte)
          /\ Len(q \o t) = Len(q) + Len(t)
      BY <3>1, ConcatProperties
    <3>3. \A i \in 1..(Len(q) + Len(t)) :
            (q \o t)[i] = IF i <= Len(q) THEN q[i] ELSE t[i - Len(q)]
      BY <3>1, ConcatProperties
    <3>4. QED
      BY <3>2, <3>3
  <2>2. Len(q) = w - r /\ Len(t) = m
    BY <1>2, <1>4
  <2>3. QED
    BY <2>1, <2>2
<1>8. (w + m) - r = (w - r) + m
  BY <1>1
<1>9. ASSUME NEW i \in 1..((w - r) + m)
      PROVE  Readable(c)[i] = (q \o t)[i]
  <2>1. r + i \in 1..Len(x) /\ Readable(c)[i] = y[r + i]
    BY <1>1, <1>6, <1>8
  <2>2. CASE i <= w - r
    <3>1. i \in 1..(w - r) /\ ~(r + i > w)
      BY <1>1, <2>2
    <3>2. y[r + i] = x[r + i]
      BY <1>3, <2>1, <3>1
    <3>3. QED
      BY <1>2, <1>7, <2>1, <2>2, <3>1, <3>2
  <2>3. CASE ~(i <= w - r)
    <3>1. /\ r + i > w /\ r + i <= w + Len(s)
          /\ i - (w - r) \in 1..m /\ (r + i) - w = i - (w - r)
      BY <1>1, <2>3
    <3>2. y[r + i] = s[i - (w - r)]
      BY <1>3, <2>1, <3>1
    <3>3. QED
      BY <1>4, <1>7, <2>1, <2>3, <3>1, <3>2
  <2>4. QED
    BY <2>2, <2>3
<1>10. Readable(c) = q \o t
  BY <1>6, <1>7, <1>8, <1>9, SeqEqual
<1>11. QED
  BY <1>3, <1>5, <1>6, <1>10 DEF c, q, t, x

(* An append leaves the indices in order, passes the end of the vector by   *)
(* at most the reserved front, and when it does not pass it adds its bytes  *)
(* behind those that are readable.                                          *)
LEMMA AppendedProperties ==
  ASSUME NEW b, Sound(b), NEW s \in Seq(Byte)
  PROVE  /\ Ordered(append(b, s))
         /\ append(b, s).writerIndex_ <= Len(append(b, s).buffer_) + kCheapPrepend
         /\ ~Overrun(append(b, s)) => Readable(append(b, s)) = Readable(b) \o s
<1> DEFINE n == Len(s)
           e == ensureWriteableBytes(b, n)
           c == append(b, s)
<1>1. n \in Nat /\ kCheapPrepend \in Nat
  BY LenProperties, SizesAssumption
<1>2. /\ Sound(e) /\ Readable(e) = Readable(b)
      /\ e.writerIndex_ + n <= Len(e.buffer_) + kCheapPrepend
  <2>1. CASE writerBytes(b) < n
    BY <1>1, <2>1, MakeSpaceProperties DEF ensureWriteableBytes
  <2>2. CASE ~(writerBytes(b) < n)
    <3>1. e = b
      BY <2>2 DEF ensureWriteableBytes
    <3>2. b.writerIndex_ + n <= Len(b.buffer_) + kCheapPrepend
      BY <1>1, <2>2, SoundNumbers DEF writerBytes
    <3>3. QED
      BY <3>1, <3>2
  <2>3. QED
    BY <2>1, <2>2
<1>3. c = Fill(e, s, n)
  BY DEF append, Fill
<1> HIDE DEF e
<1>4. /\ Len(e.buffer_) \in Nat /\ e.buffer_ \in Seq(Byte)
      /\ e.readerIndex_ \in Nat /\ e.writerIndex_ \in Nat
      /\ e.readerIndex_ <= e.writerIndex_ /\ kCheapPrepend <= e.readerIndex_
      /\ e \in BufferType
  BY <1>2, SoundNumbers DEF Sound, Ordered
<1>5. /\ Write(e.buffer_, e.writerIndex_, s) \in Seq(Byte)
      /\ Len(Write(e.buffer_, e.writerIndex_, s)) = Len(e.buffer_)
  BY <1>4, WriteProperties
<1>6. /\ c \in BufferType /\ Len(c.buffer_) = Len(e.buffer_)
      /\ c.readerIndex_ = e.readerIndex_ /\ c.writerIndex_ = e.writerIndex_ + n
  <2>1. e.writerIndex_ + n \in Nat
    BY <1>1, <1>4
  <2>2. QED
    BY <1>3, <1>4, <1>5, <2>1 DEF Fill, BufferType
<1> HIDE DEF c, n
<1>7. Ordered(c)
  BY <1>1, <1>4, <1>6 DEF Ordered
<1>8. c.writerIndex_ <= Len(c.buffer_) + kCheapPrepend
  BY <1>2, <1>6
<1>9. ASSUME ~Overrun(c)
      PROVE  Readable(c) = Readable(b) \o s
  <2>1. e.writerIndex_ + n <= Len(e.buffer_)
    BY <1>1, <1>4, <1>6, <1>9 DEF Overrun
  <2>2. n <= Len(s) /\ n = Len(s)
    BY <1>1 DEF n
  <2>3. Readable(Fill(e, s, n)) = Readable(e) \o SubSeq(s, 1, n)
    BY <1>1, <1>2, <2>1, <2>2, FillProperties
  <2>4. QED
    BY <1>2, <1>3, <2>2, <2>3, WholeSeq
<1>10. QED
  BY <1>7, <1>8, <1>9 DEF c

(* So does a read, whether or not part of it came through extrabuf. *)
LEMMA ReadProperties ==
  ASSUME NEW b, Sound(b), NEW s \in Seq(Byte)
  PROVE  /\ Ordered(readFd(b, s))
         /\ readFd(b, s).writerIndex_ <= Len(readFd(b, s).buffer_) + kCheapPrepend
         /\ ~Overrun(readFd(b, s)) => Readable(readFd(b, s)) = Readable(b) \o s
<1> DEFINE n == Len(s)
           m == writerBytes(b)
           c == readFd(b, s)
<1>1. /\ n \in Nat /\ kCheapPrepend \in Nat /\ m \in Nat
      /\ b.writerIndex_ \in Nat /\ Len(b.buffer_) \in Nat
      /\ b.writerIndex_ + m = Len(b.buffer_)
  BY LenProperties, SoundNumbers DEF writerBytes
<1>2. CASE n <= m
  <2>1. c = Fill(b, s, n)
    BY <1>2 DEF readFd, Fill
  <2>2. b.writerIndex_ + n <= Len(b.buffer_) /\ n <= Len(s)
    BY <1>1, <1>2
  <2>3. /\ Sound(c) /\ Readable(c) = Readable(b) \o SubSeq(s, 1, n)
    BY <1>1, <2>1, <2>2, FillProperties
  <2>4. Readable(c) = Readable(b) \o s
    BY <2>3, WholeSeq
  <2> HIDE DEF c
  <2>5. c.writerIndex_ <= Len(c.buffer_) + kCheapPrepend
    BY <1>1, <2>3, SoundNumbers
  <2>6. QED
    BY <2>3, <2>4, <2>5 DEF Sound, c
<1>3. CASE ~(n <= m)
  <2> DEFINE f == Fill(b, s, m)
             front == SubSeq(s, 1, m)
             rest == SubSeq(s, m + 1, n)
  <2>1. m <= Len(s) /\ b.writerIndex_ + m <= Len(b.buffer_) /\ n <= Len(s)
    BY <1>1, <1>3
  <2>2. Sound(f) /\ Readable(f) = Readable(b) \o front
    BY <1>1, <2>1, FillProperties
  <2>3. c = append(f, rest)
    BY <1>1, <1>3 DEF readFd, Fill
  <2>4. front \in Seq(Byte) /\ rest \in Seq(Byte) /\ front \o rest = s
    <3>1. /\ rest \in Seq(Byte) /\ Len(rest) = n - m
          /\ \A i \in 1..(n - m) : rest[i] = s[m + i]
      BY <1>1, <2>1, SubSeqAfter
    <3>2. /\ front \in Seq(Byte) /\ Len(front) = m /\ \A i \in 1..m : front[i] = s[i]
      BY <1>1, <2>1, SubSeqFirst
    <3> HIDE DEF front, rest
    <3>3. /\ front \o rest \in Seq(Byte) /\ Len(front \o rest) = Len(front) + Len(rest)
          /\ \A i \in 1..(Len(front) + Len(rest)) :
               (front \o rest)[i] = IF i <= Len(front) THEN front[i] ELSE rest[i - Len(front)]
      BY <3>1, <3>2, ConcatProperties
    <3>4. Len(front) + Len(rest) = Len(s)
      BY <1>1, <2>1, <3>1, <3>2
    <3>5. ASSUME NEW i \in 1..Len(s)
          PROVE  (front \o rest)[i] = s[i]
      <4>1. CASE i <= m
        BY <1>1, <3>2, <3>3, <3>4, <4>1
      <4>2. CASE ~(i <= m)
        <5>1. i - m \in 1..(n - m) /\ m + (i - m) = i
          BY <1>1, <4>2
        <5>2. rest[i - m] = s[i]
          BY <3>1, <5>1
        <5>3. QED
          BY <3>2, <3>3, <3>4, <4>2, <5>2
      <4>3. QED
        BY <4>1, <4>2
    <3>6. QED
      BY <3>1, <3>2, <3>3, <3>4, <3>5, SeqEqual
  <2> HIDE DEF c, f, front, rest
  <2>5. /\ Ordered(c) /\ c.writerIndex_ <= Len(c.buffer_) + kCheapPrepend
        /\ ~Overrun(c) => Readable(c) = Readable(f) \o rest
    BY <2>2, <2>3, <2>4, AppendedProperties
  <2>6. (Readable(b) \o front) \o rest = Readable(b) \o s
    <3>1. Readable(b) \in Seq(Byte)
      BY ReadableProperties
    <3>2. front \in Seq(Byte) /\ rest \in Seq(Byte)
      BY <2>4
    <3>3. (Readable(b) \o front) \o rest = Readable(b) \o (front \o rest)
      BY <3>1, <3>2, ConcatAssociative
    <3>4. QED
      BY <2>4, <3>3
  <2>7. QED
    BY <2>2, <2>5, <2>6 DEF c
<1>4. QED
  BY <1>2, <1>3

-----------------------------------------------------------------------------
(* The theorems.                                                            *)

Inv == TypeOK /\ OverrunBounded

LEMMA FreshProperties ==
  ASSUME taken \in 0..MaxBytes, NEW n \in 1..(MaxBytes - taken)
  PROVE  Fresh(n) \in Seq(Byte) /\ Len(Fresh(n)) = n /\ taken + n \in 0..MaxBytes
<1>1. n \in Nat /\ taken + n \in 0..MaxBytes
  BY SizesAssumption
<1>2. \A i \in 1..n : taken + i \in Byte
  BY SizesAssumption DEF Byte
<1>3. Fresh(n) \in [1..n -> Byte]
  BY <1>2 DEF Fresh
<1>4. QED
  BY <1>1, <1>3, FunctionIsSeq

LEMMA EmptyBufferSound == Sound(EmptyBuffer) /\ Readable(EmptyBuffer) = <<>>
<1> DEFINE zeros == [k \in 1..(kCheapPrepend + kInitialSize) |-> 0]
<1>1. kCheapPrepend \in Nat /\ kInitialSize \in Nat /\ 0 \in Byte
  BY SizesAssumption DEF Byte
<1>2. zeros \in Seq(Byte) /\ Len(zeros) = kCheapPrepend + kInitialSize
  <2>1. zeros \in [1..(kCheapPrepend + kInitialSize) -> Byte]
    BY <1>1
  <2>2. QED
    BY <1>1, <2>1, FunctionIsSeq
<1> HIDE DEF zeros
<1>3. EmptyBuffer = [buffer_ |-> zeros, readerIndex_ |-> kCheapPrepend,
                     writerIndex_ |-> kCheapPrepend]
  BY DEF EmptyBuffer, zeros
<1>4. Sound(EmptyBuffer)
  BY <1>1, <1>2, <1>3 DEF Sound, Ordered, Overrun, BufferType
<1>5. Readable(EmptyBuffer) = <<>>
  BY <1>1, <1>3, SubSeqEmpty DEF Readable
<1>6. QED
  BY <1>4, <1>5

LEMMA InitInv == Init => Inv
<1> SUFFICES ASSUME Init PROVE Inv
  OBVIOUS
<1>1. Sound(buf)
  BY EmptyBufferSound DEF Init
<1>2. taken \in 0..MaxBytes /\ out \in Seq(Byte)
  BY SizesAssumption, EmptySeq DEF Init
<1>3. OverrunBounded
  BY <1>1, SoundNumbers DEF OverrunBounded
<1>4. QED
  BY <1>1, <1>2, <1>3 DEF Inv, TypeOK, Sound, Ordered

LEMMA InvSound ==
  ASSUME Inv, ~Overrun(buf)
  PROVE  Sound(buf) /\ Readable(buf) \in Seq(Byte) /\ taken \in 0..MaxBytes
<1>1. Sound(buf)
  BY DEF Inv, TypeOK, Sound, Ordered
<1>2. QED
  BY <1>1, ReadableProperties DEF Inv, TypeOK

LEMMA NextInv == Inv /\ [Next]_vars => Inv'
<1> SUFFICES ASSUME Inv, [Next]_vars PROVE Inv'
  OBVIOUS
<1>1. CASE UNCHANGED vars
  BY <1>1 DEF Inv, TypeOK, OverrunBounded, vars
<1>2. CASE Next
  <2>1. Sound(buf) /\ Readable(buf) \in Seq(Byte) /\ taken \in 0..MaxBytes
    BY <1>2, InvSound DEF Next
  <2>2. ASSUME NEW n \in 1..(MaxBytes - taken), AppendBytes(n) \/ ReadFd(n)
        PROVE  Inv'
    <3>1. Fresh(n) \in Seq(Byte) /\ taken + n \in 0..MaxBytes
      BY <2>1, FreshProperties
    <3>2. /\ Ordered(buf)'
          /\ buf'.writerIndex_ <= Len(buf'.buffer_) + kCheapPrepend
      <4>1. CASE AppendBytes(n)
        BY <2>1, <3>1, <4>1, AppendedProperties DEF AppendBytes
      <4>2. CASE ReadFd(n)
        BY <2>1, <3>1, <4>2, ReadProperties DEF ReadFd
      <4>3. QED
        BY <2>2, <4>1, <4>2
    <3>3. taken' \in 0..MaxBytes /\ out' = out
      BY <2>2, <3>1 DEF AppendBytes, ReadFd
    <3>4. QED
      BY <3>2, <3>3 DEF Inv, TypeOK, OverrunBounded, Ordered
  <2>3. ASSUME NEW n \in 0..MaxBytes, WriteFd(n) \/ Retrieve(n) \/ RetriveAsString(n)
        PROVE  Inv'
    <3>1. n \in Nat /\ taken' = taken
      BY <2>3, SizesAssumption DEF WriteFd, Retrieve, RetriveAsString
    <3>2. Sound(buf)'
      <4>1. buf' = buf \/ buf' = retrieve(buf, n)
        BY <2>3 DEF WriteFd, Retrieve, RetriveAsString
      <4>2. QED
        BY <2>1, <3>1, <4>1, RetrieveProperties
    <3>3. out' \in Seq(Byte)
      <4>1. CASE out' = out
        BY <4>1 DEF Inv, TypeOK
      <4>2. CASE out' = SubSeq(Readable(buf), 1, n) /\ n <= readableBytes(buf)
        BY <2>1, <3>1, <4>2, ReadableProperties, SubSeqFirst
      <4>3. QED
        BY <2>3, <4>1, <4>2 DEF WriteFd, Retrieve, RetriveAsString
    <3>4. OverrunBounded'
      BY <3>2, SoundNumbers DEF OverrunBounded
    <3>5. QED
      BY <2>1, <3>1, <3>2, <3>3, <3>4 DEF Inv, TypeOK, Sound, Ordered
  <2>4. QED
    BY <1>2, <2>2, <2>3 DEF Next
<1>3. QED
  BY <1>1, <1>2

(* For any sizes, the indices keep their types and their order              *)
(* (Buffer.h:43-58 and 109-124, Buffer.cc:10-41).                           *)
THEOREM TypeCorrect == Spec => []TypeOK
<1>1. Inv => TypeOK
  BY DEF Inv
<1>2. QED
  BY <1>1, InitInv, NextInv, PTL DEF Spec

(* For any sizes, what an append may write past the end of the vector is at *)
(* most as long as the reserved front (Buffer.h:111).                       *)
THEOREM OverrunIsBounded == Spec => []OverrunBounded
<1>1. Inv => OverrunBounded
  BY DEF Inv
<1>2. QED
  BY <1>1, InitInv, NextInv, PTL DEF Spec

LEMMA StepImplements == Inv /\ Inv' /\ [Next]_vars => [Queue!Next]_(Queue!vars)
<1> SUFFICES ASSUME Inv, Inv', [Next]_vars PROVE [Queue!Next]_(Queue!vars)
  OBVIOUS
<1>1. CASE UNCHANGED vars
  BY <1>1 DEF vars, Queue!vars
<1>2. CASE Next
  <2>1. ~Overrun(buf)
    BY <1>2 DEF Next
  <2>2. Sound(buf) /\ Readable(buf) \in Seq(Byte) /\ taken \in 0..MaxBytes
    BY <2>1, InvSound
  <2>3. ASSUME NEW n \in 1..(MaxBytes - taken), AppendBytes(n) \/ ReadFd(n)
        PROVE  Queue!Next
    <3>1. Fresh(n) \in Seq(Byte) /\ Fresh(n) = Queue!Fresh(n)
      BY <2>2, FreshProperties DEF Fresh, Queue!Fresh
    <3>2. taken' = taken + n /\ out' = out
      BY <2>3 DEF AppendBytes, ReadFd
    <3>3. CASE Overrun(buf)'
      <4>1. taken' \in taken..MaxBytes
        BY <2>2, <3>2, SizesAssumption
      <4>2. Queue!Break
        BY <3>2, <3>3, <4>1 DEF Queue!Break
      <4>3. QED
        BY <2>1, <4>2 DEF Queue!Next
    <3>4. CASE ~Overrun(buf)'
      <4>1. Readable(buf)' = Readable(buf) \o Fresh(n)
        <5>1. CASE AppendBytes(n)
          BY <2>2, <3>1, <3>4, <5>1, AppendedProperties DEF AppendBytes
        <5>2. CASE ReadFd(n)
          BY <2>2, <3>1, <3>4, <5>2, ReadProperties DEF ReadFd
        <5>3. QED
          BY <2>3, <5>1, <5>2
      <4>2. Queue!Put(n)
        BY <2>1, <3>1, <3>2, <3>4, <4>1 DEF Queue!Put
      <4>3. QED
        BY <2>1, <4>2 DEF Queue!Next
    <3>5. QED
      BY <3>3, <3>4
  <2>4. ASSUME NEW n \in 0..MaxBytes, WriteFd(n) \/ Retrieve(n) \/ RetriveAsString(n)
        PROVE  [Queue!Next]_(Queue!vars)
    <3>1. n \in Nat /\ taken' = taken /\ Len(Readable(buf)) \in Nat
      BY <2>2, <2>4, SizesAssumption, LenProperties DEF WriteFd, Retrieve, RetriveAsString
    <3>2. CASE WriteFd(n)
      <4>1. n \in 0..Len(Readable(buf))
        BY <2>2, <3>1, <3>2, ReadableProperties DEF WriteFd
      <4>2. Queue!Peek(n)
        BY <2>1, <3>2 DEF WriteFd, Queue!Peek
      <4>3. QED
        BY <2>1, <4>1, <4>2 DEF Queue!Next
    <3>3. CASE buf' = retrieve(buf, n) /\ ~WriteFd(n)
      <4>1. /\ ~Overrun(buf)'
            /\ Readable(buf)' = SubSeq(Readable(buf), n + 1, Len(Readable(buf)))
        BY <2>2, <3>1, <3>3, RetrieveProperties DEF Sound
      <4>2. CASE n <= Len(Readable(buf)) /\ out' = out
        <5>1. Queue!Drop(n)
          BY <2>1, <3>1, <4>1, <4>2 DEF Queue!Drop, Queue!Without
        <5>2. n \in 0..Len(Readable(buf))
          BY <3>1, <4>2
        <5>3. QED
          BY <2>1, <5>1, <5>2 DEF Queue!Next
      <4>3. CASE ~(n <= Len(Readable(buf))) /\ out' = out
        <5>1. /\ SubSeq(Readable(buf), n + 1, Len(Readable(buf))) = <<>>
              /\ SubSeq(Readable(buf), Len(Readable(buf)) + 1, Len(Readable(buf))) = <<>>
          BY <3>1, <4>3, SubSeqEmpty
        <5>2. Queue!Drop(Len(Readable(buf)))
          BY <2>1, <3>1, <4>1, <4>3, <5>1 DEF Queue!Drop, Queue!Without
        <5>3. Len(Readable(buf)) \in 0..Len(Readable(buf))
          BY <3>1
        <5>4. QED
          BY <2>1, <5>2, <5>3 DEF Queue!Next
      <4>4. CASE RetriveAsString(n)
        <5>1. n \in 0..Len(Readable(buf))
          BY <2>2, <3>1, <4>4, ReadableProperties DEF RetriveAsString
        <5>2. Queue!Take(n)
          BY <2>1, <4>1, <4>4 DEF RetriveAsString, Queue!Take, Queue!Without
        <5>3. QED
          BY <2>1, <5>1, <5>2 DEF Queue!Next
      <4>5. out' = out \/ RetriveAsString(n)
        BY <2>4, <3>3 DEF Retrieve
      <4>6. QED
        BY <4>2, <4>3, <4>4, <4>5
    <3>4. QED
      BY <2>4, <3>2, <3>3 DEF Retrieve, RetriveAsString
  <2>5. QED
    BY <1>2, <2>3, <2>4 DEF Next
<1>3. QED
  BY <1>1, <1>2

(* For any sizes, a buffer in which no append has passed the end of the     *)
(* vector is the queue of bytes that ByteQueue describes.                   *)
THEOREM BufferIsQueue == Spec => Promise
<1>1. Init => Queue!Init
  <2>1. SUFFICES ASSUME Init PROVE Queue!Init
    OBVIOUS
  <2>2. ~Overrun(buf) /\ Readable(buf) = <<>> /\ taken = 0 /\ out = <<>>
    BY <2>1, EmptyBufferSound DEF Init, Sound
  <2>3. QED
    BY <2>2 DEF Queue!Init
<1>2. QED
  BY <1>1, InitInv, NextInv, StepImplements, PTL DEF Spec, Promise, Queue!Spec
=============================================================================

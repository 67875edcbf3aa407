------------------------ MODULE TcpConnectionProofs ------------------------
(***************************************************************************)
(* Theorems about TcpConnection.tla, for every size of the buffers and     *)
(* every bound.  The inductive invariant is Inv: its parts Fresh, Open,    *)
(* Closing, Gone, Dead, Down follow a connection from newConnection to     *)
(* connectDestroyed, Ordered and PausedHasOutput say in which order the    *)
(* functors are in the queue, and Line where the bytes are.  Functors are  *)
(* only ever taken at the queue's one end and appended at its other, which *)
(* is what Moves says of a step, and the lemmas HasOpMoves, OrderedMoves   *)
(* and ResumesMoves what follows from it for those parts.  Where runInLoop *)
(* queues, LineLater is to be added to Inv, see the end.                   *)
(***************************************************************************)
EXTENDS TcpConnection, ChannelProofs, SequenceTheorems, TLAPS

-----------------------------------------------------------------------------
(* The queue, of which the drain in progress has the first part.            *)

(* r is q without its first k functors and, unless op is "none", with a new *)
(* one at its end.                                                          *)
Moved(q, r, k, op) ==
  /\ DOMAIN q = 1..Len(q) /\ DOMAIN r = 1..Len(r) /\ Len(q) \in Nat /\ Len(r) \in Nat
  /\ k <= Len(q)
  /\ Len(r) = (Len(q) - k) + (IF op = "none" THEN 0 ELSE 1)
  /\ \A i \in 1..(Len(q) - k) : r[i] = q[i + k]
  /\ op # "none" => r[Len(r)].op = op

LEMMA AppendMoves ==
  ASSUME NEW q \in Seq(Functors), NEW f \in Functors
  PROVE  Moved(q, Append(q, f), 0, f.op)
<1>1. f.op # "none"
  BY DEF Functors, Ops
<1>2. DOMAIN q = 1..Len(q) /\ Len(q) \in Nat
      /\ DOMAIN Append(q, f) = 1..(Len(q) + 1) /\ Len(Append(q, f)) = Len(q) + 1
      /\ \A i \in 1..Len(q) : Append(q, f)[i] = q[i]
      /\ Append(q, f)[Len(q) + 1] = f
  BY AppendProperties, LenProperties
<1>3. QED
  BY <1>1, <1>2 DEF Moved

LEMMA TailMoves ==
  ASSUME NEW q \in Seq(Functors), q # <<>>
  PROVE  Moved(q, Tail(q), 1, "none")
<1>1. /\ DOMAIN q = 1..Len(q) /\ Len(q) \in Nat /\ Len(q) > 0
      /\ DOMAIN Tail(q) = 1..(Len(q) - 1) /\ Len(Tail(q)) = Len(q) - 1
      /\ \A i \in 1..(Len(q) - 1) : Tail(q)[i] = q[i + 1]
  BY HeadTailProperties, LenProperties, EmptySeq
<1>2. QED
  BY <1>1 DEF Moved

LEMMA TailAppendMoves ==
  ASSUME NEW q \in Seq(Functors), q # <<>>, NEW f \in Functors
  PROVE  Moved(q, Append(Tail(q), f), 1, f.op)
<1>1. /\ DOMAIN q = 1..Len(q) /\ Len(q) \in Nat /\ Len(q) > 0
      /\ Tail(q) \in Seq(Functors) /\ Len(Tail(q)) = Len(q) - 1
      /\ \A i \in 1..(Len(q) - 1) : Tail(q)[i] = q[i + 1]
  BY HeadTailProperties, LenProperties, EmptySeq
<1>2. Moved(Tail(q), Append(Tail(q), f), 0, f.op) /\ f.op # "none"
  BY <1>1, AppendMoves DEF Functors, Ops
<1>3. QED
  BY <1>1, <1>2 DEF Moved

LEMMA ConcatAppend ==
  ASSUME NEW b \in Seq(Functors), NEW p \in Seq(Functors), NEW f \in Functors
  PROVE  b \o Append(p, f) = Append(b \o p, f)
<1>1. b \o p \in Seq(Functors) /\ <<f>> \in Seq(Functors)
  BY ConcatProperties
<1>2. b \o (p \o <<f>>) = (b \o p) \o <<f>>
  BY <1>1, ConcatAssociative
<1>3. QED
  BY <1>1, <1>2, AppendIsConcat

LEMMA TailConcat ==
  ASSUME NEW b \in Seq(Functors), b # <<>>, NEW p \in Seq(Functors)
  PROVE  /\ Tail(b) \o p = Tail(b \o p) /\ b \o p # <<>> /\ b \o p \in Seq(Functors)
         /\ (b \o p)[1] = Head(b)
<1>1. /\ Len(b) \in Nat /\ Len(p) \in Nat /\ Len(b) > 0 /\ Head(b) = b[1]
      /\ Tail(b) \in Seq(Functors) /\ Len(Tail(b)) = Len(b) - 1
      /\ \A i \in 1..(Len(b) - 1) : Tail(b)[i] = b[i + 1]
  BY HeadTailProperties, EmptySeq
<1>2. /\ b \o p \in Seq(Functors) /\ Len(b \o p) = Len(b) + Len(p)
      /\ \A i \in 1..(Len(b) + Len(p)) :
           (b \o p)[i] = IF i <= Len(b) THEN b[i] ELSE p[i - Len(b)]
  BY ConcatProperties
<1>3. b \o p # <<>>
  BY <1>1, <1>2, EmptySeq
<1>4. /\ Tail(b \o p) \in Seq(Functors) /\ Len(Tail(b \o p)) = Len(b) + Len(p) - 1
      /\ \A i \in 1..(Len(b) + Len(p) - 1) : Tail(b \o p)[i] = (b \o p)[i + 1]
  BY <1>1, <1>2, <1>3, HeadTailProperties
<1>5. /\ Tail(b) \o p \in Seq(Functors) /\ Len(Tail(b) \o p) = (Len(b) - 1) + Len(p)
      /\ \A i \in 1..((Len(b) - 1) + Len(p)) :
           (Tail(b) \o p)[i] = IF i <= Len(b) - 1 THEN Tail(b)[i] ELSE p[i - (Len(b) - 1)]
  BY <1>1, ConcatProperties
<1>6. ASSUME NEW i \in 1..(Len(b) + Len(p) - 1)
      PROVE  (Tail(b) \o p)[i] = Tail(b \o p)[i]
  <2>1. Tail(b \o p)[i] = IF i + 1 <= Len(b) THEN b[i + 1] ELSE p[(i + 1) - Len(b)]
    BY <1>1, <1>2, <1>4
  <2>2. CASE i <= Len(b) - 1
    BY <1>1, <1>5, <2>1, <2>2
  <2>3. CASE i > Len(b) - 1
    <3>1. (i + 1) - Len(b) = i - (Len(b) - 1)
      BY <1>1
    <3>2. QED
      BY <1>1, <1>5, <2>1, <2>3, <3>1
  <2>4. QED
    BY <1>1, <2>2, <2>3
<1>7. Tail(b) \o p = Tail(b \o p)
  <2>1. Len(Tail(b) \o p) = Len(Tail(b \o p)) /\ Len(Tail(b) \o p) = Len(b) + Len(p) - 1
    BY <1>1, <1>4, <1>5
  <2>2. QED
    BY <1>4, <1>5, <1>6, <2>1, SeqEqual
<1>8. QED
  BY <1>1, <1>2, <1>3, <1>7

(* How a step moves the queue. *)
Moves(k, op) == Moved(Queued, Queued', k, op)

LEMMA QueueSame ==
  ASSUME TypeOK, Queued' = Queued
  PROVE  Moves(0, "none")
<1>1. Queued \in Seq(Functors)
  BY ConcatProperties DEF TypeOK, Queued
<1>2. QED
  BY <1>1, LenProperties DEF Moves, Moved

LEMMA QueueAppend ==
  ASSUME TypeOK, NEW f \in Functors, batch' = batch, pending' = Append(pending, f)
  PROVE  Moves(0, f.op)
<1>1. Queued \in Seq(Functors) /\ Queued' = Append(Queued, f)
  BY ConcatProperties, ConcatAppend DEF TypeOK, Queued
<1>2. QED
  BY <1>1, AppendMoves DEF Moves

LEMMA QueueTake ==
  ASSUME TypeOK, batch # <<>>, batch' = Tail(batch), pending' = pending
  PROVE  Moves(1, "none") /\ Queued[1] = Head(batch)
<1>1. Queued \in Seq(Functors) /\ Queued # <<>> /\ Queued' = Tail(Queued)
      /\ Queued[1] = Head(batch)
  BY TailConcat DEF TypeOK, Queued
<1>2. QED
  BY <1>1, TailMoves DEF Moves

LEMMA QueueTakeAppend ==
  ASSUME TypeOK, NEW f \in Functors, batch # <<>>, batch' = Tail(batch),
         pending' = Append(pending, f)
  PROVE  Moves(1, f.op) /\ Queued[1] = Head(batch)
<1>1. Tail(batch) \in Seq(Functors) /\ batch \in Seq(Functors) /\ pending \in Seq(Functors)
  BY HeadTailProperties DEF TypeOK
<1>2. Queued' = Append(Tail(batch) \o pending, f)
  BY <1>1, ConcatAppend DEF Queued
<1>3. Queued \in Seq(Functors) /\ Queued # <<>> /\ Tail(batch) \o pending = Tail(Queued)
      /\ Queued[1] = Head(batch)
  BY <1>1, TailConcat DEF Queued
<1>4. QED
  BY <1>2, <1>3, TailAppendMoves DEF Moves

-----------------------------------------------------------------------------
(* Types.                                                                   *)

LEMMA Split ==
  ASSUME NEW s \in Seq(Bytes), NEW n \in 0..Len(s)
  PROVE  /\ Len(s) \in Nat
         /\ SubSeq(s, 1, n) \in Seq(Bytes) /\ Len(SubSeq(s, 1, n)) = n
         /\ \A i \in 1..n : SubSeq(s, 1, n)[i] = s[i]
         /\ SubSeq(s, n + 1, Len(s)) \in Seq(Bytes)
         /\ Len(SubSeq(s, n + 1, Len(s))) = Len(s) - n
         /\ \A i \in 1..(Len(s) - n) : SubSeq(s, n + 1, Len(s))[i] = s[n + i]
<1>1. Len(s) \in Nat /\ n \in Nat /\ \A i \in 1..Len(s) : s[i] \in Bytes
  OBVIOUS
<1>2. \A i \in 1..n : s[i] \in Bytes
  BY <1>1
<1>3. \A i \in (n + 1)..Len(s) : s[i] \in Bytes
  BY <1>1
<1>4. /\ SubSeq(s, 1, n) \in Seq(Bytes) /\ Len(SubSeq(s, 1, n)) = n
      /\ \A i \in 1..n : SubSeq(s, 1, n)[i] = s[i]
  BY <1>1, <1>2, SubSeqProperties
<1>5. /\ SubSeq(s, n + 1, Len(s)) \in Seq(Bytes)
      /\ Len(SubSeq(s, n + 1, Len(s))) = Len(s) - n
      /\ \A i \in 1..(Len(s) - n) : SubSeq(s, n + 1, Len(s))[i] = s[n + i]
  BY <1>1, <1>3, SubSeqProperties
<1>6. QED
  BY <1>1, <1>4, <1>5

LEMMA FunctorTypes == \A op \in Ops : Functor(op) \in Functors /\ Functor(op).op = op
BY EmptySeq DEF Functor, Functors

(* What ::write leaves behind: it fails, or takes n bytes. *)
LEMMA Write ==
  ASSUME TypeOK, NEW d \in Seq(Bytes), WriteNow(d)
  PROVE  /\ sending' \in Seq(Bytes) /\ sock' \in Sockets
         /\ pending' = pending \/ pending' = Append(pending, Functor("writeComplete"))
         /\ sock'.reset = sock.reset /\ sock'.fin = sock.fin
         /\ sock.reset \/ sock.fin => sock'.wire = sock.wire
         /\ \/ sock.reset \/ sock.fin
            \/ \E n \in 0..Len(d) :
                 sock'.wire = sock.wire \o SubSeq(d, 1, n) /\ sending' = SubSeq(d, n + 1, Len(d))
<1>1. CASE sock.reset \/ sock.fin
  <2>1. /\ sending' \in {<<>>, d} /\ pending' = pending
        /\ sock' = [sock EXCEPT !.err = FALSE]
    BY <1>1 DEF WriteNow
  <2>2. /\ sock' \in Sockets /\ sock'.reset = sock.reset /\ sock'.fin = sock.fin
        /\ sock'.wire = sock.wire
    BY <2>1 DEF TypeOK, Sockets
  <2>3. QED
    BY <1>1, <2>1, <2>2, EmptySeq
<1>2. CASE ~(sock.reset \/ sock.fin)
  <2>1. PICK n : /\ n = IF Len(d) < sock.space THEN Len(d) ELSE sock.space
                 /\ sock' = [sock EXCEPT !.space = @ - n, !.wire = @ \o SubSeq(d, 1, n)]
                 /\ sending' = SubSeq(d, n + 1, Len(d))
                 /\ pending' = pending \/ pending' = Append(pending, Functor("writeComplete"))
    BY <1>2 DEF WriteNow, WriteComplete
  <2>2. Len(d) \in Nat /\ sock.space \in Nat /\ sock \in Sockets /\ SendSpace \in Nat
    BY SizesAssumption DEF TypeOK, Sockets
  <2>3. n \in 0..Len(d) /\ n <= sock.space
    BY <2>1, <2>2
  <2>4. SubSeq(d, 1, n) \in Seq(Bytes) /\ SubSeq(d, n + 1, Len(d)) \in Seq(Bytes)
    BY <2>3, Split
  <2>5. sock.space - n \in 0..SendSpace /\ sock.wire \o SubSeq(d, 1, n) \in Seq(Bytes)
    BY <2>2, <2>3, <2>4, ConcatProperties DEF Sockets
  <2>6. /\ sock' \in Sockets /\ sock'.reset = sock.reset /\ sock'.fin = sock.fin
        /\ sock'.wire = sock.wire \o SubSeq(d, 1, n)
    BY <2>1, <2>2, <2>5 DEF Sockets
  <2>7. QED
    BY <1>2, <2>1, <2>3, <2>4, <2>6
<1>3. QED
  BY <1>1, <1>2

LEMMA Begin ==
  ASSUME TypeOK, NEW d \in Seq(Bytes), BeginSend(d)
  PROVE  \/ WriteNow(d) /\ (~isWriting(channel_) \/ output = <<>>) /\ state_ # "kDisconnected"
         \/ /\ sending' = d /\ isWriting(channel_) /\ state_ # "kDisconnected"
            /\ UNCHANGED <<sock, pending>>
         \/ state_ = "kDisconnected" /\ UNCHANGED <<sending, sock, pending>>
BY DEF BeginSend

LEMMA ShutdownInLoopIs ==
  ASSUME NEW c, NEW s \in Sockets
  PROVE  /\ ShutdownInLoop(c, s) \in Sockets
         /\ ShutdownInLoop(c, s).wire = s.wire /\ ShutdownInLoop(c, s).reset = s.reset
         /\ s.fin => ShutdownInLoop(c, s).fin
BY DEF ShutdownInLoop, ShutdownWrite, Sockets

(* HandleWrite takes n bytes out of output, all of them or not. *)
LEMMA HandleWriteIs ==
  ASSUME TypeOK, HandleWrite
  PROVE  \E n \in 0..Len(output) :
           /\ output' = SubSeq(output, n + 1, Len(output)) /\ output' \in Seq(Bytes)
           /\ sock' \in Sockets /\ sock'.wire = sock.wire \o SubSeq(output, 1, n)
           /\ sock'.reset = sock.reset /\ (sock.fin => sock'.fin)
           /\ sock.reset \/ sock.fin \/ ~isWriting(channel_) => n = 0
           /\ IF n > 0 /\ n = Len(output)
                THEN /\ channel_' = disableWriting(channel_)
                     /\ pending' = Append(pending, Functor("writeComplete"))
                ELSE UNCHANGED <<channel_, pending>> /\ sock'.fin = sock.fin
<1>1. PICK n, s :
        /\ n = IF sock.reset \/ sock.fin \/ ~isWriting(channel_) THEN 0
               ELSE IF Len(output) < sock.space THEN Len(output) ELSE sock.space
        /\ s = [sock EXCEPT !.space = @ - n, !.wire = @ \o SubSeq(output, 1, n)]
        /\ output' = SubSeq(output, n + 1, Len(output))
        /\ IF n > 0 /\ n = Len(output)
             THEN /\ channel_' = disableWriting(channel_)
                  /\ pending' = Append(pending, Functor("writeComplete"))
                  /\ sock' = s \/ sock' = ShutdownInLoop(channel_', s)
             ELSE sock' = s /\ UNCHANGED <<channel_, pending>>
  BY DEF HandleWrite, WriteComplete
<1>2. /\ Len(output) \in Nat /\ sock.space \in 0..SendSpace /\ sock \in Sockets
      /\ SendSpace \in Nat /\ output \in Seq(Bytes) /\ sock.wire \in Seq(Bytes)
  BY SizesAssumption DEF TypeOK, Sockets
<1>3. n \in 0..Len(output) /\ n <= sock.space
  BY <1>1, <1>2
<1>4. SubSeq(output, 1, n) \in Seq(Bytes) /\ output' \in Seq(Bytes)
  BY <1>1, <1>2, <1>3, Split
<1>5. sock.space - n \in 0..SendSpace /\ sock.wire \o SubSeq(output, 1, n) \in Seq(Bytes)
  BY <1>2, <1>3, <1>4, ConcatProperties
<1>6. /\ s \in Sockets /\ s.wire = sock.wire \o SubSeq(output, 1, n)
      /\ s.reset = sock.reset /\ s.fin = sock.fin
  BY <1>1, <1>2, <1>5 DEF Sockets
<1>7. /\ sock' \in Sockets /\ sock'.wire = sock.wire \o SubSeq(output, 1, n)
      /\ sock'.reset = sock.reset /\ (sock.fin => sock'.fin)
      /\ (n > 0 /\ n = Len(output)) \/ sock'.fin = sock.fin
  <2>1. CASE sock' = s
    BY <1>6, <2>1
  <2>2. CASE n > 0 /\ n = Len(output) /\ sock' = ShutdownInLoop(channel_', s)
    BY <1>6, <2>2, ShutdownInLoopIs
  <2>3. QED
    BY <1>1, <2>1, <2>2
<1>8. sock.reset \/ sock.fin \/ ~isWriting(channel_) => n = 0
  BY <1>1
<1>9. QED
  BY <1>1, <1>3, <1>4, <1>7, <1>8

-----------------------------------------------------------------------------
(* The invariant.                                                           *)

HasOp(ops) == \E i \in DOMAIN Queued : Queued[i].op \in ops

BoundToThis == {"sendInLoop", "shutdownInLoop"}
Endings == {"removeConnection", "connectDestroyed"}

(* Until connectEstablished runs nothing has happened, ... *)
Fresh ==
  told.up = 0 =>
    /\ state_ = "kConnecting" /\ channel_ = NewChannel
    /\ output = <<>> /\ sending = <<>> /\ user = "none" /\ todo = {}
    /\ foreign = "idle" /\ connections_ = "holds" /\ ~destroyed
    /\ told.down = 0 /\ told.close = 0 /\ ~told.high
    /\ accepted = 0 /\ sock.wire = <<>>
    /\ Len(Queued) <= (IF inLoop THEN 0 ELSE 1)
    /\ \A i \in DOMAIN Queued : Queued[i].op = "connectEstablished"

(* ... and it runs once. *)
Started == told.up > 0 => state_ # "kConnecting" /\ ~HasOp({"connectEstablished"})

(* While it is up the channel reads. *)
Open ==
  told.up > 0 /\ told.down = 0 /\ ~destroyed =>
    channel_.index = "kAdded" /\ "in" \in channel_.events

Ordered ==
  \A i, j \in DOMAIN Queued :
    i < j /\ Queued[i].op \in Endings => Queued[j].op \notin BoundToThis

(* connectDestroyed comes after the user has heard of the end, and after    *)
(* all that is queued to run on the connection.                             *)
Closing ==
  /\ told.down > 0 \/ destroyed => state_ # "kConnected"
  /\ told.close + (IF user = "down" THEN 1 ELSE 0) <= told.down
  /\ user = "down" => ~destroyed
  /\ HasOp(Endings) => told.close > 0
  /\ HasOp({"connectDestroyed"}) => connections_ = "erased"
  /\ HasOp(BoundToThis \cup {"removeConnection"}) => ~inLoop
  /\ Ordered

(* The server's end takes the connection with it. *)
Gone ==
  /\ connections_ = "gone" => inLoop /\ (destroyed \/ user = "destroyed")
  /\ user = "destroyed" => connections_ = "gone" /\ todo = {} /\ state_ # "kConnected"

Dead ==
  destroyed =>
    /\ todo = {} /\ sending = <<>>
    /\ channel_.index = "kNew"
    /\ ~HasOp(BoundToThis)
    /\ connections_ = "gone" \/ told.close > 0

(* A connection that is down stays down, unless it is revived. *)
Down ==
  ~MayRevive /\ told.down > 0 =>
    /\ told.down = 1
    /\ channel_.events = {} /\ channel_.index # "kAdded"
    /\ todo \cap {"hup", "in"} = {}
    /\ sending = <<>>
    /\ ~inLoop => state_ = "kDisconnected"

(* No event closes a connection twice, and none but a connection that is up *)
(* gets a message.                                                          *)
Events1 ==
  /\ ~({"hup", "in"} \subseteq todo)
  /\ user = "message" => told.up = 1 /\ (~MayRevive => told.down = 0)

(* In the loop's thread, what has been sent, what is kept and what is in    *)
(* hand are together what send() took.                                      *)
Line ==
  inLoop =>
    /\ \A i \in DOMAIN sock.wire : sock.wire[i] = i
    /\ ~sock.reset /\ ~sock.fin =>
         /\ accepted = Len(sock.wire) + Len(output) + Len(sending)
         /\ \A i \in DOMAIN output : output[i] = Len(sock.wire) + i
         /\ \A i \in DOMAIN sending : sending[i] = Len(sock.wire) + Len(output) + i

Inv ==
  /\ TypeOK /\ Fresh /\ Started /\ Open /\ WriteInterest /\ Closing /\ Gone /\ Dead /\ Down
  /\ Events1 /\ PausedHasOutput /\ Line

LEMMA InitInv == Init => Inv
<1> SUFFICES ASSUME Init PROVE Inv
  OBVIOUS
<1> USE DEF Init, NewChannel
<1>1. /\ Queued = IF inLoop THEN <<>> ELSE <<Functor("connectEstablished")>>
      /\ Functor("connectEstablished") \in Functors
      /\ Functor("connectEstablished").op = "connectEstablished"
  BY FunctorTypes, EmptySeq DEF Queued, Ops
<1>2. TypeOK
  <2>1. channel_ \in ChannelStates
    BY DEF ChannelStates, Events, Indices
  <2>2. sock \in Sockets
    BY SizesAssumption, EmptySeq DEF Sockets
  <2>3. /\ pending \in Seq(Functors) /\ batch \in Seq(Functors) /\ accepted \in 0..MaxBytes
        /\ output \in Seq(Bytes) /\ sending \in Seq(Bytes)
    BY <1>1, SizesAssumption, EmptySeq
  <2>4. told \in [up : 0..1, down : Nat, close : Nat, high : BOOLEAN]
    OBVIOUS
  <2>5. QED
    BY <2>1, <2>2, <2>3, <2>4 DEF TypeOK, StateE, Callbacks
<1>3. Fresh /\ Started
  BY <1>1 DEF Fresh, Started
<1>4. Open /\ WriteInterest /\ Gone /\ Dead /\ Down /\ Events1 /\ Line
  BY DEF Open, WriteInterest, Agrees, Gone, Dead, Down, Events1, Line
<1>5. Closing /\ PausedHasOutput
  BY <1>1 DEF Closing, Ordered, HasOp, Endings, BoundToThis, PausedHasOutput
<1>6. QED
  BY <1>2, <1>3, <1>4, <1>5 DEF Inv

-----------------------------------------------------------------------------
(* Each action keeps it.                                                    *)

(* Where the queue is not changed the parts that speak of it speak of the   *)
(* other variables only.                                                    *)
LEMMA QueueStays ==
  /\ TypeOK
  /\ \/ pending' = pending /\ batch' = batch
     \/ batch = <<>> /\ batch' = pending /\ pending' = <<>>
  => Queued' = Queued
BY ConcatEmptySeq DEF TypeOK, Queued

LEMMA PollInv ==
  ASSUME Inv, Poll
  PROVE  Inv'
<1>1. /\ at = "poll" /\ at' = "event" /\ sending = <<>> /\ user = "none"
      /\ UNCHANGED <<quietVars, serverVars, connVars, batch, pending, user, sock, told>>
      /\ Queued' = Queued
  BY QueueStays DEF Inv, Poll, Idle
<1>2. /\ todo' \subseteq {"hup", "err", "in", "out"} /\ ~({"hup", "in"} \subseteq todo')
      /\ ~channel_.registered => todo' = {}
  BY DEF Poll, Revents, Events
<1>3. channel_.index # "kAdded" => todo' = {}
  BY <1>2 DEF Inv, WriteInterest, Agrees
<1> USE <1>1 DEF quietVars, serverVars, connVars
<1>4. TypeOK'
  BY <1>2 DEF Inv, TypeOK
<1>5. Fresh' /\ Started' /\ Open' /\ WriteInterest'
  BY <1>3 DEF Inv, Fresh, Started, HasOp, Open, WriteInterest, NewChannel
<1>6. Closing' /\ Gone' /\ PausedHasOutput' /\ Line'
  BY <1>3 DEF Inv, Closing, Ordered, Gone, PausedHasOutput, HasOp, Line
<1>7. Dead' /\ Down' /\ Events1'
  BY <1>2, <1>3 DEF Inv, Dead, Down, Events1, MayRevive, HasOp
<1>8. QED
  BY <1>4, <1>5, <1>6, <1>7 DEF Inv

(* handleClose, called for event e. *)
LEMMA CloseInv ==
  ASSUME Inv, NEW e \in {"hup", "in"}, NextCallback(e), HandleClose,
         UNCHANGED <<quietVars, serverVars, output, sending, at, batch, pending, sock>>
  PROVE  Inv'
<1> USE DEF quietVars, serverVars
<1>1. /\ at = "event" /\ sending = <<>> /\ user = "none" /\ e \in todo /\ todo' = todo \ {e}
      /\ Queued' = Queued
  BY QueueStays DEF Inv, NextCallback, Idle
<1>2. /\ state_' = "kDisconnected" /\ channel_' = disableAll(channel_) /\ user' = "down"
      /\ told' = [told EXCEPT !.down = @ + 1]
  BY DEF HandleClose
<1>3. told.up = 1 /\ ~destroyed /\ connections_ # "gone" /\ (~MayRevive => told.down = 0)
  <2>1. told.up \in {0, 1} /\ told.down \in Nat /\ todo # {}
    BY <1>1 DEF Inv, TypeOK
  <2>2. told.up = 1 /\ ~destroyed /\ connections_ # "gone"
    BY <2>1, <1>1 DEF Inv, Fresh, Dead, Gone
  <2>3. ~MayRevive => ~(told.down > 0)
    BY <1>1 DEF Inv, Down
  <2>4. QED
    BY <2>1, <2>2, <2>3
<1>4. /\ channel_' \in ChannelStates /\ Agrees(channel_')
      /\ channel_'.events = {} /\ (channel_.index = "kAdded" => channel_'.index = "kDeleted")
  BY <1>2, ChannelCalls DEF Inv, TypeOK, WriteInterest
<1>5. told.down \in Nat /\ told.close \in Nat /\ told' \in [up : 0..1, down : Nat, close : Nat,
        high : BOOLEAN] /\ told'.up = 1 /\ told'.down = told.down + 1
      /\ told'.close = told.close /\ told'.high = told.high
  <2>1. told \in [up : 0..1, down : Nat, close : Nat, high : BOOLEAN]
    BY DEF Inv, TypeOK
  <2>2. QED
    BY <1>2, <1>3, <2>1
<1>6. TypeOK'
  <2>1. todo' \subseteq {"hup", "err", "in", "out"} /\ (at # "event" => todo' = {})
    BY <1>1 DEF Inv, TypeOK
  <2>2. state_' \in StateE /\ user' \in Callbacks
    BY <1>2 DEF StateE, Callbacks
  <2>3. QED
    BY <1>4, <1>5, <2>1, <2>2 DEF Inv, TypeOK
<1>7. Fresh' /\ Started' /\ Open' /\ WriteInterest'
  BY <1>1, <1>2, <1>3, <1>4, <1>5 DEF Inv, Fresh, Started, HasOp, Open, WriteInterest
<1>8. Closing' /\ Gone' /\ Dead' /\ PausedHasOutput'
  BY <1>1, <1>2, <1>3, <1>5 DEF Inv, Closing, Ordered, Gone, Dead, PausedHasOutput, HasOp
<1>9. Down' /\ Events1'
  <2>1. ~MayRevive => channel_.index = "kAdded"
    BY <1>3 DEF Inv, Open
  <2>2. todo' \cap {"hup", "in"} = {}
    BY <1>1 DEF Inv, Events1
  <2>3. QED
    BY <1>1, <1>2, <1>3, <1>4, <1>5, <2>1, <2>2 DEF Inv, Down, Events1, MayRevive
<1>10. Line'
  BY DEF Inv, Line
<1>11. QED
  BY <1>6, <1>7, <1>8, <1>9, <1>10 DEF Inv

LEMMA HandleReadInv ==
  ASSUME Inv, HandleRead
  PROVE  Inv'
<1> USE DEF quietVars, serverVars
<1>1. /\ at = "event" /\ sending = <<>> /\ user = "none" /\ "in" \in todo /\ todo' = todo \ {"in"}
      /\ NextCallback("in") /\ Queued' = Queued
      /\ UNCHANGED <<quietVars, serverVars, output, sending, at, batch, pending>>
  BY QueueStays DEF Inv, NextCallback, Idle, HandleRead
<1>2. CASE ~sock.unread /\ ~sock.err
  <2>1. HandleClose /\ UNCHANGED sock
    BY <1>2 DEF HandleRead
  <2>2. QED
    BY <1>1, <2>1, CloseInv
<1>3. CASE sock.unread \/ sock.err
  <2>1. /\ UNCHANGED <<state_, channel_, told>> /\ user' \in {"none", "message"}
        /\ sock' \in Sockets /\ sock'.wire = sock.wire /\ sock'.fin = sock.fin
        /\ sock'.reset = sock.reset
    <3>1. /\ UNCHANGED <<state_, channel_, told>> /\ user' \in {user, "message"}
          /\ \/ sock' = [sock EXCEPT !.unread = FALSE]
             \/ sock' = [sock EXCEPT !.err = FALSE]
      BY <1>3 DEF HandleRead
    <3>2. sock \in Sockets
      BY DEF Inv, TypeOK
    <3>3. QED
      BY <1>1, <3>1, <3>2 DEF Sockets
  <2>2. told.up = 1 /\ ~destroyed /\ connections_ # "gone" /\ (~MayRevive => told.down = 0)
    BY <1>1 DEF Inv, TypeOK, Fresh, Dead, Gone, Down
  <2>3. TypeOK'
    BY <1>1, <2>1 DEF Inv, TypeOK, Callbacks
  <2>4. Fresh' /\ Started' /\ Open' /\ WriteInterest'
    BY <1>1, <2>1, <2>2 DEF Inv, Fresh, Started, HasOp, Open, WriteInterest
  <2>5. Closing' /\ Gone' /\ Dead' /\ PausedHasOutput'
    BY <1>1, <2>1, <2>2 DEF Inv, Closing, Ordered, Gone, Dead, PausedHasOutput, HasOp
  <2>6. Down' /\ Events1'
    BY <1>1, <2>1, <2>2 DEF Inv, Down, Events1, MayRevive
  <2>7. Line'
    BY <1>1, <2>1 DEF Inv, Line
  <2>8. QED
    BY <2>3, <2>4, <2>5, <2>6, <2>7 DEF Inv
<1>4. QED
  BY <1>2, <1>3

(* What concerns the socket only, or where other threads or the loop are. *)
LEMMA SocketInv ==
  ASSUME Inv, sock' \in Sockets, sock'.wire = sock.wire,
         sock.fin => sock'.fin, sock.reset => sock'.reset,
         at' \in {"poll", "event", "functors"}, todo' \subseteq todo,
         at' # "event" => todo' = {}, at' # "functors" => batch' = <<>>,
         batch' \in Seq(Functors), pending' \in Seq(Functors), Queued' = Queued,
         UNCHANGED <<quietVars, serverVars, connVars, user, told>>
  PROVE  Inv'
<1> USE DEF quietVars, serverVars, connVars
<1>1. TypeOK'
  BY DEF Inv, TypeOK
<1>2. Fresh' /\ Started' /\ Open' /\ WriteInterest'
  BY DEF Inv, Fresh, Started, HasOp, Open, WriteInterest
<1>3. Closing' /\ Gone' /\ Dead' /\ PausedHasOutput'
  BY DEF Inv, Closing, Ordered, Gone, Dead, PausedHasOutput, HasOp
<1>4. Down' /\ Events1'
  BY DEF Inv, Down, Events1, MayRevive
<1>5. Line'
  BY DEF Inv, Line, TypeOK, Sockets
<1>6. QED
  BY <1>1, <1>2, <1>3, <1>4, <1>5 DEF Inv

LEMMA LoopStepInv ==
  ASSUME Inv, HandleError \/ EventDone \/ FunctorsDone
  PROVE  Inv'
<1> USE DEF quietVars, serverVars, connVars
<1>1. CASE HandleError
  <2>1. /\ sock' = [sock EXCEPT !.err = FALSE] /\ todo' \subseteq todo /\ at = "event"
        /\ Queued' = Queued
    BY <1>1, QueueStays DEF HandleError, NextCallback, Inv
  <2>2. sock' \in Sockets /\ sock'.wire = sock.wire /\ sock'.fin = sock.fin
        /\ sock'.reset = sock.reset
    BY <2>1 DEF Inv, TypeOK, Sockets
  <2>3. QED
    BY <1>1, <2>1, <2>2, SocketInv DEF HandleError, Inv, TypeOK
<1>2. CASE EventDone
  <2>1. /\ at = "event" /\ batch = <<>> /\ todo = {} /\ Queued' = Queued
    BY <1>2, QueueStays DEF EventDone, Inv, TypeOK
  <2>2. QED
    BY <1>2, <2>1, EmptySeq, SocketInv DEF EventDone, Inv, TypeOK
<1>3. CASE FunctorsDone
  <2>1. Queued' = Queued
    BY <1>3, QueueStays DEF FunctorsDone, Inv
  <2>2. QED
    BY <1>3, <2>1, SocketInv DEF FunctorsDone, Inv, TypeOK
<1>4. QED
  BY <1>1, <1>2, <1>3

LEMMA PeerInv ==
  ASSUME Inv, Peer
  PROVE  Inv'
<1> USE DEF quietVars, serverVars, connVars, loopVars
<1>1. sock \in Sockets /\ sock.space \in 0..SendSpace /\ sock.arrivals \in 0..MaxArrivals
      /\ SendSpace \in Nat /\ MaxArrivals \in Nat
  BY SizesAssumption DEF Inv, TypeOK, Sockets
<1>2. /\ sock' \in Sockets /\ sock'.wire = sock.wire /\ sock'.fin = sock.fin
      /\ sock.reset => sock'.reset
  <2>1. CASE PeerReads
    <3>1. sock' = [sock EXCEPT !.space = sock.space + 1] /\ sock.space + 1 \in 0..SendSpace
      BY <1>1, <2>1 DEF PeerReads
    <3>2. QED
      BY <1>1, <3>1 DEF Sockets
  <2>2. CASE PeerSends
    <3>1. /\ sock' = [sock EXCEPT !.unread = TRUE, !.arrivals = sock.arrivals + 1]
          /\ sock.arrivals + 1 \in 0..MaxArrivals
      BY <1>1, <2>2 DEF PeerSends
    <3>2. QED
      BY <1>1, <3>1 DEF Sockets
  <2>3. CASE PeerCloses
    BY <1>1, <2>3 DEF PeerCloses, Sockets
  <2>4. CASE PeerResets
    BY <1>1, <2>4 DEF PeerResets, Sockets
  <2>5. QED
    BY <2>1, <2>2, <2>3, <2>4 DEF Peer
<1>3. Queued' = Queued
  BY QueueStays DEF Peer, Inv
<1>4. QED
  BY <1>2, <1>3, SocketInv DEF Peer, Inv, TypeOK

-----------------------------------------------------------------------------
(* Steps that move the queue.                                               *)

LEMMA HasOpMoves ==
  ASSUME NEW k \in {0, 1}, NEW op, Moves(k, op), NEW ops
  PROVE  HasOp(ops)' => HasOp(ops) \/ (op # "none" /\ op \in ops)
<1>1. SUFFICES ASSUME NEW i \in DOMAIN Queued', Queued'[i].op \in ops
               PROVE  HasOp(ops) \/ (op # "none" /\ op \in ops)
  BY DEF HasOp
<1>2. CASE i <= Len(Queued) - k
  <2>1. /\ i \in 1..Len(Queued') /\ k \in Nat /\ Len(Queued) \in Nat
        /\ Len(Queued') \in Nat /\ k <= Len(Queued) /\ DOMAIN Queued = 1..Len(Queued)
    BY DEF Moves, Moved
  <2>2. i \in 1..(Len(Queued) - k) /\ i + k \in DOMAIN Queued
    BY <1>2, <2>1
  <2>3. Queued'[i] = Queued[i + k]
    BY <2>2 DEF Moves, Moved
  <2>4. QED
    BY <1>1, <2>2, <2>3 DEF HasOp
<1>3. CASE i > Len(Queued) - k
  <2>1. /\ i \in 1..Len(Queued') /\ k \in Nat /\ Len(Queued) \in Nat
        /\ Len(Queued') \in Nat
        /\ Len(Queued') = (Len(Queued) - k) + (IF op = "none" THEN 0 ELSE 1)
    BY DEF Moves, Moved
  <2>2. op # "none" /\ i = Len(Queued')
    BY <1>3, <2>1
  <2>3. Queued'[Len(Queued')].op = op
    BY <2>2 DEF Moves, Moved
  <2>4. QED
    BY <1>1, <2>2, <2>3
<1>4. QED
  BY <1>1, <1>2, <1>3 DEF Moves, Moved

LEMMA OrderedMoves ==
  ASSUME NEW k \in {0, 1}, NEW op, Moves(k, op), Ordered,
         op \in BoundToThis => ~HasOp(Endings)
  PROVE  Ordered'
<1>1. SUFFICES ASSUME NEW i \in DOMAIN Queued', NEW j \in DOMAIN Queued', i < j,
                      Queued'[i].op \in Endings
               PROVE  Queued'[j].op \notin BoundToThis
  BY DEF Ordered
<1>2. i <= Len(Queued) - k /\ i + k \in DOMAIN Queued /\ Queued[i + k].op \in Endings
  <2>1. /\ i \in 1..Len(Queued') /\ j \in 1..Len(Queued') /\ k \in Nat
        /\ Len(Queued) \in Nat /\ Len(Queued') \in Nat /\ k <= Len(Queued)
        /\ Len(Queued') <= (Len(Queued) - k) + 1
    BY DEF Moves, Moved
  <2>2. i \in 1..(Len(Queued) - k) /\ i + k \in 1..Len(Queued)
    BY <1>1, <2>1
  <2>3. Queued'[i] = Queued[i + k] /\ DOMAIN Queued = 1..Len(Queued)
    BY <2>2 DEF Moves, Moved
  <2>4. QED
    BY <1>1, <2>1, <2>2, <2>3
<1>3. CASE j <= Len(Queued) - k
  <2>1. /\ j \in 1..Len(Queued') /\ i \in 1..Len(Queued') /\ Len(Queued) \in Nat
        /\ j + k \in DOMAIN Queued /\ Queued'[j].op = Queued[j + k].op
    BY <1>1, <1>3 DEF Moves, Moved
  <2>2. i + k < j + k
    BY <1>1, <2>1
  <2>3. Queued[j + k].op \notin BoundToThis
    BY <1>2, <2>1, <2>2 DEF Ordered
  <2>4. QED
    BY <2>1, <2>3
<1>4. CASE j > Len(Queued) - k
  <2>1. op # "none" /\ j = Len(Queued') /\ Queued'[j].op = op
    <3>1. /\ j \in 1..Len(Queued') /\ Len(Queued) \in Nat /\ j \in Int
          /\ Len(Queued') = (Len(Queued) - k) + (IF op = "none" THEN 0 ELSE 1)
          /\ op # "none" => Queued'[Len(Queued')].op = op
      BY DEF Moves, Moved
    <3>2. op # "none" /\ j = Len(Queued')
      BY <1>4, <3>1
    <3>3. QED
      BY <3>1, <3>2
  <2>2. HasOp(Endings)
    BY <1>2 DEF HasOp
  <2>3. QED
    BY <2>1, <2>2
<1>5. QED
  BY <1>1, <1>3, <1>4 DEF Moves, Moved

(* What the queue says to a user that waits for a drained buffer. *)
Resumes ==
  /\ told.high => \E j \in DOMAIN Queued : Queued[j].op = "writeComplete"
  /\ \A i \in DOMAIN Queued : Queued[i].op = "highWaterMark" =>
       \E j \in DOMAIN Queued : i < j /\ Queued[j].op = "writeComplete"

LEMMA PausedIs == PausedHasOutput <=> (output = <<>> => Resumes)
BY DEF PausedHasOutput, Resumes

LEMMA MovedFrom ==
  ASSUME NEW k \in {0, 1}, NEW op, Moves(k, op), NEW j \in DOMAIN Queued, j > k
  PROVE  j - k \in DOMAIN Queued' /\ Queued'[j - k] = Queued[j]
BY DEF Moves, Moved

LEMMA ResumesMoves ==
  ASSUME NEW k \in {0, 1}, NEW op, Moves(k, op), Resumes, op # "highWaterMark",
         k = 1 => Queued[1].op # "writeComplete" \/ ~told'.high,
         told'.high => told.high \/ (k = 1 /\ Queued[1].op = "highWaterMark")
  PROVE  Resumes'
<1>1. ASSUME told'.high
      PROVE  \E j \in DOMAIN Queued' : Queued'[j].op = "writeComplete"
  <2>1. PICK j \in DOMAIN Queued : Queued[j].op = "writeComplete" /\ j > k
    <3>1. CASE k = 1 /\ Queued[1].op = "highWaterMark"
      <4>1. 1 \in DOMAIN Queued
        BY <3>1 DEF Moves, Moved
      <4>2. QED
        BY <3>1, <4>1 DEF Resumes
    <3>2. CASE told.high
      <4>1. PICK j \in DOMAIN Queued : Queued[j].op = "writeComplete"
        BY <3>2 DEF Resumes
      <4>2. j > k
        BY <1>1, <4>1 DEF Moves, Moved
      <4>3. QED
        BY <4>1, <4>2
    <3>3. QED
      BY <1>1, <3>1, <3>2
  <2>2. QED
    BY <2>1, MovedFrom
<1>2. ASSUME NEW i \in DOMAIN Queued', Queued'[i].op = "highWaterMark"
      PROVE  \E j \in DOMAIN Queued' : i < j /\ Queued'[j].op = "writeComplete"
  <2>1. i \in Int /\ i + k \in DOMAIN Queued /\ Queued'[i] = Queued[i + k]
    BY <1>2 DEF Moves, Moved
  <2>2. PICK j \in DOMAIN Queued : i + k < j /\ Queued[j].op = "writeComplete"
    BY <1>2, <2>1 DEF Resumes
  <2>3. j \in Int /\ i < j - k /\ j > k
    BY <1>2, <2>1, <2>2 DEF Moves, Moved
  <2>4. QED
    BY <2>2, <2>3, MovedFrom
<1>3. QED
  BY <1>1, <1>2 DEF Resumes

(* After a writeComplete is queued the user will go on. *)
LEMMA CompletionResumes ==
  ASSUME NEW k \in {0, 1}, Moves(k, "writeComplete")
  PROVE  Resumes'
<1>1. /\ Len(Queued') \in DOMAIN Queued' /\ Queued'[Len(Queued')].op = "writeComplete"
      /\ DOMAIN Queued' = 1..Len(Queued') /\ Len(Queued') \in Nat
  BY DEF Moves, Moved
<1>2. ASSUME NEW i \in DOMAIN Queued', Queued'[i].op = "highWaterMark"
      PROVE  i < Len(Queued')
  BY <1>1, <1>2
<1>3. QED
  BY <1>1, <1>2 DEF Resumes

LEMMA TakeIs ==
  ASSUME TypeOK, NEW op, Take(op)
  PROVE  /\ at = "functors" /\ sending = <<>> /\ user = "none" /\ todo = {}
         /\ batch # <<>> /\ batch' = Tail(batch) /\ batch' \in Seq(Functors)
         /\ Head(batch) \in Functors /\ Head(batch).op = op
<1>1. batch \in Seq(Functors) /\ batch # <<>>
  BY DEF Take, TypeOK
<1>2. Tail(batch) \in Seq(Functors) /\ Head(batch) \in Functors
  BY <1>1, HeadTailProperties
<1>3. QED
  BY <1>1, <1>2 DEF Take, Idle, TypeOK

(* connectEstablished, in the functor or called by newConnection. *)
LEMMA EstablishInv ==
  ASSUME Inv, Establish, told.up = 0, DOMAIN Queued' = {}, batch' \in Seq(Functors),
         at' = at, at # "functors" => batch' = <<>>, todo = {}, todo' = {},
         UNCHANGED <<quietVars, serverVars, output, sending, pending, sock>>
  PROVE  Inv'
<1> USE DEF quietVars, serverVars
<1>1. /\ state_' = "kConnected" /\ channel_' = enableReading(channel_) /\ user' = "up"
      /\ told' = [told EXCEPT !.up = told.up + 1]
  BY DEF Establish
<1>2. /\ output = <<>> /\ sending = <<>> /\ connections_ = "holds" /\ ~destroyed
      /\ told.down = 0 /\ told.close = 0 /\ ~told.high /\ foreign = "idle"
      /\ accepted = 0 /\ sock.wire = <<>> /\ channel_ = NewChannel
  BY DEF Inv, Fresh
<1>3. /\ channel_' \in ChannelStates /\ Agrees(channel_') /\ channel_'.index = "kAdded"
      /\ channel_'.events = {"in"}
  BY <1>1, <1>2, ChannelCalls DEF Inv, TypeOK, WriteInterest, NewChannel
<1>4. told' \in [up : 0..1, down : Nat, close : Nat, high : BOOLEAN]
      /\ told'.up = 1 /\ told'.down = 0 /\ told'.close = 0 /\ ~told'.high
  BY <1>1, <1>2 DEF Inv, TypeOK
<1>5. TypeOK'
  BY <1>1, <1>3, <1>4 DEF Inv, TypeOK, StateE, Callbacks
<1>6. Fresh' /\ Started' /\ Open' /\ WriteInterest'
  BY <1>1, <1>2, <1>3, <1>4 DEF Fresh, Started, HasOp, Open, WriteInterest, isWriting
<1>7. Closing' /\ Gone' /\ Dead' /\ PausedHasOutput'
  BY <1>1, <1>2, <1>4 DEF Closing, Ordered, Gone, Dead, PausedHasOutput, HasOp
<1>8. Down' /\ Events1' /\ Line'
  BY <1>1, <1>2, <1>4 DEF Inv, Down, Events1, Line
<1>9. QED
  BY <1>5, <1>6, <1>7, <1>8 DEF Inv

LEMMA EstablishedInv ==
  ASSUME Inv, NewConnection \/ RunEstablished
  PROVE  Inv'
<1> USE DEF quietVars, serverVars, loopVars
<1>1. CASE NewConnection
  <2>1. /\ Establish /\ told.up = 0 /\ inLoop /\ at = "poll" /\ batch = <<>>
        /\ UNCHANGED <<quietVars, serverVars, loopVars, output, sending, pending, sock>>
    BY <1>1 DEF NewConnection, Inv, TypeOK, Started
  <2>2. Queued' = Queued /\ DOMAIN Queued = 1..Len(Queued) /\ Len(Queued) \in Nat
    BY <2>1, QueueStays, QueueSame DEF Inv, Moves, Moved
  <2>3. Len(Queued) = 0 /\ todo = {}
    BY <2>1, <2>2 DEF Inv, Fresh
  <2>4. QED
    BY <2>1, <2>2, <2>3, EstablishInv, EmptySeq
<1>2. CASE RunEstablished
  <2>1. /\ Take("connectEstablished") /\ Establish
        /\ UNCHANGED <<quietVars, serverVars, output, sending, at, todo, pending, sock>>
    BY <1>2 DEF RunEstablished
  <2>2. Moves(1, "none") /\ Queued[1].op = "connectEstablished" /\ batch' \in Seq(Functors)
        /\ todo = {} /\ at = "functors"
    BY <2>1, TakeIs, QueueTake DEF Inv
  <2>3. 1 \in DOMAIN Queued
    BY <2>2 DEF Moves, Moved
  <2>4. told.up = 0
    BY <2>2, <2>3 DEF Inv, Started, HasOp, TypeOK
  <2>5. DOMAIN Queued' = {}
    BY <2>2, <2>4 DEF Inv, Fresh, Moves, Moved
  <2>6. QED
    BY <2>1, <2>2, <2>4, <2>5, EstablishInv
<1>3. QED
  BY <1>1, <1>2

(* A functor of the drain other than connectEstablished: the connection has *)
(* been established.                                                        *)
LEMMA TookUp ==
  ASSUME Inv, NEW op, Take(op), op # "connectEstablished", Queued[1].op = op, 1 \in DOMAIN Queued
  PROVE  told.up = 1 /\ HasOp({op})
BY DEF Inv, Fresh, TypeOK, HasOp

LEMMA RunShutdownInv ==
  ASSUME Inv, RunShutdown
  PROVE  Inv'
<1> USE DEF quietVars, serverVars, connVars
<1>1. /\ Take("shutdownInLoop") /\ sock' = ShutdownInLoop(channel_, sock)
      /\ UNCHANGED <<quietVars, serverVars, connVars, at, todo, pending, user, told>>
  BY DEF RunShutdown
<1>2. /\ sock' \in Sockets /\ sock'.wire = sock.wire /\ sock'.reset = sock.reset
      /\ sock.fin => sock'.fin
  BY <1>1, ShutdownInLoopIs DEF Inv, TypeOK
<1>3. /\ Moves(1, "none") /\ Queued[1].op = "shutdownInLoop" /\ batch' \in Seq(Functors)
      /\ at = "functors"
  BY <1>1, TakeIs, QueueTake DEF Inv
<1>4. told.up = 1 /\ ~inLoop
  <2>1. 1 \in DOMAIN Queued
    BY <1>3 DEF Moves, Moved
  <2>2. QED
    BY <1>1, <1>3, <2>1, TookUp DEF Inv, Closing, HasOp, BoundToThis
<1>5. TypeOK'
  BY <1>1, <1>2, <1>3 DEF Inv, TypeOK
<1>6. Fresh' /\ Started' /\ Open' /\ WriteInterest'
  BY <1>1, <1>3, <1>4, HasOpMoves DEF Inv, Fresh, Started, Open, WriteInterest
<1>7. Closing' /\ Gone' /\ Dead'
  BY <1>1, <1>3, HasOpMoves, OrderedMoves DEF Inv, Closing, Gone, Dead, BoundToThis
<1>8. PausedHasOutput'
  BY <1>1, <1>3, PausedIs, ResumesMoves DEF Inv, PausedHasOutput, Resumes
<1>9. Down' /\ Events1' /\ Line'
  BY <1>1, <1>4 DEF Inv, Down, Events1, Line, MayRevive
<1>10. QED
  BY <1>5, <1>6, <1>7, <1>8, <1>9 DEF Inv

LEMMA RunCallbackInv ==
  ASSUME Inv, RunCallback
  PROVE  Inv'
<1> USE DEF quietVars, serverVars, connVars
<1>1. PICK c \in {"writeComplete", "highWaterMark"} :
        /\ Take(c) /\ user' = c /\ told' = [told EXCEPT !.high = (c = "highWaterMark")]
        /\ UNCHANGED <<quietVars, serverVars, connVars, at, todo, pending, sock>>
  BY DEF RunCallback
<1>2. /\ Moves(1, "none") /\ Queued[1].op = c /\ batch' \in Seq(Functors)
      /\ at = "functors" /\ user = "none"
  BY <1>1, TakeIs, QueueTake DEF Inv
<1>3. 1 \in DOMAIN Queued
  BY <1>2 DEF Moves, Moved
<1>4. told.up = 1
  BY <1>1, <1>2, <1>3, TookUp
<1>5. /\ told' \in [up : 0..1, down : Nat, close : Nat, high : BOOLEAN]
      /\ told'.up = told.up /\ told'.down = told.down /\ told'.close = told.close
      /\ told'.high <=> c = "highWaterMark"
  BY <1>1 DEF Inv, TypeOK
<1>6. TypeOK'
  BY <1>1, <1>2, <1>5 DEF Inv, TypeOK, Callbacks
<1>7. Fresh' /\ Started' /\ Open' /\ WriteInterest'
  BY <1>1, <1>2, <1>4, <1>5, HasOpMoves DEF Inv, Fresh, Started, Open, WriteInterest
<1>8. Closing' /\ Gone' /\ Dead'
  BY <1>1, <1>2, <1>5, HasOpMoves, OrderedMoves DEF Inv, Closing, Gone, Dead, BoundToThis
<1>9. PausedHasOutput'
  <2>1. Resumes => Resumes'
    BY <1>2, <1>5, ResumesMoves
  <2>2. QED
    BY <1>1, <2>1, PausedIs DEF Inv, PausedHasOutput, Resumes
<1>10. Down' /\ Events1' /\ Line'
  BY <1>1, <1>4, <1>5 DEF Inv, Down, Events1, Line, MayRevive
<1>11. QED
  BY <1>6, <1>7, <1>8, <1>9, <1>10 DEF Inv

LEMMA RunRemoveInv ==
  ASSUME Inv, RunRemove
  PROVE  Inv'
<1> USE DEF quietVars, connVars
<1>1. /\ Take("removeConnection") /\ connections_' = "erased"
      /\ pending' = Append(pending, Functor("connectDestroyed"))
      /\ UNCHANGED <<quietVars, connVars, at, todo, user, sock, told, destroyed>>
  BY DEF RunRemove
<1>2. Functor("connectDestroyed") \in Functors /\ Functor("connectDestroyed").op = "connectDestroyed"
  BY FunctorTypes DEF Ops
<1>3. /\ Moves(1, "connectDestroyed") /\ Queued[1].op = "removeConnection"
      /\ batch' \in Seq(Functors) /\ at = "functors" /\ user = "none"
  BY <1>1, <1>2, TakeIs, QueueTakeAppend DEF Inv
<1>4. pending' \in Seq(Functors)
  BY <1>1, <1>2, AppendProperties DEF Inv, TypeOK
<1>5. 1 \in DOMAIN Queued
  BY <1>3 DEF Moves, Moved
<1>6. told.up = 1 /\ HasOp({"removeConnection"})
  BY <1>1, <1>3, <1>5, TookUp
<1>7. HasOp(Endings) /\ HasOp(BoundToThis \cup {"removeConnection"})
  BY <1>6 DEF HasOp, Endings
<1>8. told.close > 0 /\ ~inLoop /\ connections_ # "gone"
  BY <1>7 DEF Inv, Closing, Gone
<1>9. TypeOK'
  BY <1>1, <1>3, <1>4 DEF Inv, TypeOK
<1>10. Fresh' /\ Started' /\ Open' /\ WriteInterest'
  BY <1>1, <1>3, <1>6, HasOpMoves DEF Inv, Fresh, Started, Open, WriteInterest
<1>11. Closing' /\ Gone' /\ Dead'
  BY <1>1, <1>3, <1>8, HasOpMoves, OrderedMoves DEF Inv, Closing, Gone, Dead, BoundToThis
<1>12. PausedHasOutput'
  <2>1. Resumes => Resumes'
    BY <1>1, <1>3, ResumesMoves
  <2>2. QED
    BY <1>1, <2>1, PausedIs DEF Inv, PausedHasOutput, Resumes
<1>13. Down' /\ Events1' /\ Line'
  BY <1>1 DEF Inv, Down, Events1, Line, MayRevive
<1>14. QED
  BY <1>9, <1>10, <1>11, <1>12, <1>13 DEF Inv

LEMMA RunDestroyedInv ==
  ASSUME Inv, RunDestroyed
  PROVE  Inv'
<1> USE DEF quietVars
<1>1. /\ Take("connectDestroyed") /\ ConnectDestroyed
      /\ UNCHANGED <<quietVars, output, sending, at, todo, pending, sock, connections_>>
  BY DEF RunDestroyed
<1>2. /\ Moves(1, "none") /\ Queued[1].op = "connectDestroyed" /\ batch' \in Seq(Functors)
      /\ at = "functors" /\ user = "none" /\ todo = {} /\ sending = <<>>
  BY <1>1, TakeIs, QueueTake DEF Inv
<1>3. 1 \in DOMAIN Queued
  BY <1>2 DEF Moves, Moved
<1>4. told.up = 1 /\ HasOp({"connectDestroyed"})
  BY <1>1, <1>2, <1>3, TookUp
<1>5. HasOp(Endings)
  BY <1>4 DEF HasOp, Endings
<1>6. told.close > 0 /\ told.down > 0 /\ state_ # "kConnected" /\ connections_ = "erased"
  BY <1>2, <1>4, <1>5 DEF Inv, TypeOK, Closing
<1>7. /\ channel_' = removeChannel(channel_) /\ destroyed' = TRUE
      /\ UNCHANGED <<state_, user, told>>
  BY <1>1, <1>6 DEF ConnectDestroyed
<1>8. /\ channel_' \in ChannelStates /\ Agrees(channel_') /\ channel_'.index = "kNew"
      /\ channel_'.events = channel_.events
  BY <1>7, ChannelCalls DEF Inv, TypeOK, WriteInterest
<1>9. ~HasOp(BoundToThis)'
  <2>1. SUFFICES ASSUME NEW i \in DOMAIN Queued', Queued'[i].op \in BoundToThis
                 PROVE  FALSE
    BY DEF HasOp
  <2>2. i + 1 \in DOMAIN Queued /\ 1 < i + 1 /\ Queued'[i] = Queued[i + 1]
    BY <1>2, <2>1 DEF Moves, Moved
  <2>3. QED
    BY <1>2, <1>3, <2>1, <2>2 DEF Inv, Closing, Ordered, Endings
<1>10. TypeOK'
  BY <1>1, <1>2, <1>7, <1>8 DEF Inv, TypeOK
<1>11. Fresh' /\ Started' /\ Open' /\ WriteInterest'
  BY <1>1, <1>2, <1>4, <1>7, <1>8, HasOpMoves DEF Inv, Fresh, Started, Open, WriteInterest
<1>12. Closing' /\ Gone'
  BY <1>1, <1>2, <1>6, <1>7, HasOpMoves, OrderedMoves DEF Inv, Closing, Gone, BoundToThis
<1>13. Dead'
  BY <1>1, <1>2, <1>6, <1>7, <1>8, <1>9 DEF Dead
<1>14. PausedHasOutput'
  <2>1. Resumes => Resumes'
    BY <1>2, <1>7, ResumesMoves
  <2>2. QED
    BY <1>1, <2>1, PausedIs DEF Inv, PausedHasOutput, Resumes
<1>15. Down' /\ Events1' /\ Line'
  BY <1>1, <1>2, <1>7, <1>8 DEF Inv, Down, Events1, Line, MayRevive
<1>16. QED
  BY <1>10, <1>11, <1>12, <1>13, <1>14, <1>15 DEF Inv

(* ~TcpServer's connectDestroyed. *)
LEMMA ServerDestroyedInv ==
  ASSUME Inv, ServerDestroyed
  PROVE  Inv'
<1> USE DEF quietVars, loopVars
<1>1. /\ inLoop /\ user = "none" /\ sending = <<>> /\ at = "poll" /\ state_ # "kConnecting"
      /\ connections_ = "holds" /\ connections_' = "gone" /\ ConnectDestroyed
      /\ UNCHANGED <<quietVars, loopVars, output, sending, pending, sock>>
      /\ Queued' = Queued
  BY QueueStays DEF ServerDestroyed, Idle, Inv
<1>2. told.up = 1 /\ todo = {} /\ ~HasOp({"connectDestroyed"})
      /\ ~HasOp(BoundToThis \cup {"removeConnection"})
  BY <1>1 DEF Inv, TypeOK, Fresh, Closing
<1>3. ~HasOp(BoundToThis) /\ ~HasOp(Endings)
  BY <1>2 DEF HasOp, Endings
<1>4. CASE state_ = "kConnected"
  <2>1. /\ state_' = "kDisconnected" /\ channel_' = disableAll(channel_) /\ user' = "destroyed"
        /\ told' = [told EXCEPT !.down = @ + 1] /\ destroyed' = destroyed
    BY <1>1, <1>4 DEF ConnectDestroyed
  <2>2. told.down = 0 /\ told.close = 0 /\ ~destroyed /\ channel_.index = "kAdded"
    BY <1>1, <1>2, <1>4 DEF Inv, TypeOK, Closing, Open
  <2>3. /\ channel_' \in ChannelStates /\ Agrees(channel_')
        /\ channel_'.events = {} /\ channel_'.index = "kDeleted"
    BY <2>1, <2>2, ChannelCalls DEF Inv, TypeOK, WriteInterest
  <2>4. told' \in [up : 0..1, down : Nat, close : Nat, high : BOOLEAN]
        /\ told'.up = 1 /\ told'.down = 1 /\ told'.close = 0 /\ told'.high = told.high
    <3>1. told' = [told EXCEPT !.down = 1] /\ told \in [up : 0..1, down : Nat, close : Nat,
            high : BOOLEAN]
      BY <2>1, <2>2 DEF Inv, TypeOK
    <3>2. QED
      BY <1>2, <2>2, <3>1
  <2>5. TypeOK'
    BY <1>1, <2>1, <2>3, <2>4 DEF Inv, TypeOK, StateE, Callbacks
  <2>6. Fresh' /\ Started' /\ Open' /\ WriteInterest'
    BY <1>1, <1>2, <2>1, <2>2, <2>3, <2>4
       DEF Inv, Fresh, Started, HasOp, Open, WriteInterest
  <2>7. Closing' /\ Gone' /\ Dead' /\ PausedHasOutput'
    BY <1>1, <1>2, <1>3, <2>1, <2>2, <2>4
       DEF Inv, Closing, Ordered, Gone, Dead, PausedHasOutput, HasOp
  <2>8. Down' /\ Events1' /\ Line'
    BY <1>1, <1>2, <2>1, <2>3, <2>4 DEF Inv, Down, Events1, Line, MayRevive
  <2>9. QED
    BY <2>5, <2>6, <2>7, <2>8 DEF Inv
<1>5. CASE state_ # "kConnected"
  <2>1. /\ channel_' = removeChannel(channel_) /\ destroyed' = TRUE
        /\ UNCHANGED <<state_, user, told>>
    BY <1>1, <1>5 DEF ConnectDestroyed
  <2>2. /\ channel_' \in ChannelStates /\ Agrees(channel_') /\ channel_'.index = "kNew"
        /\ channel_'.events = channel_.events
    BY <2>1, ChannelCalls DEF Inv, TypeOK, WriteInterest
  <2>3. TypeOK'
    BY <1>1, <2>1, <2>2 DEF Inv, TypeOK
  <2>4. Fresh' /\ Started' /\ Open' /\ WriteInterest'
    BY <1>1, <1>2, <2>1, <2>2 DEF Inv, Fresh, Started, HasOp, Open, WriteInterest
  <2>5. Closing' /\ Gone' /\ Dead' /\ PausedHasOutput'
    BY <1>1, <1>2, <1>3, <1>5, <2>1, <2>2
       DEF Inv, Closing, Ordered, Gone, Dead, PausedHasOutput, HasOp
  <2>6. Down' /\ Events1' /\ Line'
    BY <1>1, <1>2, <2>1, <2>2 DEF Inv, Down, Events1, Line, MayRevive
  <2>7. QED
    BY <2>3, <2>4, <2>5, <2>6 DEF Inv
<1>6. QED
  BY <1>4, <1>5

-----------------------------------------------------------------------------
(* Sending.                                                                 *)

(* y, of length l, goes on where the wire V, of length v, ends. *)
Continues(V, y, v, l) ==
  /\ V \in Seq(Bytes) /\ Len(V) = v /\ \A i \in DOMAIN V : V[i] = i
  /\ y \in Seq(Bytes) /\ Len(y) = l /\ \A i \in DOMAIN y : y[i] = v + i

(* So does the rest of it when its first n bytes are written. *)
LEMMA LineMoves ==
  ASSUME NEW W, NEW x, NEW w, NEW l, Continues(W, x, w, l), NEW n \in 0..l
  PROVE  Continues(W \o SubSeq(x, 1, n), SubSeq(x, n + 1, l), w + n, l - n)
<1> DEFINE u == SubSeq(x, 1, n)
           y == SubSeq(x, n + 1, l)
           V == W \o u
<1>0. /\ W \in Seq(Bytes) /\ w = Len(W) /\ x \in Seq(Bytes) /\ l = Len(x)
      /\ \A i \in 1..Len(W) : W[i] = i
      /\ \A j \in 1..Len(x) : x[j] = Len(W) + j
  BY LenProperties DEF Continues
<1>1. /\ Len(W) \in Nat /\ Len(x) \in Nat /\ n \in Nat
      /\ DOMAIN W = 1..Len(W) /\ DOMAIN x = 1..Len(x)
  BY <1>0, LenProperties
<1>2. /\ u \in Seq(Bytes) /\ Len(u) = n /\ \A i \in 1..n : u[i] = x[i]
      /\ y \in Seq(Bytes) /\ Len(y) = Len(x) - n
      /\ \A i \in 1..(Len(x) - n) : y[i] = x[n + i]
  BY <1>0, Split
<1> HIDE DEF u, y
<1>3. /\ V \in Seq(Bytes) /\ Len(V) = Len(W) + n
      /\ \A i \in 1..(Len(W) + n) : V[i] = IF i <= Len(W) THEN W[i] ELSE u[i - Len(W)]
  BY <1>0, <1>2, ConcatProperties
<1> HIDE DEF V
<1>4. DOMAIN V = 1..(Len(W) + n) /\ DOMAIN y = 1..(Len(x) - n)
  BY <1>2, <1>3, LenProperties
<1>5. ASSUME NEW i \in 1..(Len(W) + n)
      PROVE  V[i] = i
  <2>1. CASE i <= Len(W)
    BY <1>0, <1>1, <1>3, <2>1
  <2>2. CASE i > Len(W)
    <3>1. i - Len(W) \in 1..n
      BY <1>1, <2>2
    <3>2. V[i] = x[i - Len(W)]
      BY <1>1, <1>2, <1>3, <2>2, <3>1
    <3>3. x[i - Len(W)] = Len(W) + (i - Len(W))
      BY <1>0, <1>1, <3>1
    <3>4. Len(W) + (i - Len(W)) = i
      BY <1>1
    <3>5. QED
      BY <3>2, <3>3, <3>4
  <2>3. QED
    BY <1>1, <2>1, <2>2
<1>6. ASSUME NEW i \in 1..(Len(x) - n)
      PROVE  y[i] = Len(W) + n + i
  <2>1. n + i \in 1..Len(x) /\ y[i] = x[n + i]
    BY <1>1, <1>2
  <2>2. x[n + i] = Len(W) + (n + i)
    BY <1>0, <2>1
  <2>3. Len(W) + (n + i) = Len(W) + n + i
    BY <1>1
  <2>4. QED
    BY <2>1, <2>2, <2>3
<1>7. QED
  BY <1>0, <1>1, <1>2, <1>3, <1>4, <1>5, <1>6 DEF Continues, V, u, y

LEMMA HandleWriteInv ==
  ASSUME Inv, HandleWrite
  PROVE  Inv'
<1> USE DEF quietVars, serverVars
<1>1. /\ at = "event" /\ sending = <<>> /\ user = "none" /\ "out" \in todo
      /\ todo' = todo \ {"out"}
      /\ UNCHANGED <<quietVars, serverVars, state_, sending, at, batch, user, told>>
  BY DEF HandleWrite, NextCallback, Idle
<1>2. told.up = 1 /\ ~destroyed /\ output \in Seq(Bytes) /\ Len(output) \in Nat
  BY <1>1 DEF Inv, TypeOK, Fresh, Dead
<1>3. PICK n \in 0..Len(output) :
        /\ output' = SubSeq(output, n + 1, Len(output)) /\ output' \in Seq(Bytes)
        /\ sock' \in Sockets /\ sock'.wire = sock.wire \o SubSeq(output, 1, n)
        /\ sock'.reset = sock.reset /\ (sock.fin => sock'.fin)
        /\ sock.reset \/ sock.fin \/ ~isWriting(channel_) => n = 0
        /\ IF n > 0 /\ n = Len(output)
             THEN /\ channel_' = disableWriting(channel_)
                  /\ pending' = Append(pending, Functor("writeComplete"))
             ELSE UNCHANGED <<channel_, pending>> /\ sock'.fin = sock.fin
  BY HandleWriteIs DEF Inv
<1>4. Len(output') = Len(output) - n /\ (n = 0 => output' = output)
  <2>1. Len(output') = Len(output) - n
    BY <1>2, <1>3, Split
  <2>2. ASSUME n = 0 PROVE output' = output
    <3>1. \A i \in 1..Len(output) : output'[i] = output[i]
      BY <1>2, <1>3, <2>2, Split
    <3>2. QED
      BY <1>2, <1>3, <2>1, <2>2, <3>1, SeqEqual
  <2>3. QED
    BY <2>1, <2>2
<1>5. Line'
  <2>1. SUFFICES ASSUME inLoop
                 PROVE  /\ \A i \in DOMAIN sock'.wire : sock'.wire[i] = i
                        /\ ~sock'.reset /\ ~sock'.fin =>
                             /\ accepted = Len(sock'.wire) + Len(output') + Len(sending)
                             /\ \A i \in DOMAIN output' : output'[i] = Len(sock'.wire) + i
    BY <1>1, EmptySeq DEF Line
  <2>2. /\ sock.wire \in Seq(Bytes) /\ \A i \in DOMAIN sock.wire : sock.wire[i] = i
        /\ accepted \in Nat
    BY <2>1 DEF Inv, Line, TypeOK, Sockets
  <2>3. CASE sock.reset \/ sock.fin
    <3>1. sock'.wire = sock.wire /\ (sock'.reset \/ sock'.fin)
      <4>1. n = 0 /\ SubSeq(output, 1, n) = <<>>
        BY <1>2, <1>3, <2>3, Split, EmptySeq
      <4>2. QED
        BY <1>3, <2>2, <2>3, <4>1, ConcatEmptySeq
    <3>2. QED
      BY <2>2, <3>1
  <2>4. CASE ~(sock.reset \/ sock.fin)
    <3>1. /\ \A i \in DOMAIN output : output[i] = Len(sock.wire) + i
          /\ accepted = Len(sock.wire) + Len(output) + Len(sending)
      BY <2>1, <2>4 DEF Inv, Line
    <3>2. /\ Len(sock'.wire) = Len(sock.wire) + n
          /\ \A i \in DOMAIN sock'.wire : sock'.wire[i] = i
          /\ \A i \in DOMAIN output' : output'[i] = Len(sock'.wire) + i
      <4>1. Continues(sock.wire, output, Len(sock.wire), Len(output))
        BY <1>2, <2>2, <3>1 DEF Continues
      <4>2. Continues(sock'.wire, output', Len(sock.wire) + n, Len(output) - n)
        BY <1>3, <4>1, LineMoves
      <4>3. QED
        BY <4>2 DEF Continues
    <3>3. Len(sock.wire) \in Nat /\ Len(sending) = 0
      BY <1>1, <2>2, EmptySeq
    <3>4. QED
      BY <1>2, <1>4, <3>1, <3>2, <3>3
  <2>5. QED
    BY <2>3, <2>4
<1>6. CASE n > 0 /\ n = Len(output)
  <2>1. Functor("writeComplete") \in Functors /\ Functor("writeComplete").op = "writeComplete"
    BY FunctorTypes DEF Ops
  <2>2. Moves(0, "writeComplete") /\ pending' \in Seq(Functors)
    <3>1. TypeOK /\ batch' = batch /\ pending' = Append(pending, Functor("writeComplete"))
          /\ pending \in Seq(Functors)
      BY <1>1, <1>3, <1>6 DEF Inv, TypeOK
    <3>2. QED
      BY <2>1, <3>1, QueueAppend, AppendProperties
  <2>3. output' = <<>> /\ isWriting(channel_) /\ channel_' = disableWriting(channel_)
    BY <1>3, <1>4, <1>6, EmptySeq
  <2>4. /\ channel_' \in ChannelStates /\ Agrees(channel_')
        /\ channel_'.events = channel_.events \ {"out"}
        /\ channel_.events # {"out"} /\ channel_.events # {} => channel_'.index = "kAdded"
    BY <2>3, ChannelCalls DEF Inv, TypeOK, WriteInterest
  <2>5. TypeOK'
    BY <1>1, <1>3, <2>2, <2>4 DEF Inv, TypeOK
  <2>6. Fresh' /\ Started' /\ Open' /\ WriteInterest'
    BY <1>1, <1>2, <2>2, <2>3, <2>4, HasOpMoves
       DEF Inv, Fresh, Started, Open, WriteInterest, isWriting
  <2>7. Closing' /\ Gone' /\ Dead'
    BY <1>1, <1>2, <2>2, HasOpMoves, OrderedMoves DEF Inv, Closing, Gone, Dead, Endings, BoundToThis
  <2>8. PausedHasOutput'
    BY <2>2, CompletionResumes, PausedIs DEF PausedHasOutput, Resumes
  <2>9. Down' /\ Events1'
    BY <1>1, <2>3 DEF Inv, Down, Events1, MayRevive, isWriting
  <2>10. QED
    BY <1>5, <2>5, <2>6, <2>7, <2>8, <2>9 DEF Inv
<1>7. CASE ~(n > 0 /\ n = Len(output))
  <2>1. UNCHANGED <<channel_, pending>> /\ Queued' = Queued
    BY <1>1, <1>3, <1>7, QueueStays DEF Inv
  <2>2. output' = <<>> <=> output = <<>>
    <3>1. CASE n = 0
      BY <1>4, <3>1
    <3>2. CASE n # 0
      <4>1. Len(output) # 0 /\ Len(output') # 0
        BY <1>2, <1>4, <1>7, <3>2
      <4>2. QED
        BY <1>2, <1>3, <4>1, EmptySeq
    <3>3. QED
      BY <3>1, <3>2
  <2>3. TypeOK'
    BY <1>1, <1>3, <2>1 DEF Inv, TypeOK
  <2>4. Fresh' /\ Started' /\ Open' /\ WriteInterest'
    BY <1>1, <1>2, <2>1, <2>2 DEF Inv, Fresh, Started, HasOp, Open, WriteInterest
  <2>5. Closing' /\ Gone' /\ Dead' /\ PausedHasOutput'
    BY <1>1, <1>2, <2>1, <2>2 DEF Inv, Closing, Ordered, Gone, Dead, PausedHasOutput, HasOp
  <2>6. Down' /\ Events1'
    BY <1>1, <2>1 DEF Inv, Down, Events1, MayRevive
  <2>7. QED
    BY <1>5, <2>3, <2>4, <2>5, <2>6 DEF Inv
<1>8. QED
  BY <1>6, <1>7

LEMMA HandleHupInv ==
  ASSUME Inv, HandleHup
  PROVE  Inv'
BY CloseInv DEF HandleHup

LEMMA RunSendInv ==
  ASSUME Inv, RunSend
  PROVE  Inv'
<1> USE DEF quietVars, serverVars
<1>1. /\ Take("sendInLoop") /\ BeginSend(Head(batch).data)
      /\ UNCHANGED <<quietVars, serverVars, state_, channel_, output, at, todo, user, told>>
  BY DEF RunSend
<1>2. /\ at = "functors" /\ sending = <<>> /\ user = "none" /\ batch # <<>> /\ todo = {}
      /\ batch' = Tail(batch) /\ batch' \in Seq(Functors) /\ Head(batch).op = "sendInLoop"
      /\ Head(batch).data \in Seq(Bytes)
  BY <1>1, TakeIs DEF Inv, Functors
<1>3. Functor("writeComplete") \in Functors /\ Functor("writeComplete").op = "writeComplete"
  BY FunctorTypes DEF Ops
<1>4. /\ sending' \in Seq(Bytes) /\ sock' \in Sockets
      /\ pending' = pending \/ pending' = Append(pending, Functor("writeComplete"))
      /\ state_ = "kDisconnected" => sending' = <<>>
  <2>1. PICK d \in Seq(Bytes) : BeginSend(d)
    BY <1>1, <1>2
  <2>2. CASE WriteNow(d) /\ state_ # "kDisconnected"
    BY <2>1, <2>2, Write DEF Inv
  <2>3. CASE /\ sending' = d /\ isWriting(channel_) /\ state_ # "kDisconnected"
             /\ UNCHANGED <<sock, pending>>
    BY <2>3 DEF Inv, TypeOK
  <2>4. CASE state_ = "kDisconnected" /\ UNCHANGED <<sending, sock, pending>>
    BY <1>2, <2>4 DEF Inv, TypeOK
  <2>5. QED
    BY <2>1, <2>2, <2>3, <2>4, Begin DEF Inv
<1>5. PICK op \in {"none", "writeComplete"} :
        Moves(1, op) /\ Queued[1].op = "sendInLoop" /\ pending' \in Seq(Functors)
  <2>1. CASE pending' = pending
    BY <1>2, <2>1, QueueTake DEF Inv, TypeOK
  <2>2. CASE pending' = Append(pending, Functor("writeComplete"))
    <3>1. pending' \in Seq(Functors)
      BY <1>3, <2>2, AppendProperties DEF Inv, TypeOK
    <3>2. QED
      BY <1>2, <1>3, <2>2, <3>1, QueueTakeAppend DEF Inv
  <2>3. QED
    BY <1>4, <2>1, <2>2
<1>6. 1 \in DOMAIN Queued
  BY <1>5 DEF Moves, Moved
<1>7. told.up = 1 /\ ~inLoop /\ ~destroyed
  <2>1. told.up = 1
    BY <1>1, <1>5, <1>6, TookUp
  <2>2. HasOp(BoundToThis) /\ HasOp(BoundToThis \cup {"removeConnection"})
    BY <1>5, <1>6 DEF HasOp, BoundToThis
  <2>3. QED
    BY <2>1, <2>2 DEF Inv, Closing, Dead
<1>8. TypeOK'
  BY <1>1, <1>2, <1>4, <1>5 DEF Inv, TypeOK
<1>9. Fresh' /\ Started' /\ Open' /\ WriteInterest'
  BY <1>1, <1>5, <1>7, HasOpMoves DEF Inv, Fresh, Started, Open, WriteInterest
<1>10. Closing' /\ Gone' /\ Dead'
  BY <1>1, <1>5, <1>7, HasOpMoves, OrderedMoves DEF Inv, Closing, Gone, Dead, BoundToThis, Endings
<1>11. PausedHasOutput'
  <2>1. Resumes => Resumes'
    BY <1>1, <1>5, ResumesMoves
  <2>2. QED
    BY <1>1, <2>1, PausedIs DEF Inv, PausedHasOutput, Resumes
<1>12. Down' /\ Events1' /\ Line'
  BY <1>1, <1>2, <1>4, <1>7 DEF Inv, Down, Events1, Line, MayRevive
<1>13. QED
  BY <1>8, <1>9, <1>10, <1>11, <1>12 DEF Inv

LEMMA EndSendInv ==
  ASSUME Inv, EndSend
  PROVE  Inv'
<1> USE DEF quietVars, serverVars, loopVars
<1>1. /\ sending # <<>> /\ output' = output \o sending /\ sending' = <<>>
      /\ channel_' = IF isWriting(channel_) THEN channel_ ELSE enableWriting(channel_)
      /\ pending' = pending \/ pending' = Append(pending, Functor("highWaterMark"))
      /\ UNCHANGED <<quietVars, serverVars, loopVars, state_, user, sock, told>>
  BY DEF EndSend
<1>2. told.up = 1 /\ ~destroyed
  BY <1>1 DEF Inv, TypeOK, Fresh, Dead
<1>3. /\ output' \in Seq(Bytes) /\ Len(output') = Len(output) + Len(sending)
      /\ \A i \in 1..(Len(output) + Len(sending)) :
           output'[i] = IF i <= Len(output) THEN output[i] ELSE sending[i - Len(output)]
      /\ Len(output) \in Nat /\ Len(sending) \in Nat
      /\ output \in Seq(Bytes) /\ sending \in Seq(Bytes)
  BY <1>1, ConcatProperties DEF Inv, TypeOK
<1>4. output' # <<>> /\ sending' \in Seq(Bytes)
  BY <1>1, <1>3, EmptySeq
<1>5. /\ channel_' \in ChannelStates /\ Agrees(channel_') /\ isWriting(channel_')
      /\ channel_.events \subseteq channel_'.events
      /\ channel_.index = "kAdded" => channel_'.index = "kAdded"
  BY <1>1, ChannelCalls DEF Inv, TypeOK, WriteInterest, isWriting
<1>6. Functor("highWaterMark") \in Functors /\ Functor("highWaterMark").op = "highWaterMark"
  BY FunctorTypes DEF Ops
<1>7. PICK op \in {"none", "highWaterMark"} : Moves(0, op) /\ pending' \in Seq(Functors)
  <2>1. CASE pending' = pending
    BY <1>1, <2>1, QueueSame DEF Inv, TypeOK, Queued
  <2>2. CASE pending' = Append(pending, Functor("highWaterMark"))
    <3>1. pending' \in Seq(Functors)
      BY <1>6, <2>2, AppendProperties DEF Inv, TypeOK
    <3>2. QED
      BY <1>1, <1>6, <2>2, <3>1, QueueAppend DEF Inv
  <2>3. QED
    BY <1>1, <2>1, <2>2
<1>8. TypeOK'
  BY <1>1, <1>3, <1>4, <1>5, <1>7 DEF Inv, TypeOK
<1>9. Fresh' /\ Started' /\ Open' /\ WriteInterest'
  BY <1>1, <1>2, <1>4, <1>5, <1>7, HasOpMoves DEF Inv, Fresh, Started, Open, WriteInterest
<1>10. Closing' /\ Gone' /\ Dead'
  BY <1>1, <1>2, <1>7, HasOpMoves, OrderedMoves DEF Inv, Closing, Gone, Dead, BoundToThis, Endings
<1>11. PausedHasOutput' /\ Events1'
  BY <1>1, <1>4 DEF Inv, PausedHasOutput, Events1, MayRevive
<1>12. Down'
  BY <1>1 DEF Inv, Down, MayRevive
<1>13. Line'
  <2>1. SUFFICES ASSUME inLoop, ~sock.reset, ~sock.fin
                 PROVE  /\ accepted = Len(sock.wire) + Len(output') + Len(sending')
                        /\ \A i \in DOMAIN output' : output'[i] = Len(sock.wire) + i
    <3>1. inLoop => \A i \in DOMAIN sock'.wire : sock'.wire[i] = i
      BY <1>1 DEF Inv, Line
    <3>2. \A i \in DOMAIN sending' : sending'[i] = Len(sock'.wire) + Len(output') + i
      BY <1>1, EmptySeq
    <3>3. QED
      BY <1>1, <3>1, <3>2 DEF Line
  <2>2. /\ accepted = Len(sock.wire) + Len(output) + Len(sending)
        /\ \A i \in DOMAIN output : output[i] = Len(sock.wire) + i
        /\ \A i \in DOMAIN sending : sending[i] = Len(sock.wire) + Len(output) + i
    BY <2>1 DEF Inv, Line
  <2>3. Len(sock.wire) \in Nat /\ Len(sending') = 0
    BY <1>1, EmptySeq DEF Inv, TypeOK, Sockets
  <2>4. ASSUME NEW i \in DOMAIN output'
        PROVE  output'[i] = Len(sock.wire) + i
    <3>1. i \in 1..(Len(output) + Len(sending))
      BY <1>3, <2>4, LenProperties
    <3>2. CASE i <= Len(output)
      <4>1. i \in DOMAIN output
        BY <1>3, <3>1, <3>2, LenProperties
      <4>2. QED
        BY <1>3, <2>2, <3>1, <3>2, <4>1
    <3>3. CASE i > Len(output)
      <4>1. i - Len(output) \in DOMAIN sending
        BY <1>3, <3>1, <3>3, LenProperties
      <4>2. output'[i] = sending[i - Len(output)]
        BY <1>3, <3>1, <3>3
      <4>3. sending[i - Len(output)] = Len(sock.wire) + Len(output) + (i - Len(output))
        BY <2>2, <4>1
      <4>4. Len(sock.wire) + Len(output) + (i - Len(output)) = Len(sock.wire) + i
        BY <1>3, <2>3, <3>1
      <4>5. QED
        BY <4>2, <4>3, <4>4
    <3>4. QED
      BY <1>3, <3>1, <3>2, <3>3
  <2>5. accepted = Len(sock.wire) + Len(output') + Len(sending')
    <3>1. Len(output') = Len(output) + Len(sending) /\ Len(output) \in Nat /\ Len(sending) \in Nat
      BY <1>3
    <3>2. accepted = Len(sock.wire) + Len(output) + Len(sending)
      BY <2>2
    <3>3. Len(sock.wire) \in Nat /\ Len(sending') = 0
      BY <2>3
    <3>4. Len(sock.wire) + Len(output) + Len(sending)
            = Len(sock.wire) + (Len(output) + Len(sending)) + 0
      <4>1. \A a, b, c \in Nat : (a + b) + c = a + (b + c) + 0
        OBVIOUS
      <4>2. QED
        BY <3>1, <3>3, <4>1
    <3>5. QED
      BY <3>1, <3>2, <3>3, <3>4
  <2>6. QED
    BY <2>4, <2>5
<1>14. QED
  BY <1>8, <1>9, <1>10, <1>11, <1>12, <1>13 DEF Inv

-----------------------------------------------------------------------------
(* The user's code, and other threads.                                      *)

(* In a connection that is kConnected nobody has heard of an end. *)
LEMMA ConnectedIs ==
  ASSUME Inv, state_ = "kConnected"
  PROVE  told.up = 1 /\ told.down = 0 /\ told.close = 0 /\ ~destroyed /\ ~HasOp(Endings)
<1>1. told.up = 1 /\ told.down = 0 /\ ~destroyed /\ told.down \in Nat /\ told.close \in Nat
  BY DEF Inv, TypeOK, Fresh, Closing
<1>2. told.close = 0
  BY <1>1 DEF Inv, Closing
<1>3. QED
  BY <1>1, <1>2 DEF Inv, Closing

LEMMA SendInv ==
  ASSUME Inv, NEW len \in 1..MaxLen, Send(len)
  PROVE  Inv'
<1> USE DEF serverVars, loopVars
<1> DEFINE d == [i \in 1..len |-> accepted + i]
           g == [i \in 1..len |-> Garbage]
<1>1. /\ user # "none" /\ sending = <<>> /\ state_ = "kConnected"
      /\ accepted + len <= MaxBytes /\ accepted' = accepted + len
      /\ inLoop => BeginSend(d)
      /\ ~inLoop => UNCHANGED <<sending, sock>> /\
           \E data \in {d, g} : pending' = Append(pending, [op |-> "sendInLoop", data |-> data])
      /\ UNCHANGED <<serverVars, loopVars, inLoop, state_, channel_, output, user, told,
                     foreign>>
  BY DEF Send, UserCode
<1>2. told.up = 1 /\ told.down = 0 /\ told.close = 0 /\ ~destroyed /\ ~HasOp(Endings)
  BY <1>1, ConnectedIs
<1>3. /\ accepted \in Nat /\ len \in Nat /\ MaxBytes \in Nat /\ accepted' \in 0..MaxBytes
      /\ d \in Seq(Bytes) /\ g \in Seq(Bytes) /\ Len(d) = len /\ DOMAIN d = 1..len
      /\ \A i \in 1..len : d[i] = accepted + i
  <2>1. accepted \in Nat /\ len \in Nat /\ MaxBytes \in Nat /\ accepted' \in 0..MaxBytes
    BY <1>1, SizesAssumption DEF Inv, TypeOK
  <2>2. \A i \in 1..len : accepted + i \in Bytes /\ Garbage \in Bytes
    BY <1>1, <2>1 DEF Bytes, Garbage
  <2>3. d \in [1..len -> Bytes] /\ g \in [1..len -> Bytes]
    BY <2>2
  <2>4. d \in Seq(Bytes) /\ g \in Seq(Bytes)
    BY <2>1, <2>3, IsASeq
  <2>5. Len(d) = len
    BY <2>1, <2>4, LenProperties
  <2>6. QED
    BY <2>1, <2>4, <2>5
<1>4. Functor("writeComplete") \in Functors /\ Functor("writeComplete").op = "writeComplete"
  BY FunctorTypes DEF Ops
<1> HIDE DEF d, g
<1>5. /\ sending' \in Seq(Bytes) /\ sock' \in Sockets
      /\ \/ pending' = pending
         \/ pending' = Append(pending, Functor("writeComplete"))
         \/ ~inLoop /\ \E f \in Functors : f.op = "sendInLoop" /\ pending' = Append(pending, f)
  <2>1. CASE inLoop
    <3>1. CASE WriteNow(d)
      BY <1>3, <3>1, Write DEF Inv
    <3>2. CASE sending' = d /\ UNCHANGED <<sock, pending>>
      BY <1>3, <3>2 DEF Inv, TypeOK
    <3>3. QED
      BY <1>1, <1>3, <2>1, <3>1, <3>2, Begin DEF Inv
  <2>2. CASE ~inLoop
    <3>1. PICK data \in Seq(Bytes) : pending' = Append(pending, [op |-> "sendInLoop", data |-> data])
      BY <1>1, <1>3, <2>2
    <3>2. [op |-> "sendInLoop", data |-> data] \in Functors
      BY DEF Functors, Ops
    <3>3. QED
      BY <1>1, <2>2, <3>1, <3>2 DEF Inv, TypeOK
  <2>3. QED
    BY <2>1, <2>2
<1>6. PICK op \in {"none", "writeComplete", "sendInLoop"} :
        Moves(0, op) /\ (op = "sendInLoop" => ~inLoop) /\ pending' \in Seq(Functors)
  <2>1. CASE pending' = pending
    BY <1>1, <2>1, QueueSame DEF Inv, TypeOK, Queued
  <2>2. ASSUME NEW f \in Functors, pending' = Append(pending, f),
               f.op = "writeComplete" \/ (~inLoop /\ f.op = "sendInLoop")
        PROVE  \E op \in {"none", "writeComplete", "sendInLoop"} :
                 Moves(0, op) /\ (op = "sendInLoop" => ~inLoop) /\ pending' \in Seq(Functors)
    <3>1. pending' \in Seq(Functors)
      BY <2>2, AppendProperties DEF Inv, TypeOK
    <3>2. Moves(0, f.op)
      BY <1>1, <2>2, QueueAppend DEF Inv
    <3>3. QED
      BY <2>2, <3>1, <3>2
  <2>3. QED
    BY <1>4, <1>5, <2>1, <2>2
<1>7. TypeOK'
  BY <1>1, <1>3, <1>5, <1>6 DEF Inv, TypeOK
<1>8. Fresh' /\ Started' /\ Open' /\ WriteInterest'
  BY <1>1, <1>2, <1>6, HasOpMoves DEF Inv, Fresh, Started, Open, WriteInterest
<1>9. Closing' /\ Gone' /\ Dead'
  BY <1>1, <1>2, <1>6, HasOpMoves, OrderedMoves DEF Inv, Closing, Gone, Dead, BoundToThis, Endings
<1>10. PausedHasOutput'
  <2>1. Resumes => Resumes'
    BY <1>1, <1>6, ResumesMoves
  <2>2. QED
    BY <1>1, <2>1, PausedIs DEF Inv, PausedHasOutput, Resumes
<1>11. Down' /\ Events1'
  BY <1>1, <1>2 DEF Inv, Down, Events1, MayRevive
<1>12. Line'
  <2>1. SUFFICES ASSUME inLoop PROVE Line'
    BY <1>1 DEF Line
  <2>2. sock.wire \in Seq(Bytes) /\ Len(sock.wire) \in Nat /\ \A i \in DOMAIN sock.wire : sock.wire[i] = i
    BY <2>1 DEF Inv, Line, TypeOK, Sockets
  <2>3. output \in Seq(Bytes) /\ Len(output) \in Nat
    BY DEF Inv, TypeOK
  <2>4. CASE WriteNow(d) /\ (~isWriting(channel_) \/ output = <<>>)
    <3>1. output = <<>>
      BY <1>2, <2>4 DEF Inv, WriteInterest
    <3>2. /\ sock'.reset = sock.reset /\ sock'.fin = sock.fin
          /\ sock.reset \/ sock.fin => sock'.wire = sock.wire
          /\ \/ sock.reset \/ sock.fin
             \/ \E n \in 0..Len(d) :
                  sock'.wire = sock.wire \o SubSeq(d, 1, n) /\ sending' = SubSeq(d, n + 1, Len(d))
      BY <1>3, <2>4, Write DEF Inv
    <3>3. CASE sock.reset \/ sock.fin
      BY <2>2, <3>2, <3>3 DEF Line
    <3>4. CASE ~(sock.reset \/ sock.fin)
      <4>1. PICK n \in 0..Len(d) :
              sock'.wire = sock.wire \o SubSeq(d, 1, n) /\ sending' = SubSeq(d, n + 1, Len(d))
        BY <3>2, <3>4
      <4>2. accepted = Len(sock.wire)
        <5>1. accepted = Len(sock.wire) + Len(output) + Len(sending)
          BY <2>1, <3>4 DEF Inv, Line
        <5>2. Len(output) = 0 /\ Len(sending) = 0
          BY <1>1, <3>1, EmptySeq
        <5>3. QED
          BY <2>2, <5>1, <5>2
      <4>3. Continues(sock.wire, d, Len(sock.wire), Len(d))
        BY <1>3, <2>2, <4>2 DEF Continues
      <4>4. Continues(sock'.wire, sending', Len(sock.wire) + n, Len(d) - n)
        BY <4>1, <4>3, LineMoves
      <4>5. Len(output') = 0 /\ \A i \in DOMAIN output' : output'[i] = Len(sock'.wire) + i
        BY <1>1, <3>1, EmptySeq
      <4>6. /\ Len(sock'.wire) = Len(sock.wire) + n /\ Len(sending') = len - n
            /\ \A i \in DOMAIN sock'.wire : sock'.wire[i] = i
        BY <1>3, <4>4 DEF Continues
      <4>7. \A i \in DOMAIN sending' : sending'[i] = Len(sock'.wire) + Len(output') + i
        <5>1. \A i \in DOMAIN sending' : sending'[i] = Len(sock'.wire) + i
          BY <4>4, <4>6 DEF Continues
        <5>2. Len(sock'.wire) + Len(output') = Len(sock'.wire)
          BY <1>3, <2>2, <4>5, <4>6
        <5>3. QED
          BY <5>1, <5>2
      <4>8. accepted' = Len(sock'.wire) + Len(output') + Len(sending')
        <5>1. n \in Nat /\ len \in Nat /\ accepted' = Len(sock.wire) + len
          BY <1>1, <1>3, <4>2
        <5>2. \A a \in Nat : a + len = (a + n) + 0 + (len - n)
          BY <5>1
        <5>3. QED
          BY <2>2, <4>5, <4>6, <5>1, <5>2
      <4>9. QED
        BY <4>5, <4>6, <4>7, <4>8 DEF Line
    <3>5. QED
      BY <3>3, <3>4
  <2>5. CASE sending' = d /\ UNCHANGED <<sock, pending>>
    <3>1. SUFFICES ASSUME ~sock.reset, ~sock.fin
                   PROVE  /\ accepted' = Len(sock.wire) + Len(output) + Len(d)
                          /\ \A i \in DOMAIN output : output[i] = Len(sock.wire) + i
                          /\ \A i \in DOMAIN d : d[i] = Len(sock.wire) + Len(output) + i
      BY <1>1, <2>2, <2>5 DEF Line
    <3>2. /\ accepted = Len(sock.wire) + Len(output) + Len(sending)
          /\ \A i \in DOMAIN output : output[i] = Len(sock.wire) + i
      BY <2>1, <3>1 DEF Inv, Line
    <3>3. accepted = Len(sock.wire) + Len(output)
      <4>1. Len(sending) = 0
        BY <1>1, EmptySeq
      <4>2. \A a, b \in Nat : a + b + 0 = a + b
        OBVIOUS
      <4>3. QED
        BY <2>2, <2>3, <3>2, <4>1, <4>2
    <3>4. QED
      BY <1>1, <1>3, <3>2, <3>3
  <2>6. QED
    BY <1>1, <1>3, <2>1, <2>4, <2>5, Begin DEF Inv
<1>13. QED
  BY <1>7, <1>8, <1>9, <1>10, <1>11, <1>12 DEF Inv

LEMMA ShutdownInv ==
  ASSUME Inv, Shutdown
  PROVE  Inv'
<1> USE DEF quietVars, serverVars, loopVars
<1>1. /\ user # "none" /\ sending = <<>> /\ state_ = "kConnected" /\ state_' = "kDisconnecting"
      /\ \/ inLoop /\ sock' = ShutdownInLoop(channel_, sock) /\ UNCHANGED pending
         \/ ~inLoop /\ pending' = Append(pending, Functor("shutdownInLoop")) /\ UNCHANGED sock
      /\ UNCHANGED <<quietVars, serverVars, loopVars, channel_, output, sending, user, told>>
  BY DEF Shutdown, UserCode, Inv, TypeOK
<1>2. told.up = 1 /\ told.down = 0 /\ told.close = 0 /\ ~destroyed /\ ~HasOp(Endings)
  BY <1>1, ConnectedIs
<1>3. /\ sock' \in Sockets /\ sock'.wire = sock.wire /\ sock'.reset = sock.reset
      /\ sock.fin => sock'.fin
  BY <1>1, ShutdownInLoopIs DEF Inv, TypeOK
<1>4. /\ Functor("shutdownInLoop") \in Functors
      /\ Functor("shutdownInLoop").op = "shutdownInLoop"
  BY FunctorTypes DEF Ops
<1>5. PICK op \in {"none", "shutdownInLoop"} :
        Moves(0, op) /\ (op = "shutdownInLoop" => ~inLoop) /\ pending' \in Seq(Functors)
  <2>1. CASE UNCHANGED pending
    BY <1>1, <2>1, QueueSame DEF Inv, TypeOK, Queued
  <2>2. CASE ~inLoop /\ pending' = Append(pending, Functor("shutdownInLoop"))
    <3>1. pending' \in Seq(Functors)
      BY <1>4, <2>2, AppendProperties DEF Inv, TypeOK
    <3>2. QED
      BY <1>1, <1>4, <2>2, <3>1, QueueAppend DEF Inv
  <2>3. QED
    BY <1>1, <2>1, <2>2
<1>6. TypeOK'
  BY <1>1, <1>3, <1>5 DEF Inv, TypeOK, StateE
<1>7. Fresh' /\ Started' /\ Open' /\ WriteInterest'
  BY <1>1, <1>2, <1>5, HasOpMoves DEF Inv, Fresh, Started, Open, WriteInterest
<1>8. Closing' /\ Gone' /\ Dead'
  BY <1>1, <1>2, <1>5, HasOpMoves, OrderedMoves DEF Inv, Closing, Gone, Dead, BoundToThis, Endings
<1>9. PausedHasOutput'
  <2>1. Resumes => Resumes'
    BY <1>1, <1>5, ResumesMoves
  <2>2. QED
    BY <1>1, <2>1, PausedIs DEF Inv, PausedHasOutput, Resumes
<1>10. Down' /\ Events1'
  BY <1>1, <1>2 DEF Inv, Down, Events1, MayRevive
<1>11. Line'
  BY <1>1, <1>3 DEF Inv, Line
<1>12. QED
  BY <1>6, <1>7, <1>8, <1>9, <1>10, <1>11 DEF Inv

LEMMA ForeignInv ==
  ASSUME Inv, ForeignTest \/ ForeignShutdown
  PROVE  Inv'
<1> USE DEF serverVars, connVars, loopVars
<1>1. CASE ForeignTest
  <2>1. /\ state_ = "kConnected" /\ foreign = "idle" /\ foreign' = "tested" /\ Queued' = Queued
        /\ UNCHANGED <<serverVars, connVars, loopVars, inLoop, pending, user, sock, accepted,
                       told>>
    BY <1>1, QueueStays DEF ForeignTest, Inv
  <2>2. told.up = 1
    BY <2>1, ConnectedIs
  <2>3. TypeOK' /\ Fresh' /\ Started' /\ Open' /\ WriteInterest'
    BY <2>1, <2>2 DEF Inv, TypeOK, Fresh, Started, HasOp, Open, WriteInterest
  <2>4. Closing' /\ Gone' /\ Dead' /\ PausedHasOutput'
    BY <2>1 DEF Inv, Closing, Ordered, Gone, Dead, PausedHasOutput, HasOp
  <2>5. Down' /\ Events1' /\ Line'
    BY <2>1 DEF Inv, Down, Events1, Line, MayRevive
  <2>6. QED
    BY <2>3, <2>4, <2>5 DEF Inv
<1>2. CASE ForeignShutdown
  <2>1. /\ foreign # "idle" /\ foreign' \in {"set", "done"} /\ Queued' = Queued
        /\ foreign = "set" => foreign' = "done"
        /\ state_' = state_ \/ (foreign = "tested" /\ state_' = "kDisconnecting")
        /\ sock' = sock \/ sock' = ShutdownInLoop(channel_, sock)
        /\ UNCHANGED <<serverVars, loopVars, inLoop, channel_, output, sending, pending, user,
                       accepted, told>>
    BY <1>2, QueueStays DEF ForeignShutdown, Inv
  <2>2. /\ sock' \in Sockets /\ sock'.wire = sock.wire /\ sock'.reset = sock.reset
        /\ sock.fin => sock'.fin
    BY <2>1, ShutdownInLoopIs DEF Inv, TypeOK
  <2>3. told.up = 1
    BY <2>1 DEF Inv, TypeOK, Fresh
  <2>4. TypeOK'
    BY <2>1, <2>2 DEF Inv, TypeOK, StateE
  <2>5. Fresh' /\ Started' /\ Open' /\ WriteInterest'
    BY <2>1, <2>3 DEF Inv, Fresh, Started, HasOp, Open, WriteInterest
  <2>6. Closing' /\ Gone' /\ Dead' /\ PausedHasOutput'
    BY <2>1 DEF Inv, Closing, Ordered, Gone, Dead, PausedHasOutput, HasOp
  <2>7. Down' /\ Events1'
    BY <2>1 DEF Inv, Down, Events1, MayRevive
  <2>8. Line'
    BY <2>1, <2>2 DEF Inv, Line
  <2>9. QED
    BY <2>4, <2>5, <2>6, <2>7, <2>8 DEF Inv
<1>3. QED
  BY <1>1, <1>2

(* The user's callback has returned. *)
LEMMA UserReturnInv ==
  ASSUME Inv, UserReturn
  PROVE  Inv'
<1> USE DEF quietVars, loopVars
<1>1. /\ user # "none" /\ user' = "none" /\ sending = <<>>
      /\ UNCHANGED <<quietVars, loopVars, state_, output, sending, sock>>
  BY DEF UserReturn, UserCode
<1>2. told.up = 1
  BY <1>1 DEF Inv, TypeOK, Fresh
<1>3. CASE user = "down"
  <2>1. CloseCallback /\ told' = [told EXCEPT !.close = @ + 1]
    BY <1>3 DEF UserReturn
  <2>2. ~destroyed /\ connections_ # "gone" /\ told.close + 1 <= told.down
        /\ told.down \in Nat /\ told.close \in Nat
    BY <1>3 DEF Inv, TypeOK, Closing, Gone
  <2>3. /\ told' \in [up : 0..1, down : Nat, close : Nat, high : BOOLEAN]
        /\ told'.up = 1 /\ told'.down = told.down /\ told'.close = told.close + 1
        /\ told'.high = told.high
    <3>1. told \in [up : 0..1, down : Nat, close : Nat, high : BOOLEAN]
      BY DEF Inv, TypeOK
    <3>2. told' = [told EXCEPT !.close = told.close + 1] /\ told.close + 1 \in Nat
      BY <2>1, <2>2
    <3>3. QED
      BY <1>2, <3>1, <3>2
  <2>4. PICK op \in {"connectDestroyed", "removeConnection"} :
          /\ pending' = Append(pending, Functor(op))
          /\ IF inLoop THEN op = "connectDestroyed" /\ connections_' = "erased"
                       ELSE op = "removeConnection" /\ connections_' = connections_
          /\ UNCHANGED <<channel_, destroyed>>
    BY <2>1 DEF CloseCallback, Inv, TypeOK
  <2>5. Functor(op) \in Functors /\ Functor(op).op = op
    BY FunctorTypes DEF Ops
  <2>6. Moves(0, op) /\ pending' \in Seq(Functors)
    <3>1. pending' \in Seq(Functors)
      BY <2>4, <2>5, AppendProperties DEF Inv, TypeOK
    <3>2. QED
      BY <1>1, <2>4, <2>5, <3>1, QueueAppend DEF Inv
  <2>7. TypeOK'
    BY <1>1, <2>3, <2>4, <2>6 DEF Inv, TypeOK, Callbacks
  <2>8. Fresh' /\ Started' /\ Open' /\ WriteInterest'
    BY <1>1, <1>2, <2>3, <2>4, <2>6, HasOpMoves DEF Inv, Fresh, Started, Open, WriteInterest
  <2>9. Closing'
    <3>1. Ordered'
      BY <2>6, OrderedMoves DEF Inv, Closing, BoundToThis
    <3>2. HasOp({"connectDestroyed"})' => connections_' = "erased"
      BY <2>4, <2>6, HasOpMoves DEF Inv, Closing
    <3>3. HasOp(BoundToThis \cup {"removeConnection"})' => ~inLoop'
      BY <1>1, <2>4, <2>6, HasOpMoves DEF Inv, Closing, BoundToThis
    <3>4. QED
      BY <1>1, <2>2, <2>3, <2>4, <3>1, <3>2, <3>3 DEF Inv, Closing
  <2>10. Gone' /\ Dead'
    BY <1>1, <2>2, <2>4 DEF Gone, Dead
  <2>11. PausedHasOutput'
    <3>1. Resumes => Resumes'
      BY <2>3, <2>6, ResumesMoves
    <3>2. QED
      BY <1>1, <3>1, PausedIs DEF Inv, PausedHasOutput, Resumes
  <2>12. Down' /\ Events1' /\ Line'
    BY <1>1, <2>3, <2>4 DEF Inv, Down, Events1, Line, MayRevive
  <2>13. QED
    BY <2>7, <2>8, <2>9, <2>10, <2>11, <2>12 DEF Inv
<1>4. CASE user = "destroyed"
  <2>1. /\ channel_' = removeChannel(channel_) /\ destroyed' = TRUE /\ Queued' = Queued
        /\ UNCHANGED <<pending, connections_, told>>
    BY <1>1, <1>4, QueueStays DEF UserReturn, Inv
  <2>2. inLoop /\ connections_ = "gone" /\ todo = {} /\ state_ # "kConnected"
    BY <1>4 DEF Inv, Gone
  <2>3. /\ channel_' \in ChannelStates /\ Agrees(channel_') /\ channel_'.index = "kNew"
        /\ channel_'.events = channel_.events
    BY <2>1, ChannelCalls DEF Inv, TypeOK, WriteInterest
  <2>4. ~HasOp(BoundToThis)
    BY <2>2 DEF Inv, Closing, HasOp
  <2>5. TypeOK'
    BY <1>1, <2>1, <2>3 DEF Inv, TypeOK, Callbacks
  <2>6. Fresh' /\ Started' /\ Open' /\ WriteInterest'
    BY <1>1, <1>2, <2>1, <2>3 DEF Inv, Fresh, Started, HasOp, Open, WriteInterest
  <2>7. Closing' /\ Gone' /\ Dead' /\ PausedHasOutput'
    BY <1>1, <1>4, <2>1, <2>2, <2>3, <2>4
       DEF Inv, Closing, Ordered, Gone, Dead, PausedHasOutput, HasOp
  <2>8. Down' /\ Events1' /\ Line'
    BY <1>1, <2>1, <2>3 DEF Inv, Down, Events1, Line, MayRevive
  <2>9. QED
    BY <2>5, <2>6, <2>7, <2>8 DEF Inv
<1>5. CASE user \notin {"down", "destroyed"}
  <2>1. UNCHANGED <<pending, connections_, channel_, destroyed, told>> /\ Queued' = Queued
    BY <1>1, <1>5, QueueStays DEF UserReturn, Inv
  <2>2. TypeOK' /\ Fresh' /\ Started' /\ Open' /\ WriteInterest'
    BY <1>1, <1>2, <2>1 DEF Inv, TypeOK, Callbacks, Fresh, Started, HasOp, Open, WriteInterest
  <2>3. Closing' /\ Gone' /\ Dead' /\ PausedHasOutput'
    BY <1>1, <1>5, <2>1 DEF Inv, Closing, Ordered, Gone, Dead, PausedHasOutput, HasOp
  <2>4. Down' /\ Events1' /\ Line'
    BY <1>1, <2>1 DEF Inv, Down, Events1, Line, MayRevive
  <2>5. QED
    BY <2>2, <2>3, <2>4 DEF Inv
<1>6. QED
  BY <1>3, <1>4, <1>5

-----------------------------------------------------------------------------
(* The specification keeps it.                                              *)

LEMMA NextInv == Inv /\ [Next]_vars => Inv'
<1> SUFFICES ASSUME Inv, [Next]_vars PROVE Inv'
  OBVIOUS
<1>1. CASE Loop
  BY <1>1, EstablishedInv, PollInv, HandleHupInv, LoopStepInv, HandleReadInv, HandleWriteInv,
     RunSendInv, RunShutdownInv, RunCallbackInv, RunRemoveInv, RunDestroyedInv, EndSendInv,
     UserReturnInv DEF Loop, Handlers, RunFunctor
<1>2. CASE User
  BY <1>2, SendInv, ShutdownInv, ForeignInv, ServerDestroyedInv DEF User
<1>3. CASE ForeignShutdown
  BY <1>3, ForeignInv
<1>4. CASE Peer
  BY <1>4, PeerInv
<1>5. CASE UNCHANGED vars
  BY <1>5, QueueStays, SocketInv
     DEF vars, quietVars, serverVars, connVars, loopVars, Inv, TypeOK
<1>6. QED
  BY <1>1, <1>2, <1>3, <1>4, <1>5 DEF Next

(* The inductive invariant holds of every behaviour. *)
THEOREM InvHolds == Spec => []Inv
<1>1. Init => Inv
  BY InitInv
<1>2. Inv /\ [Next]_vars => Inv'
  BY NextInv
<1>3. QED
  BY <1>1, <1>2, PTL DEF Spec

(* Every variable has its type; handlers and functors are left over only in *)
(* their part of an iteration: TcpConnection.h's members, EventLoop::loop.  *)
THEOREM TypeCorrect == Spec => []TypeOK
<1>1. Inv => TypeOK
  BY DEF Inv
<1>2. QED
  BY <1>1, InvHolds, PTL

(* Whatever the user, the peer and other threads do, EPOLLOUT is asked for  *)
(* exactly while there is output: sendInLoop, handleWrite, the Channel.     *)
THEOREM Interest == Spec => []WriteInterest
<1>1. Inv => WriteInterest
  BY DEF Inv
<1>2. QED
  BY <1>1, InvHolds, PTL

(* The user hears of one start, then of at most one end, and the server     *)
(* after it: connectEstablished, handleClose, connectDestroyed.             *)
THEOREM Told == Spec => []CallbackOrder
<1>1. Inv => CallbackOrder
  <2>1. SUFFICES ASSUME Inv, ~MayRevive
                 PROVE  /\ told.close <= told.down /\ told.down <= told.up /\ told.up <= 1
                        /\ user = "message" => told.up = 1 /\ told.down = 0
                        /\ destroyed /\ connections_ # "gone" => told.close = 1
    BY DEF CallbackOrder
  <2>2. told.up \in 0..1 /\ told.down \in Nat /\ told.close \in Nat
    BY <2>1 DEF Inv, TypeOK
  <2>3. told.close <= told.down
    BY <2>1, <2>2 DEF Inv, Closing
  <2>4. told.down <= told.up
    BY <2>1, <2>2 DEF Inv, Down, Fresh
  <2>5. user = "message" => told.up = 1 /\ told.down = 0
    BY <2>1 DEF Inv, Events1
  <2>6. destroyed /\ connections_ # "gone" => told.close = 1
    BY <2>1, <2>2, <2>3, <2>4 DEF Inv, Dead
  <2>7. QED
    BY <2>2, <2>3, <2>4, <2>5, <2>6
<1>2. QED
  BY <1>1, InvHolds, PTL

(* connectDestroyed comes after every functor that is bound to the bare     *)
(* this: queueInLoop in send and shutdown, removeConnectionInLoop.          *)
THEOREM NoDangling == Spec => []NoDanglingThis
<1>1. Inv => NoDanglingThis
  BY DEF Inv, Dead, HasOp, BoundToThis, NoDanglingThis
<1>2. QED
  BY <1>1, InvHolds, PTL

(* A user whom highWaterMarkCallback_ has stopped is set going again:       *)
(* sendInLoop queues the one and handleWrite the other.                     *)
THEOREM BackPressure == Spec => []PausedHasOutput
<1>1. Inv => PausedHasOutput
  BY DEF Inv
<1>2. QED
  BY <1>1, InvHolds, PTL

-----------------------------------------------------------------------------
(* Where runInLoop queues.  There a part of what send() took waits in the   *)
(* queue, as the data of sendInLoops, and Line is not enough.               *)

(* s is what send() took after the first a bytes, but for Garbage. *)
Placed(s, a) == \A i \in DOMAIN s : s[i] \in {a + i, Garbage}

Size(f) == IF f.op = "sendInLoop" THEN Len(f.data) ELSE 0

Fits(f, a) == f.op = "sendInLoop" => Placed(f.data, a)

(* What q sends are the bytes after a up to b: before its functor i + 1     *)
(* comes off[i].                                                            *)
Spans(q, off, a, b) ==
  /\ off[0] = a /\ off[Len(q)] = b
  /\ \A i \in 1..Len(q) : off[i] = off[i - 1] + Size(q[i]) /\ Fits(q[i], off[i - 1])

Lined(q, a, b) == \E off \in [0..Len(q) -> Nat] : Spans(q, off, a, b)

Flowing == ~sock.reset /\ ~sock.fin /\ state_ # "kDisconnected"

(* After an error or the end nothing is sent any more; until then what is   *)
(* sent, kept, in hand and queued are together what send() took.            *)
Later ==
  /\ state_ = "kDisconnected" => told.down > 0
  /\ Placed(sock.wire, 0)
  /\ Flowing =>
       /\ Placed(output, Len(sock.wire))
       /\ Placed(sending, Len(sock.wire) + Len(output))
       /\ Lined(Queued, Len(sock.wire) + Len(output) + Len(sending), accepted)

LineLater == ~inLoop /\ ~MayRevive => Later

(* The queue goes on from where its first functor has been taken to where   *)
(* the new one ends.                                                        *)
LEMMA LinedMoves ==
  ASSUME NEW q, NEW r, NEW k \in {0, 1}, NEW op, Moved(q, r, k, op),
         NEW a \in Nat, NEW b \in Nat, Lined(q, a, b),
         op # "none" => Size(r[Len(r)]) \in Nat /\ Fits(r[Len(r)], b)
  PROVE  /\ k = 0 => Lined(r, a, IF op = "none" THEN b ELSE b + Size(r[Len(r)]))
         /\ k = 1 => /\ Fits(q[1], a)
                     /\ Lined(r, a + Size(q[1]), IF op = "none" THEN b ELSE b + Size(r[Len(r)]))
<1>1. PICK off \in [0..Len(q) -> Nat] : Spans(q, off, a, b)
  BY DEF Lined
<1>2. /\ Len(q) \in Nat /\ Len(r) \in Nat /\ k <= Len(q)
      /\ Len(r) = (Len(q) - k) + (IF op = "none" THEN 0 ELSE 1)
      /\ \A i \in 1..(Len(q) - k) : r[i] = q[i + k]
  BY DEF Moved
<1>3. /\ off[0] = a /\ off[Len(q)] = b
      /\ \A i \in 1..Len(q) : off[i] = off[i - 1] + Size(q[i]) /\ Fits(q[i], off[i - 1])
  BY <1>1 DEF Spans
<1> DEFINE z == IF op = "none" THEN b ELSE b + Size(r[Len(r)])
           new == [i \in 0..Len(r) |-> IF i <= Len(q) - k THEN off[i + k] ELSE z]
<1>4. z \in Nat
  OBVIOUS
<1> HIDE DEF z
<1>5. new \in [0..Len(r) -> Nat]
  <2>1. ASSUME NEW i \in 0..Len(r), i <= Len(q) - k PROVE off[i + k] \in Nat
    <3>1. i + k \in 0..Len(q)
      BY <1>2, <2>1
    <3>2. QED
      BY <1>1, <3>1
  <2>2. QED
    BY <1>4, <2>1
<1>6. new[0] = off[k] /\ new[Len(r)] = z
  <2>1. new[0] = off[k]
    BY <1>2
  <2>2. CASE op = "none"
    <3>1. Len(r) = Len(q) - k /\ (Len(q) - k) + k = Len(q)
      BY <1>2, <2>2
    <3>2. new[Len(r)] = off[Len(q)]
      BY <1>2, <3>1
    <3>3. QED
      BY <1>3, <2>1, <2>2, <3>2 DEF z
  <2>3. CASE op # "none"
    BY <1>2, <2>1, <2>3
  <2>4. QED
    BY <2>2, <2>3
<1>7. ASSUME NEW i \in 1..Len(r)
      PROVE  new[i] = new[i - 1] + Size(r[i]) /\ Fits(r[i], new[i - 1])
  <2>1. CASE i <= Len(q) - k
    <3>1. i + k \in 1..Len(q) /\ i - 1 \in 0..Len(r) /\ i - 1 <= Len(q) - k
          /\ (i + k) - 1 = (i - 1) + k
      BY <1>2, <2>1
    <3>2. new[i] = off[i + k] /\ new[i - 1] = off[(i + k) - 1] /\ r[i] = q[i + k]
      BY <1>2, <2>1, <3>1
    <3>3. off[i + k] = off[(i + k) - 1] + Size(q[i + k]) /\ Fits(q[i + k], off[(i + k) - 1])
      BY <1>3, <3>1
    <3>4. QED
      BY <3>2, <3>3
  <2>2. CASE ~(i <= Len(q) - k)
    <3>1. op # "none" /\ i = Len(r) /\ i - 1 \in 0..Len(r) /\ i - 1 = Len(q) - k
          /\ (i - 1) + k = Len(q)
      BY <1>2, <2>2
    <3>2. new[i] = z /\ new[i - 1] = off[Len(q)]
      BY <1>2, <2>2, <3>1
    <3>3. QED
      BY <1>3, <3>1, <3>2 DEF z
  <2>3. QED
    BY <2>1, <2>2
<1> HIDE DEF new
<1>8. Lined(r, off[k], z)
  BY <1>5, <1>6, <1>7 DEF Lined, Spans
<1>9. k = 1 => off[k] = a + Size(q[1]) /\ Fits(q[1], a)
  <2>1. SUFFICES ASSUME k = 1 PROVE off[1] = a + Size(q[1]) /\ Fits(q[1], a)
    OBVIOUS
  <2>2. 1 \in 1..Len(q) /\ 1 - 1 = 0
    BY <1>2, <2>1
  <2>3. QED
    BY <1>3, <2>2
<1>10. QED
  BY <1>3, <1>8, <1>9 DEF z

(* A functor that sends nothing comes and goes without moving the bytes. *)
LEMMA LinedNone ==
  ASSUME NEW q, NEW r, NEW k \in {0, 1}, NEW op, Moved(q, r, k, op), op # "sendInLoop",
         k = 1 => q[1].op # "sendInLoop",
         NEW a \in Nat, NEW b \in Nat, Lined(q, a, b)
  PROVE  Lined(r, a, b)
<1>1. op # "none" => Size(r[Len(r)]) = 0 /\ Size(r[Len(r)]) \in Nat /\ Fits(r[Len(r)], b)
  BY DEF Moved, Size, Fits
<1>2. (IF op = "none" THEN b ELSE b + Size(r[Len(r)])) = b
  BY <1>1
<1>3. CASE k = 0
  <2>1. Lined(r, a, IF op = "none" THEN b ELSE b + Size(r[Len(r)]))
    BY <1>1, <1>3, LinedMoves
  <2>2. QED
    BY <1>2, <2>1
<1>4. CASE k = 1
  <2>1. Lined(r, a + Size(q[1]), IF op = "none" THEN b ELSE b + Size(r[Len(r)]))
    BY <1>1, <1>4, LinedMoves
  <2>2. a + Size(q[1]) = a
    BY <1>4 DEF Size
  <2>3. QED
    BY <1>2, <2>1, <2>2
<1>5. QED
  BY <1>3, <1>4

LEMMA Lengths ==
  ASSUME TypeOK
  PROVE  /\ sock.wire \in Seq(Bytes) /\ output \in Seq(Bytes) /\ sending \in Seq(Bytes)
         /\ Len(sock.wire) \in Nat /\ Len(output) \in Nat /\ Len(sending) \in Nat
         /\ accepted \in Nat
BY SizesAssumption DEF TypeOK, Sockets

(* A step that neither sends nor takes a sendInLoop. *)
LEMMA LaterAside ==
  ASSUME TypeOK, Later, NEW k \in {0, 1}, NEW op, Moves(k, op), op # "sendInLoop",
         k = 1 => Queued[1].op # "sendInLoop",
         sock'.wire = sock.wire, Flowing' => Flowing,
         state_' = "kDisconnected" => told'.down > 0,
         UNCHANGED <<output, sending, accepted>>
  PROVE  Later'
<1>1. SUFFICES ASSUME Flowing
               PROVE  Lined(Queued', Len(sock.wire) + Len(output) + Len(sending), accepted)
  BY DEF Later
<1>2. /\ Len(sock.wire) + Len(output) + Len(sending) \in Nat /\ accepted \in Nat
      /\ Lined(Queued, Len(sock.wire) + Len(output) + Len(sending), accepted)
  BY <1>1, Lengths DEF Later
<1>3. QED
  BY <1>2, LinedNone DEF Moves

LEMMA InitLater == Init => LineLater
<1> SUFFICES ASSUME Init, ~inLoop PROVE Later
  BY DEF LineLater
<1>1. Queued = <<Functor("connectEstablished")>> /\ Len(Queued) = 1
      /\ Queued[1].op = "connectEstablished"
  BY FunctorTypes, ConcatEmptySeq DEF Init, Queued, Ops, Functor
<1>2. Spans(Queued, [i \in 0..1 |-> 0], 0, 0)
  BY <1>1 DEF Spans, Size, Fits
<1>3. Lined(Queued, 0, 0)
  BY <1>1, <1>2 DEF Lined
<1>4. Len(<<>>) = 0 /\ DOMAIN <<>> = {}
  BY EmptySeq
<1>5. QED
  BY <1>3, <1>4 DEF Init, Later, Placed

LEMMA PlacedConcat ==
  ASSUME NEW x \in Seq(Bytes), NEW y \in Seq(Bytes), NEW a \in Nat,
         Placed(x, a), Placed(y, a + Len(x))
  PROVE  Placed(x \o y, a)
<1>1. /\ x \o y \in Seq(Bytes) /\ Len(x \o y) = Len(x) + Len(y)
      /\ \A i \in 1..(Len(x) + Len(y)) :
           (x \o y)[i] = IF i <= Len(x) THEN x[i] ELSE y[i - Len(x)]
      /\ Len(x) \in Nat /\ Len(y) \in Nat /\ DOMAIN x = 1..Len(x) /\ DOMAIN y = 1..Len(y)
  BY ConcatProperties, LenProperties
<1>2. DOMAIN (x \o y) = 1..(Len(x) + Len(y))
  BY <1>1, LenProperties
<1>3. ASSUME NEW i \in 1..(Len(x) + Len(y))
      PROVE  (x \o y)[i] \in {a + i, Garbage}
  <2>1. CASE i <= Len(x)
    <3>1. i \in DOMAIN x
      BY <1>1, <2>1
    <3>2. QED
      BY <1>1, <2>1, <3>1 DEF Placed
  <2>2. CASE i > Len(x)
    <3>1. i - Len(x) \in DOMAIN y /\ (a + Len(x)) + (i - Len(x)) = a + i
      BY <1>1, <2>2
    <3>2. y[i - Len(x)] \in {(a + Len(x)) + (i - Len(x)), Garbage}
      BY <3>1 DEF Placed
    <3>3. (x \o y)[i] = y[i - Len(x)]
      BY <1>1, <2>2
    <3>4. QED
      BY <3>1, <3>2, <3>3
  <2>3. QED
    BY <1>1, <2>1, <2>2
<1>4. QED
  BY <1>2, <1>3 DEF Placed

(* x goes on where the wire W ends.  Its first n bytes are written, which    *)
(* makes the wire V, and y is left.                                         *)
Writes(W, x, n, V, y) ==
  /\ W \in Seq(Bytes) /\ x \in Seq(Bytes) /\ n \in 0..Len(x)
  /\ Placed(W, 0) /\ Placed(x, Len(W))
  /\ V = W \o SubSeq(x, 1, n) /\ y = SubSeq(x, n + 1, Len(x))

LEMMA PlacedMoves ==
  ASSUME NEW W, NEW x, NEW n, NEW V, NEW y, Writes(W, x, n, V, y)
  PROVE  /\ Placed(V, 0) /\ Len(V) = Len(W) + n
         /\ Placed(y, Len(V)) /\ Len(y) = Len(x) - n
<1> DEFINE u == SubSeq(x, 1, n)
<1>0. /\ W \in Seq(Bytes) /\ x \in Seq(Bytes) /\ n \in 0..Len(x)
      /\ Placed(W, 0) /\ Placed(x, Len(W))
  BY DEF Writes
<1>1. V = W \o u /\ y = SubSeq(x, n + 1, Len(x))
  BY DEF Writes
<1>2. /\ u \in Seq(Bytes) /\ Len(u) = n /\ \A i \in 1..n : u[i] = x[i]
      /\ y \in Seq(Bytes) /\ Len(y) = Len(x) - n
      /\ \A i \in 1..(Len(x) - n) : y[i] = x[n + i]
      /\ Len(x) \in Nat
  BY <1>0, <1>1, Split
<1> HIDE DEF u
<1>3. /\ Len(W) \in Nat /\ n \in Nat
      /\ DOMAIN x = 1..Len(x) /\ DOMAIN u = 1..n /\ DOMAIN y = 1..(Len(x) - n)
  BY <1>0, <1>2, LenProperties
<1>4. Placed(u, 0 + Len(W))
  BY <1>0, <1>2, <1>3 DEF Placed
<1>5. Placed(V, 0) /\ Len(V) = Len(W) + n
  <2>1. Placed(W \o u, 0)
    BY <1>0, <1>2, <1>4, PlacedConcat
  <2>2. Len(W \o u) = Len(W) + n
    BY <1>0, <1>2, ConcatProperties
  <2>3. QED
    BY <1>1, <2>1, <2>2
<1>6. ASSUME NEW i \in DOMAIN y
      PROVE  y[i] \in {(Len(W) + n) + i, Garbage}
  <2>1. i \in 1..(Len(x) - n) /\ n + i \in DOMAIN x
    BY <1>2, <1>3
  <2>2. y[i] = x[n + i]
    BY <1>2, <2>1
  <2>3. x[n + i] \in {Len(W) + (n + i), Garbage}
    BY <1>0, <2>1 DEF Placed
  <2>4. Len(W) + (n + i) = (Len(W) + n) + i
    BY <1>3, <2>1
  <2>5. QED
    BY <2>2, <2>3, <2>4
<1>7. Placed(y, Len(V))
  BY <1>5, <1>6 DEF Placed
<1>8. QED
  BY <1>2, <1>5, <1>7

LEMMA HandleWriteLater ==
  ASSUME Inv, Later, HandleWrite, ~inLoop, ~MayRevive
  PROVE  Later'
<1>1. /\ sending = <<>> /\ UNCHANGED <<state_, sending, batch, told, accepted>>
  BY DEF HandleWrite, NextCallback, Idle, quietVars
<1>2. PICK n \in 0..Len(output) :
        /\ output' = SubSeq(output, n + 1, Len(output)) /\ output' \in Seq(Bytes)
        /\ sock'.wire = sock.wire \o SubSeq(output, 1, n)
        /\ sock'.reset = sock.reset /\ (sock.fin => sock'.fin)
        /\ sock.reset \/ sock.fin \/ ~isWriting(channel_) => n = 0
        /\ IF n > 0 /\ n = Len(output)
             THEN pending' = Append(pending, Functor("writeComplete"))
             ELSE UNCHANGED pending
  BY HandleWriteIs DEF Inv
<1>3. PICK op \in {"none", "writeComplete"} : Moves(0, op)
  <2>1. CASE UNCHANGED pending
    BY <1>1, <2>1, QueueSame DEF Inv, Queued
  <2>2. CASE pending' = Append(pending, Functor("writeComplete"))
    BY <1>1, <2>2, QueueAppend, FunctorTypes DEF Inv, Ops
  <2>3. QED
    BY <1>2, <2>1, <2>2
<1>4. CASE Flowing
  <2>1. TypeOK /\ Placed(sock.wire, 0) /\ Placed(output, Len(sock.wire))
        /\ Lined(Queued, Len(sock.wire) + Len(output) + Len(sending), accepted)
    BY <1>4 DEF Later, Inv
  <2>2. /\ Placed(sock'.wire, 0) /\ Len(sock'.wire) = Len(sock.wire) + n
        /\ Placed(output', Len(sock'.wire)) /\ Len(output') = Len(output) - n
    <3>1. Writes(sock.wire, output, n, sock'.wire, output')
      BY <1>2, <2>1, Lengths DEF Writes
    <3>2. Placed(sock'.wire, 0)
      BY <3>1, PlacedMoves
    <3>3. Len(sock'.wire) = Len(sock.wire) + n
      BY <3>1, PlacedMoves
    <3>4. Placed(output', Len(sock'.wire))
      BY <3>1, PlacedMoves
    <3>5. Len(output') = Len(output) - n
      BY <3>1, PlacedMoves
    <3>6. QED
      BY <3>2, <3>3, <3>4, <3>5
  <2>3. (Len(sock.wire) + n) + (Len(output) - n) + Len(sending)
          = Len(sock.wire) + Len(output) + Len(sending)
    BY <1>2, <2>1, Lengths
  <2>4. Lined(Queued', Len(sock'.wire) + Len(output') + Len(sending'), accepted')
    <3> DEFINE a == Len(sock.wire) + Len(output) + Len(sending)
    <3>1. a \in Nat /\ accepted \in Nat /\ Lined(Queued, a, accepted)
      BY <2>1, Lengths
    <3>2. a = Len(sock'.wire) + Len(output') + Len(sending')
      BY <1>1, <2>2, <2>3
    <3> HIDE DEF a
    <3>3. Lined(Queued', a, accepted)
      BY <1>3, <3>1, LinedNone DEF Moves
    <3>4. QED
      BY <1>1, <3>2, <3>3
  <2>5. Placed(sending', Len(sock'.wire) + Len(output'))
    BY <1>1, EmptySeq DEF Placed
  <2>6. QED
    BY <1>1, <2>2, <2>4, <2>5 DEF Later
<1>5. CASE ~Flowing
  <2>1. n = 0
    <3>1. CASE sock.reset \/ sock.fin
      BY <1>2, <3>1
    <3>2. CASE state_ = "kDisconnected"
      <4>1. channel_.events = {}
        BY <3>2 DEF Later, Inv, Down
      <4>2. QED
        BY <1>2, <4>1 DEF isWriting
    <3>3. QED
      BY <1>5, <3>1, <3>2 DEF Flowing
  <2>2. sock'.wire = sock.wire
    <3>1. SubSeq(output, 1, 0) = <<>>
      BY <1>2, <2>1, Split, Lengths, EmptySeq DEF Inv
    <3>2. QED
      BY <1>2, <2>1, <3>1, Lengths, ConcatEmptySeq DEF Inv
  <2>3. ~Flowing'
    BY <1>1, <1>2, <1>5 DEF Flowing
  <2>4. QED
    BY <1>1, <2>2, <2>3 DEF Later
<1>6. QED
  BY <1>4, <1>5

LEMMA RunSendLater ==
  ASSUME Inv, Later, RunSend, ~inLoop, ~MayRevive
  PROVE  Later'
<1> DEFINE d == Queued[1].data
           w == Len(sock.wire)
           a == Len(sock.wire) + Len(output) + Len(sending)
<1>1. /\ Take("sendInLoop") /\ BeginSend(Head(batch).data)
      /\ UNCHANGED <<state_, output, told, accepted>>
  BY DEF RunSend, quietVars
<1>2. /\ sending = <<>> /\ batch # <<>> /\ batch' = Tail(batch)
      /\ Head(batch) \in Functors /\ Head(batch).op = "sendInLoop"
  BY <1>1, TakeIs DEF Inv
<1>3. Queued[1] = Head(batch) /\ d \in Seq(Bytes) /\ Size(Queued[1]) = Len(d)
      /\ Queued[1].op = "sendInLoop" /\ Len(d) \in Nat
  <2>1. Queued[1] = Head(batch)
    BY <1>2, TailConcat DEF Inv, TypeOK, Queued
  <2>2. QED
    BY <1>2, <2>1, LenProperties DEF Functors, Size
<1>4. BeginSend(d)
  BY <1>1, <1>3
<1>5. /\ w \in Nat /\ Len(output) \in Nat /\ accepted \in Nat /\ sock.wire \in Seq(Bytes)
      /\ a \in Nat /\ a = w + Len(output) /\ Len(sending) = 0
  BY <1>2, Lengths, EmptySeq DEF Inv
<1> HIDE DEF d, w, a
<1>6. CASE state_ = "kDisconnected" /\ UNCHANGED <<sending, sock, pending>>
  BY <1>1, <1>6 DEF Later, Flowing
<1>7. ASSUME state_ # "kDisconnected", ~Flowing, sock'.reset = sock.reset, sock'.fin = sock.fin,
             sock'.wire = sock.wire
      PROVE  Later'
  BY <1>1, <1>7 DEF Later, Flowing
<1>8. ASSUME Flowing, NEW op \in {"none", "writeComplete"}, Moves(1, op)
      PROVE  /\ Placed(sock.wire, 0) /\ Placed(output, w) /\ Placed(d, a)
             /\ Lined(Queued', a + Len(d), accepted)
  <2>1. Placed(sock.wire, 0) /\ Placed(output, w) /\ Lined(Queued, a, accepted)
    BY <1>8 DEF Later, a, w
  <2>2. op # "none" => Size(Queued'[Len(Queued')]) = 0 /\ Size(Queued'[Len(Queued')]) \in Nat
                       /\ Fits(Queued'[Len(Queued')], accepted)
    BY <1>8 DEF Moves, Moved, Size, Fits
  <2>3. Fits(Queued[1], a)
    BY <1>5, <1>8, <2>1, <2>2, LinedMoves DEF Moves
  <2>4. Lined(Queued', a + Size(Queued[1]),
              IF op = "none" THEN accepted ELSE accepted + Size(Queued'[Len(Queued')]))
    BY <1>5, <1>8, <2>1, <2>2, LinedMoves DEF Moves
  <2>5. (IF op = "none" THEN accepted ELSE accepted + Size(Queued'[Len(Queued')])) = accepted
    BY <1>5, <2>2
  <2>6. Lined(Queued', a + Len(d), accepted)
    BY <1>3, <2>4, <2>5
  <2>7. QED
    BY <1>3, <2>1, <2>3, <2>6 DEF Fits, d
<1>9. CASE sending' = d /\ state_ # "kDisconnected" /\ UNCHANGED <<sock, pending>>
  <2>1. SUFFICES ASSUME Flowing PROVE Later'
    BY <1>7, <1>9
  <2>2. Moves(1, "none")
    BY <1>2, <1>9, QueueTake DEF Inv
  <2>3. /\ Placed(sock.wire, 0) /\ Placed(output, w) /\ Placed(d, a)
        /\ Lined(Queued', a + Len(d), accepted)
    BY <1>8, <2>1, <2>2
  <2>4. sock' = sock /\ output' = output /\ sending' = d /\ accepted' = accepted
        /\ state_' = state_ /\ told' = told
    BY <1>1, <1>9
  <2>5. Lined(Queued', (w + Len(output)) + Len(d), accepted) /\ Placed(d, w + Len(output))
    BY <1>5, <2>3
  <2>6. QED
    BY <2>3, <2>4, <2>5 DEF Later, w
<1>10. CASE WriteNow(d) /\ (~isWriting(channel_) \/ output = <<>>) /\ state_ # "kDisconnected"
  <2>1. /\ pending' = pending \/ pending' = Append(pending, Functor("writeComplete"))
        /\ sock'.reset = sock.reset /\ sock'.fin = sock.fin
        /\ sock.reset \/ sock.fin => sock'.wire = sock.wire
        /\ \/ sock.reset \/ sock.fin
           \/ \E n \in 0..Len(d) :
                sock'.wire = sock.wire \o SubSeq(d, 1, n) /\ sending' = SubSeq(d, n + 1, Len(d))
    BY <1>3, <1>10, Write DEF Inv
  <2>2. SUFFICES ASSUME Flowing PROVE Later'
    BY <1>7, <1>10, <2>1 DEF Flowing
  <2>3. output = <<>>
    <3>1. Queued[1].op = "sendInLoop" /\ 1 \in DOMAIN Queued
      <4>1. Queued \in Seq(Functors) /\ Queued # <<>>
        BY <1>2, TailConcat DEF Inv, TypeOK, Queued
      <4>2. QED
        BY <1>3, <4>1, LenProperties, EmptySeq
    <3>2. told.up = 1 /\ HasOp({"sendInLoop"})
      BY <1>1, <3>1, TookUp
    <3>3. ~destroyed
      BY <3>2 DEF Inv, Dead, HasOp, BoundToThis
    <3>4. told.down = 0
      BY <1>10 DEF Inv, Down, TypeOK
    <3>5. QED
      BY <1>10, <3>2, <3>3, <3>4 DEF Inv, WriteInterest
  <2>4. PICK n \in 0..Len(d) :
          sock'.wire = sock.wire \o SubSeq(d, 1, n) /\ sending' = SubSeq(d, n + 1, Len(d))
    BY <2>1, <2>2 DEF Flowing
  <2>5. \E op \in {"none", "writeComplete"} : Moves(1, op)
    <3>1. CASE pending' = pending
      BY <1>2, <3>1, QueueTake DEF Inv
    <3>2. CASE pending' = Append(pending, Functor("writeComplete"))
      BY <1>2, <3>2, QueueTakeAppend, FunctorTypes DEF Inv, Ops
    <3>3. QED
      BY <2>1, <3>1, <3>2
  <2>6. /\ Placed(sock.wire, 0) /\ Placed(d, a) /\ Lined(Queued', a + Len(d), accepted)
    BY <1>8, <2>2, <2>5
  <2>7. Len(output) = 0 /\ a = w
    BY <1>5, <2>3, EmptySeq
  <2>8. Writes(sock.wire, d, n, sock'.wire, sending')
    BY <1>3, <1>5, <2>4, <2>6, <2>7 DEF Writes, w
  <2>9. Placed(sock'.wire, 0)
    BY <2>8, PlacedMoves
  <2>10. Len(sock'.wire) = w + n
    BY <2>8, PlacedMoves DEF w
  <2>11. Placed(sending', Len(sock'.wire))
    BY <2>8, PlacedMoves
  <2>12. Len(sending') = Len(d) - n
    BY <2>8, PlacedMoves
  <2>13. (w + n) + 0 + (Len(d) - n) = w + Len(d) /\ (w + n) + 0 = w + n
    BY <1>3, <1>5
  <2>14. /\ Lined(Queued', Len(sock'.wire) + Len(output') + Len(sending'), accepted')
         /\ Placed(sending', Len(sock'.wire) + Len(output'))
    BY <1>1, <2>6, <2>7, <2>10, <2>11, <2>12, <2>13
  <2>15. Placed(output', Len(sock'.wire))
    BY <1>1, <2>3, EmptySeq DEF Placed
  <2>16. QED
    BY <1>1, <1>10, <2>9, <2>14, <2>15 DEF Later
<1>11. QED
  BY <1>3, <1>4, <1>6, <1>9, <1>10, Begin DEF Inv

LEMMA EndSendLater ==
  ASSUME Inv, Later, EndSend
  PROVE  Later'
<1>1. /\ output' = output \o sending /\ sending' = <<>>
      /\ pending' = pending \/ pending' = Append(pending, Functor("highWaterMark"))
      /\ UNCHANGED <<state_, sock, told, accepted, batch>>
  BY DEF EndSend, quietVars, loopVars
<1>2. SUFFICES ASSUME Flowing PROVE Later'
  BY <1>1 DEF Later, Flowing
<1>3. PICK op \in {"none", "highWaterMark"} : Moves(0, op)
  <2>1. CASE pending' = pending
    BY <1>1, <2>1, QueueSame DEF Inv, Queued
  <2>2. CASE pending' = Append(pending, Functor("highWaterMark"))
    BY <1>1, <2>2, QueueAppend, FunctorTypes DEF Inv, Ops
  <2>3. QED
    BY <1>1, <2>1, <2>2
<1> DEFINE a == Len(sock.wire) + Len(output) + Len(sending)
<1>4. /\ Placed(sock.wire, 0) /\ Placed(output, Len(sock.wire))
      /\ Placed(sending, Len(sock.wire) + Len(output)) /\ Lined(Queued, a, accepted)
  BY <1>2 DEF Later
<1>5. output \in Seq(Bytes) /\ sending \in Seq(Bytes)
  BY Lengths DEF Inv
<1>6. /\ Len(sock.wire) \in Nat /\ Len(output) \in Nat /\ Len(sending) \in Nat
      /\ accepted \in Nat /\ a \in Nat
  BY Lengths DEF Inv
<1>7. Len(output') = Len(output) + Len(sending) /\ Len(sending') = 0
  BY <1>1, <1>5, ConcatProperties, EmptySeq
<1>8. a = Len(sock.wire) + Len(output') + Len(sending')
  <2> DEFINE w == Len(sock.wire)
             l == Len(output)
             s == Len(sending)
  <2>1. w \in Nat /\ l \in Nat /\ s \in Nat /\ a = w + l + s
    BY <1>6
  <2>2. Len(output') = l + s
    BY <1>7
  <2> HIDE DEF w, l, s, a
  <2>3. w + l + s = w + (l + s) + 0
    BY <2>1
  <2>4. QED
    BY <1>7, <2>1, <2>2, <2>3 DEF w
<1> HIDE DEF a
<1>9. Lined(Queued', a, accepted)
  <2>1. Lined(Queued, a, accepted) /\ a \in Nat /\ accepted \in Nat
    BY <1>4, <1>6
  <2>2. QED
    BY <1>3, <2>1, LinedNone DEF Moves
<1>10. Placed(output', Len(sock.wire))
  BY <1>1, <1>4, <1>5, <1>6, PlacedConcat
<1>11. Placed(sending', Len(sock.wire) + Len(output'))
  BY <1>1, EmptySeq DEF Placed
<1>12. QED
  BY <1>1, <1>4, <1>8, <1>9, <1>10, <1>11 DEF Later

LEMMA SendLater ==
  ASSUME Inv, Later, NEW len \in 1..MaxLen, Send(len), ~inLoop
  PROVE  Later'
<1> DEFINE d == [i \in 1..len |-> accepted + i]
           g == [i \in 1..len |-> Garbage]
<1>1. /\ accepted' = accepted + len /\ accepted + len <= MaxBytes
      /\ UNCHANGED <<sending, sock, state_, output, told, batch>>
      /\ \E data \in {d, g} : pending' = Append(pending, [op |-> "sendInLoop", data |-> data])
  BY DEF Send, loopVars
<1>2. /\ len \in Nat /\ accepted \in Nat /\ MaxBytes \in Nat
      /\ TypeOK
  BY SizesAssumption DEF Inv, TypeOK
<1>3. PICK data \in {d, g} : pending' = Append(pending, [op |-> "sendInLoop", data |-> data])
  BY <1>1
<1>4. data \in Seq(Bytes) /\ Len(data) = len /\ Placed(data, accepted)
  <2>1. \A i \in 1..len : accepted + i \in Bytes /\ Garbage \in Bytes
    BY <1>1, <1>2 DEF Bytes, Garbage
  <2>2. data \in [1..len -> Bytes] /\ DOMAIN data = 1..len
    BY <2>1
  <2>3. data \in Seq(Bytes)
    BY <1>2, <2>2, IsASeq
  <2>4. Len(data) = len
    BY <1>2, <2>2, <2>3, LenProperties
  <2>5. QED
    BY <2>2, <2>3, <2>4 DEF Placed
<1> HIDE DEF d, g
<1> DEFINE f == [op |-> "sendInLoop", data |-> data]
<1>5. f \in Functors /\ f.op = "sendInLoop" /\ f.data = data
  BY <1>4 DEF Functors, Ops
<1>6. pending' = Append(pending, f)
  BY <1>3
<1> HIDE DEF f
<1>7. Moves(0, "sendInLoop")
  BY <1>1, <1>2, <1>5, <1>6, QueueAppend
<1>8. Queued'[Len(Queued')] = f
  <2>1. Queued \in Seq(Functors) /\ Queued' = Append(Queued, f)
    BY <1>1, <1>2, <1>5, <1>6, ConcatProperties, ConcatAppend DEF TypeOK, Queued
  <2>2. QED
    BY <1>5, <2>1, AppendProperties
<1>9. Size(f) = len /\ Fits(f, accepted)
  BY <1>4, <1>5 DEF Size, Fits
<1>10. SUFFICES ASSUME Flowing
                PROVE  Lined(Queued', Len(sock.wire) + Len(output) + Len(sending), accepted + len)
  BY <1>1 DEF Later, Flowing
<1> DEFINE a == Len(sock.wire) + Len(output) + Len(sending)
<1>11. a \in Nat /\ Lined(Queued, a, accepted)
  BY <1>2, <1>10, Lengths DEF Later
<1> HIDE DEF a
<1>12. Lined(Queued', a,
             IF "sendInLoop" = "none" THEN accepted ELSE accepted + Size(Queued'[Len(Queued')]))
  <2>1. Size(Queued'[Len(Queued')]) \in Nat /\ Fits(Queued'[Len(Queued')], accepted)
    BY <1>2, <1>8, <1>9
  <2>2. QED
    BY <1>2, <1>7, <1>11, <2>1, LinedMoves DEF Moves
<1>13. QED
  BY <1>8, <1>9, <1>12 DEF a

(* A step in which the queue stays as it is. *)
LEMMA LaterStays ==
  ASSUME Inv, Later, Queued' = Queued, sock'.wire = sock.wire, Flowing' => Flowing,
         state_' = "kDisconnected" => told'.down > 0,
         UNCHANGED <<output, sending, accepted>>
  PROVE  Later'
BY QueueSame, LaterAside DEF Inv

LEMMA LoopStepLater ==
  ASSUME Inv, Later, ~inLoop,
         Poll \/ EventDone \/ FunctorsDone \/ HandleError \/ HandleHup \/ HandleRead
  PROVE  Later'
<1> USE DEF quietVars, serverVars, connVars
<1>1. Queued' = Queued
  <2>1. \/ pending' = pending /\ batch' = batch
        \/ batch = <<>> /\ batch' = pending /\ pending' = <<>>
    BY DEF Poll, EventDone, FunctorsDone, HandleError, HandleHup, HandleRead, NextCallback,
           Inv, TypeOK
  <2>2. QED
    BY <2>1, QueueStays DEF Inv
<1>2. /\ sock'.wire = sock.wire /\ sock'.fin = sock.fin /\ sock'.reset = sock.reset
      /\ UNCHANGED <<output, sending, accepted>>
  <2>1. \/ sock' = sock
        \/ sock' = [sock EXCEPT !.err = FALSE]
        \/ sock' = [sock EXCEPT !.unread = FALSE]
    BY DEF Poll, EventDone, FunctorsDone, HandleError, HandleHup, HandleRead
  <2>2. sock \in Sockets
    BY DEF Inv, TypeOK
  <2>3. UNCHANGED <<output, sending, accepted>>
    BY DEF Poll, EventDone, FunctorsDone, HandleError, HandleHup, HandleRead
  <2>4. QED
    BY <2>1, <2>2, <2>3 DEF Sockets
<1>3. \/ state_' = state_ /\ told' = told
      \/ state_' = "kDisconnected" /\ told' = [told EXCEPT !.down = @ + 1]
  BY DEF Poll, EventDone, FunctorsDone, HandleError, HandleHup, HandleRead, HandleClose
<1>4. state_' = "kDisconnected" => told'.down > 0
  <2>1. told \in [up : 0..1, down : Nat, close : Nat, high : BOOLEAN]
    BY DEF Inv, TypeOK
  <2>2. QED
    BY <1>3, <2>1 DEF Later
<1>5. Flowing' => Flowing
  BY <1>2, <1>3 DEF Flowing
<1>6. QED
  BY <1>1, <1>2, <1>4, <1>5, LaterStays

LEMMA FunctorLater ==
  ASSUME Inv, Later, ~inLoop,
         RunEstablished \/ RunShutdown \/ RunCallback \/ RunRemove \/ RunDestroyed
  PROVE  Later'
<1> USE DEF quietVars, serverVars, connVars
<1>1. PICK op \in {"connectEstablished", "shutdownInLoop", "writeComplete", "highWaterMark",
                   "removeConnection", "connectDestroyed"} : Take(op)
  BY DEF RunEstablished, RunShutdown, RunCallback, RunRemove, RunDestroyed
<1>2. batch # <<>> /\ batch' = Tail(batch) /\ Head(batch).op = op
  BY <1>1, TakeIs DEF Inv
<1>3. \/ pending' = pending
      \/ pending' = Append(pending, Functor("connectDestroyed"))
  BY DEF RunEstablished, RunShutdown, RunCallback, RunRemove, RunDestroyed
<1>4. Queued[1].op = op /\ \E o \in {"none", "connectDestroyed"} : Moves(1, o)
  <2>1. CASE pending' = pending
    BY <1>2, <2>1, QueueTake DEF Inv
  <2>2. CASE pending' = Append(pending, Functor("connectDestroyed"))
    BY <1>2, <2>2, QueueTakeAppend, FunctorTypes DEF Inv, Ops
  <2>3. QED
    BY <1>3, <2>1, <2>2
<1>5. PICK o \in {"none", "connectDestroyed"} : Moves(1, o)
  BY <1>4
<1>6. /\ sock'.wire = sock.wire /\ sock'.reset = sock.reset /\ (sock.fin => sock'.fin)
      /\ UNCHANGED <<output, sending, accepted>>
  <2>1. sock' = sock \/ sock' = ShutdownInLoop(channel_, sock)
    BY DEF RunEstablished, RunShutdown, RunCallback, RunRemove, RunDestroyed
  <2>2. UNCHANGED <<output, sending, accepted>>
    BY DEF RunEstablished, RunShutdown, RunCallback, RunRemove, RunDestroyed
  <2>3. QED
    BY <2>1, <2>2, ShutdownInLoopIs DEF Inv, TypeOK
<1>7. \/ state_' = state_ /\ told'.down = told.down
      \/ state_' = "kDisconnected" /\ told' = [told EXCEPT !.down = @ + 1]
      \/ state_' = "kConnected" /\ state_ = "kConnecting"
  <2>1. told \in [up : 0..1, down : Nat, close : Nat, high : BOOLEAN]
    BY DEF Inv, TypeOK
  <2>2. CASE RunEstablished
    <3>1. Queued[1].op = "connectEstablished" /\ 1 \in DOMAIN Queued
      <4>1. Queued[1].op = "connectEstablished"
        BY <1>2, <1>4, <2>2, TakeIs DEF RunEstablished, Inv
      <4>2. QED
        BY <1>5, <4>1 DEF Moves, Moved
    <3>2. state_ = "kConnecting"
      BY <2>1, <3>1 DEF Inv, Fresh, Started, HasOp
    <3>3. QED
      BY <2>2, <3>2 DEF RunEstablished, Establish
  <2>3. CASE RunShutdown \/ RunRemove
    BY <2>3 DEF RunShutdown, RunRemove
  <2>4. CASE RunCallback
    BY <2>1, <2>4 DEF RunCallback
  <2>5. CASE RunDestroyed
    BY <2>5 DEF RunDestroyed, ConnectDestroyed
  <2>6. QED
    BY <2>2, <2>3, <2>4, <2>5
<1>8. state_' = "kDisconnected" => told'.down > 0
  <2>1. told \in [up : 0..1, down : Nat, close : Nat, high : BOOLEAN]
    BY DEF Inv, TypeOK
  <2>2. QED
    BY <1>7, <2>1 DEF Later
<1>9. Flowing' => Flowing
  BY <1>6, <1>7 DEF Flowing
<1>10. QED
  BY <1>4, <1>5, <1>6, <1>8, <1>9, LaterAside DEF Inv

LEMMA UserLater ==
  ASSUME Inv, Later, ~inLoop, UserReturn \/ Shutdown \/ ForeignTest \/ Peer
  PROVE  Later'
<1> USE DEF quietVars, serverVars, connVars, loopVars
<1>1. \/ pending' = pending
      \/ \E op \in {"removeConnection", "shutdownInLoop"} : pending' = Append(pending, Functor(op))
  BY DEF UserReturn, CloseCallback, Shutdown, ForeignTest, Peer
<1>2. batch' = batch /\ UNCHANGED <<output, sending, accepted>>
  BY DEF UserReturn, Shutdown, ForeignTest, Peer
<1>3. \E op \in {"none", "removeConnection", "shutdownInLoop"} : Moves(0, op)
  <2>1. CASE pending' = pending
    BY <1>2, <2>1, QueueSame DEF Inv, Queued
  <2>2. ASSUME NEW op \in {"removeConnection", "shutdownInLoop"},
               pending' = Append(pending, Functor(op))
        PROVE  Moves(0, op)
    BY <1>2, <2>2, QueueAppend, FunctorTypes DEF Inv, Ops
  <2>3. QED
    BY <1>1, <2>1, <2>2
<1>4. PICK op \in {"none", "removeConnection", "shutdownInLoop"} : Moves(0, op)
  BY <1>3
<1>5. sock'.wire = sock.wire /\ sock'.fin = sock.fin /\ (sock.reset => sock'.reset)
  <2>1. sock \in Sockets
    BY DEF Inv, TypeOK
  <2>2. CASE Peer
    BY <2>1, <2>2 DEF Peer, PeerReads, PeerSends, PeerCloses, PeerResets, Sockets
  <2>3. CASE ~Peer
    BY <2>3 DEF UserReturn, Shutdown, ForeignTest
  <2>4. QED
    BY <2>2, <2>3
<1>6. /\ state_' = state_ \/ (state_ = "kConnected" /\ state_' = "kDisconnecting")
      /\ told'.down = told.down
  <2>1. told \in [up : 0..1, down : Nat, close : Nat, high : BOOLEAN]
    BY DEF Inv, TypeOK
  <2>2. told' = told \/ told' = [told EXCEPT !.close = @ + 1]
    BY DEF UserReturn, Shutdown, ForeignTest, Peer
  <2>3. state_' = state_ \/ (state_ = "kConnected" /\ state_' = "kDisconnecting")
    BY DEF UserReturn, Shutdown, ForeignTest, Peer
  <2>4. QED
    BY <2>1, <2>2, <2>3
<1>7. QED
  BY <1>2, <1>4, <1>5, <1>6, LaterAside DEF Inv, Later, Flowing

LEMMA NextLater == Inv /\ LineLater /\ [Next]_vars => LineLater'
<1>1. SUFFICES ASSUME Inv, LineLater, [Next]_vars, ~inLoop', ~MayRevive'
               PROVE  Later'
  BY DEF LineLater
<1> USE DEF vars, quietVars, serverVars, connVars, loopVars
<1>2. ~inLoop /\ ~MayRevive
  <2>1. inLoop' = inLoop
    BY <1>1 DEF Next, Loop, User, Handlers, RunFunctor, NewConnection, Poll, HandleHup, HandleError,
       HandleRead, HandleWrite, EventDone, RunEstablished, RunSend, RunShutdown, RunCallback,
       RunRemove, RunDestroyed, FunctorsDone, EndSend, UserReturn, Send, Shutdown, ForeignTest,
       ServerDestroyed, ForeignShutdown, Peer
  <2>2. foreign \in {"set", "done"} => foreign' \in {"set", "done"}
    BY <1>1 DEF Next, Loop, User, Handlers, RunFunctor, NewConnection, Poll, HandleHup, HandleError,
       HandleRead, HandleWrite, EventDone, RunEstablished, RunSend, RunShutdown, RunCallback,
       RunRemove, RunDestroyed, FunctorsDone, EndSend, UserReturn, Send, Shutdown, ForeignTest,
       ServerDestroyed, ForeignShutdown, Peer
  <2>3. QED
    BY <1>1, <2>1, <2>2 DEF MayRevive
<1>3. Later
  BY <1>1, <1>2 DEF LineLater
<1>4. ~NewConnection /\ ~ServerDestroyed
  BY <1>2 DEF NewConnection, ServerDestroyed
<1>5. ~ForeignShutdown
  BY <1>1 DEF ForeignShutdown, MayRevive
<1>6. CASE Loop
  BY <1>1, <1>2, <1>3, <1>4, <1>6, LoopStepLater, HandleWriteLater, FunctorLater, RunSendLater,
     EndSendLater, UserLater DEF Loop, Handlers, RunFunctor
<1>7. CASE User \/ Peer
  BY <1>1, <1>2, <1>3, <1>4, <1>7, SendLater, UserLater DEF User
<1>8. CASE UNCHANGED vars
  <2>1. Queued' = Queued
    BY <1>8 DEF Queued
  <2>2. QED
    BY <1>1, <1>3, <1>8, <2>1, LaterStays DEF Flowing, Later
<1>9. QED
  BY <1>1, <1>5, <1>6, <1>7, <1>8 DEF Next

(* No byte is lost, doubled or overtaken on its way from send through       *)
(* outputBuffer_ to the wire; where runInLoop queues, neither on its way    *)
(* through pendingFunctors_.                                                *)
THEOREM InOrder == Spec => []WireInOrder
<1>1. Inv /\ LineLater => WireInOrder
  <2>1. SUFFICES ASSUME Inv, LineLater, ~MayRevive, NEW i \in DOMAIN sock.wire
                 PROVE  sock.wire[i] = i \/ (~inLoop /\ sock.wire[i] = Garbage)
    BY DEF WireInOrder
  <2>2. CASE inLoop
    BY <2>1, <2>2 DEF Inv, Line
  <2>3. CASE ~inLoop
    <3>1. sock.wire[i] \in {0 + i, Garbage} /\ i \in Nat
      BY <2>1, <2>3, Lengths, LenProperties DEF LineLater, Later, Placed, Inv
    <3>2. QED
      BY <2>3, <3>1
  <2>4. QED
    BY <2>2, <2>3
<1>2. Inv /\ LineLater /\ [Next]_vars => LineLater'
  BY NextLater
<1>3. QED
  BY <1>1, <1>2, InitLater, InvHolds, PTL DEF Spec
=============================================================================

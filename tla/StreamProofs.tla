---------------------------- MODULE StreamProofs ----------------------------
(***************************************************************************)
(* TcpConnection.tla implements Stream.tla, for every size and bound: each *)
(* of its actions is one of Stream's, or leaves what Stream speaks of as   *)
(* it is.  Besides Inv of TcpConnectionProofs.tla that takes Sound.        *)
(***************************************************************************)
EXTENDS TcpConnectionProofs

(* No more is on the wire than send() took, and the FIN is sent for a       *)
(* shutdown() only.                                                         *)
Sound ==
  inLoop /\ foreign = "idle" =>
    /\ Len(sock.wire) <= accepted
    /\ sock.fin => state_ \notin {"kConnecting", "kConnected"}

LEMMA InitSound == Init => Sound
BY EmptySeq DEF Init, Sound

-----------------------------------------------------------------------------
(* The phases of a connection.                                              *)

LEMMA PhaseIs ==
  Inv =>
    /\ destroyed => PhaseNow = "over"
    /\ ~destroyed /\ told.down > 0 => PhaseNow = "down"
    /\ ~destroyed /\ told.down = 0 /\ told.up = 1 /\ state_ = "kConnected" => PhaseNow = "up"
    /\ ~destroyed /\ told.down = 0 /\ told.up = 1 /\ state_ # "kConnected" => PhaseNow = "closing"
    /\ told.up = 0 => PhaseNow = "new"
BY DEF Inv, TypeOK, Fresh, PhaseNow

LEMMA PhaseBecomes ==
  Inv' =>
    /\ destroyed' => PhaseNow' = "over"
    /\ ~destroyed' /\ told'.down > 0 => PhaseNow' = "down"
    /\ ~destroyed' /\ told'.down = 0 /\ told'.up = 1 /\ state_' = "kConnected" => PhaseNow' = "up"
    /\ ~destroyed' /\ told'.down = 0 /\ told'.up = 1 /\ state_' # "kConnected" => PhaseNow' = "closing"
    /\ told'.up = 0 => PhaseNow' = "new"
BY DEF Inv, TypeOK, Fresh, PhaseNow

(* A step that leaves the phase, send() and the wire alone. *)
Aside ==
  /\ told'.up = told.up /\ told'.down = told.down /\ destroyed' = destroyed /\ state_' = state_
  /\ accepted' = accepted /\ sock'.wire = sock.wire /\ sock'.fin = sock.fin
  /\ inLoop' = inLoop /\ foreign' = foreign

(* A step that only leads from one phase to the next. *)
Passes ==
  /\ accepted' = accepted /\ sock'.wire = sock.wire /\ sock'.fin = sock.fin
  /\ inLoop' = inLoop /\ foreign' = foreign
  /\ state_' \in {"kConnecting", "kConnected"} => state_' = state_ \/ ~sock.fin

Implements == Sound' /\ [Output!Next]_(Output!vars)

LEMMA AsideImplements ==
  ASSUME Sound, Aside
  PROVE  Implements
<1>1. PhaseNow' = PhaseNow
  BY DEF Aside, PhaseNow
<1>2. UNCHANGED Output!vars
  BY <1>1 DEF Aside, Output!vars
<1>3. Sound'
  BY DEF Sound, Aside
<1>4. QED
  BY <1>2, <1>3 DEF Implements

LEMMA PassesImplements ==
  ASSUME Sound, Passes,
         \/ PhaseNow' = PhaseNow
         \/ PhaseNow = "new" /\ PhaseNow' = "up"
         \/ PhaseNow \in {"up", "closing"} /\ PhaseNow' = "down"
         \/ PhaseNow \in {"down", "closing"} /\ PhaseNow' = "over"
  PROVE  Implements
<1>1. Sound'
  BY DEF Sound, Passes
<1>2. UNCHANGED <<accepted, Len(sock.wire), sock.fin>>
  BY DEF Passes
<1>3. [Output!Next]_(Output!vars)
  BY <1>2 DEF Output!vars, Output!Next, Output!Up, Output!Down, Output!Over, Output!Move
<1>4. QED
  BY <1>1, <1>3 DEF Implements

-----------------------------------------------------------------------------
(* Establishing, closing and destroying.                                    *)

LEMMA EstablishImplements ==
  ASSUME Inv, Sound, Inv', NewConnection
  PROVE  Implements
<1>1. /\ state_ = "kConnecting" /\ Establish /\ told.up = 0
      /\ UNCHANGED <<quietVars, serverVars, sock>>
  BY DEF NewConnection, Inv, TypeOK, Started
<1>2. told'.up = 1 /\ told'.down = 0 /\ ~destroyed' /\ state_' = "kConnected"
  BY <1>1 DEF Inv, TypeOK, Fresh, Establish, serverVars
<1>3. PhaseNow = "new" /\ PhaseNow' = "up"
  BY <1>1, <1>2, PhaseIs, PhaseBecomes
<1>4. ~sock.fin
  BY <1>1 DEF NewConnection, Inv, Fresh, Sound
<1>5. QED
  BY <1>1, <1>3, <1>4, PassesImplements DEF Passes, quietVars

LEMMA TakenIsFirst ==
  ASSUME Inv, NEW op, Take(op)
  PROVE  Queued[1].op = op /\ 1 \in DOMAIN Queued /\ DOMAIN Queued = 1..Len(Queued)
<1>1. Queued \in Seq(Functors) /\ Queued # <<>> /\ Queued[1].op = op
  BY TakeIs, TailConcat DEF Inv, TypeOK, Queued
<1>2. QED
  BY <1>1, EmptySeq, LenProperties

(* Where runInLoop executes nothing of the connection is ever queued but    *)
(* callbacks and connectDestroyed.                                          *)
LEMMA NotTaken ==
  ASSUME Inv, inLoop,
         NEW op \in {"connectEstablished", "sendInLoop", "shutdownInLoop", "removeConnection"},
         Take(op)
  PROVE  FALSE
<1>1. Queued[1].op = op /\ 1 \in DOMAIN Queued /\ DOMAIN Queued = 1..Len(Queued)
  BY TakenIsFirst
<1>2. op # "connectEstablished"
  BY <1>1 DEF Inv, TypeOK, Fresh, Started, HasOp
<1>3. HasOp(BoundToThis \cup {"removeConnection"})
  BY <1>1, <1>2 DEF HasOp, BoundToThis
<1>4. Closing
  BY DEF Inv
<1>5. HasOp(BoundToThis \cup {"removeConnection"}) => ~inLoop
  BY <1>4 DEF Closing
<1>6. QED
  BY <1>3, <1>5

LEMMA CloseImplements ==
  ASSUME Inv, Sound, Inv', inLoop, NEW e \in {"hup", "in"}, NextCallback(e), HandleClose,
         UNCHANGED <<quietVars, serverVars, output, sending, at, batch, pending, sock>>
  PROVE  Implements
<1>1. told.up = 1 /\ ~destroyed /\ told.down = 0
  BY DEF Inv, TypeOK, NextCallback, Fresh, Dead, Down, MayRevive
<1>2. told'.down = 1 /\ ~destroyed' /\ state_' = "kDisconnected"
  BY <1>1 DEF HandleClose, Inv, TypeOK, serverVars
<1>3. PhaseNow \in {"up", "closing"} /\ PhaseNow' = "down"
  BY <1>1, <1>2, PhaseIs, PhaseBecomes
<1>4. QED
  BY <1>2, <1>3, PassesImplements DEF Passes, quietVars

LEMMA HandleReadImplements ==
  ASSUME Inv, Sound, Inv', inLoop, HandleRead
  PROVE  Implements
<1>1. CASE ~sock.unread /\ ~sock.err
  BY <1>1, CloseImplements DEF HandleRead
<1>2. CASE sock.unread \/ sock.err
  <2>1. /\ UNCHANGED <<state_, told, quietVars, serverVars>>
        /\ sock'.wire = sock.wire /\ sock'.fin = sock.fin
    BY <1>2 DEF HandleRead, Inv, TypeOK, Sockets
  <2>2. QED
    BY <2>1, AsideImplements DEF Aside, quietVars, serverVars
<1>3. QED
  BY <1>1, <1>2

LEMMA UserReturnImplements ==
  ASSUME Inv, Sound, Inv', UserReturn
  PROVE  Implements
<1>1. user # "none" /\ UNCHANGED <<quietVars, state_, sock>>
  BY DEF UserReturn, UserCode
<1>2. CASE user = "destroyed"
  <2>1. destroyed' = TRUE /\ told' = told /\ state_ # "kConnected" /\ told.up = 1
    BY <1>2 DEF UserReturn, Inv, TypeOK, Gone, Fresh
  <2>2. PhaseNow \in {"down", "closing", "over"} /\ PhaseNow' = "over"
    BY <2>1, PhaseIs, PhaseBecomes DEF Inv, TypeOK
  <2>3. QED
    BY <1>1, <2>2, PassesImplements DEF Passes, quietVars
<1>3. CASE user # "destroyed"
  <2>1. told'.up = told.up /\ told'.down = told.down /\ destroyed' = destroyed
    BY <1>3 DEF UserReturn, CloseCallback, Inv, TypeOK
  <2>2. QED
    BY <1>1, <2>1, AsideImplements DEF Aside, quietVars
<1>4. QED
  BY <1>2, <1>3

(* connectDestroyed, in its functor or called by ~TcpServer. *)
LEMMA DestroyedImplements ==
  ASSUME Inv, Sound, Inv', inLoop, RunDestroyed \/ ServerDestroyed
  PROVE  Implements
<1>1. ConnectDestroyed /\ UNCHANGED <<quietVars, sock>>
  BY DEF RunDestroyed, ServerDestroyed
<1>2. told.up = 1 /\ (state_ = "kConnected" \/ told.down > 0 \/ ServerDestroyed)
  <2>1. CASE RunDestroyed
    <3>1. Take("connectDestroyed")
      BY <2>1 DEF RunDestroyed
    <3>2. told.up = 1 /\ HasOp(Endings)
      BY <3>1, TakenIsFirst, TookUp DEF HasOp, Endings
    <3>3. told.close > 0 /\ told.close \in Nat /\ told.down \in Nat
      BY <3>2 DEF Inv, TypeOK, Closing
    <3>4. told.down > 0
      BY <3>3 DEF Inv, Closing
    <3>5. QED
      BY <3>2, <3>4
  <2>2. CASE ServerDestroyed
    BY <2>2 DEF ServerDestroyed, Inv, TypeOK, Fresh
  <2>3. QED
    BY <2>1, <2>2
<1>3. CASE state_ = "kConnected"
  <2>1. told.down = 0 /\ ~destroyed
    BY <1>3, ConnectedIs
  <2>2. told'.down = 1 /\ ~destroyed' /\ state_' = "kDisconnected"
    BY <1>1, <1>3, <2>1 DEF ConnectDestroyed, Inv, TypeOK
  <2>3. PhaseNow = "up" /\ PhaseNow' = "down"
    BY <1>2, <1>3, <2>1, <2>2, PhaseIs, PhaseBecomes
  <2>4. QED
    BY <1>1, <2>2, <2>3, PassesImplements DEF Passes, quietVars
<1>4. CASE state_ # "kConnected"
  <2>1. destroyed' = TRUE /\ UNCHANGED <<state_, told>>
    BY <1>1, <1>4 DEF ConnectDestroyed
  <2>2. PhaseNow \in {"down", "closing", "over"} /\ PhaseNow' = "over"
    BY <1>2, <1>4, <2>1, PhaseIs, PhaseBecomes DEF Inv, TypeOK
  <2>3. QED
    BY <1>1, <2>1, <2>2, PassesImplements DEF Passes, quietVars
<1>5. QED
  BY <1>3, <1>4

-----------------------------------------------------------------------------
(* Sending.                                                                 *)

(* In the loop's thread, with nothing in hand, what is not on the wire is   *)
(* in outputBuffer_.                                                        *)
LEMMA Left ==
  ASSUME Inv, inLoop, sending = <<>>, ~sock.reset, ~sock.fin
  PROVE  /\ accepted = Len(sock.wire) + Len(output)
         /\ Len(sock.wire) \in Nat /\ Len(output) \in Nat /\ accepted \in Nat
<1>1. accepted = Len(sock.wire) + Len(output) + 0
  BY EmptySeq DEF Inv, Line
<1>2. Len(sock.wire) \in Nat /\ Len(output) \in Nat /\ accepted \in Nat
  BY LenProperties, SizesAssumption DEF Inv, TypeOK, Sockets
<1>3. QED
  BY <1>1, <1>2

LEMMA WireGrows ==
  ASSUME TypeOK, NEW d \in Seq(Bytes), NEW n \in 0..Len(d),
         sock'.wire = sock.wire \o SubSeq(d, 1, n)
  PROVE  Len(sock'.wire) = Len(sock.wire) + n /\ Len(sock.wire) \in Nat /\ Len(d) \in Nat
<1>1. SubSeq(d, 1, n) \in Seq(Bytes) /\ Len(SubSeq(d, 1, n)) = n /\ Len(d) \in Nat
  BY Split
<1>2. sock.wire \in Seq(Bytes)
  BY DEF TypeOK, Sockets
<1>3. Len(sock.wire \o SubSeq(d, 1, n)) = Len(sock.wire) + Len(SubSeq(d, 1, n))
  BY <1>1, <1>2, ConcatProperties
<1>4. QED
  BY <1>1, <1>2, <1>3, LenProperties

LEMMA SendImplements ==
  ASSUME Inv, Sound, Inv', inLoop, foreign = "idle", NEW len \in 1..MaxLen, Send(len)
  PROVE  Implements
<1> DEFINE d == [i \in 1..len |-> accepted + i]
<1>1. /\ state_ = "kConnected" /\ accepted' = accepted + len /\ BeginSend(d)
      /\ accepted + len <= MaxBytes
      /\ UNCHANGED <<serverVars, inLoop, state_, told, foreign>>
  BY DEF Send
<1>2. accepted \in Nat /\ len \in Nat /\ accepted' \in Nat /\ MaxBytes \in Nat
  BY <1>1, SizesAssumption DEF Inv, TypeOK
<1>3. d \in Seq(Bytes) /\ Len(d) = len
  <2>1. d \in [1..len -> Bytes]
    BY <1>1, <1>2 DEF Bytes
  <2>2. d \in Seq(Bytes)
    BY <1>2, <2>1, IsASeq
  <2>3. QED
    BY <1>2, <2>2, LenProperties
<1> HIDE DEF d
<1>4. /\ sock'.fin = sock.fin
      /\ sock'.wire = sock.wire
           \/ \E n \in 0..len : sock'.wire = sock.wire \o SubSeq(d, 1, n)
  <2>1. CASE WriteNow(d)
    BY <1>3, <2>1, Write DEF Inv
  <2>2. QED
    BY <1>1, <1>3, <2>1, Begin DEF Inv
<1>5. Len(sock'.wire) \in Len(sock.wire)..accepted'
  <2>1. Len(sock.wire) \in Nat /\ Len(sock.wire) <= accepted
    BY LenProperties DEF Inv, TypeOK, Sockets, Sound
  <2>2. CASE sock'.wire = sock.wire
    BY <1>1, <1>2, <2>1, <2>2
  <2>3. CASE \E n \in 0..len : sock'.wire = sock.wire \o SubSeq(d, 1, n)
    <3>1. PICK n \in 0..len : Len(sock'.wire) = Len(sock.wire) + n
      BY <1>3, <2>3, WireGrows DEF Inv
    <3>2. QED
      BY <1>1, <1>2, <2>1, <3>1
  <2>4. QED
    BY <1>4, <2>2, <2>3
<1>6. PhaseNow = "up" /\ PhaseNow' = "up"
  <2>1. told.up = 1 /\ told.down = 0 /\ ~destroyed
    BY <1>1, ConnectedIs
  <2>2. QED
    BY <1>1, <2>1, PhaseIs, PhaseBecomes DEF serverVars
<1>7. Output!Send
  BY <1>1, <1>2, <1>4, <1>5, <1>6 DEF Output!Send
<1>8. Sound'
  BY <1>1, <1>4, <1>5 DEF Sound
<1>9. QED
  BY <1>7, <1>8 DEF Implements, Output!Next

LEMMA ShutdownImplements ==
  ASSUME Inv, Sound, Inv', inLoop, foreign = "idle", Shutdown
  PROVE  Implements
<1>1. /\ state_ = "kConnected" /\ state_' = "kDisconnecting" /\ sending = <<>>
      /\ sock' = ShutdownInLoop(channel_, sock)
      /\ UNCHANGED <<quietVars, serverVars, told>>
  BY DEF Shutdown, UserCode
<1>2. told.up = 1 /\ told.down = 0 /\ ~destroyed /\ ~sock.fin
  BY <1>1, ConnectedIs DEF Sound
<1>3. sock'.wire = sock.wire /\ sock'.fin \in BOOLEAN
      /\ (sock'.fin => ~isWriting(channel_) /\ ~sock.reset)
  BY <1>1, <1>2 DEF ShutdownInLoop, ShutdownWrite, Inv, TypeOK, Sockets
<1>4. Len(sock.wire) \in Nat /\ accepted \in Nat /\ Len(sock.wire) <= accepted
  BY LenProperties, SizesAssumption DEF Inv, TypeOK, Sockets, Sound
<1>5. sock'.fin => Len(sock.wire) = accepted
  <2>1. SUFFICES ASSUME sock'.fin PROVE Len(sock.wire) = accepted
    OBVIOUS
  <2>2. output = <<>>
    BY <1>2, <1>3, <2>1 DEF Inv, WriteInterest
  <2>3. accepted = Len(sock.wire) + Len(output)
    BY <1>1, <1>2, <1>3, <2>1, Left
  <2>4. QED
    BY <1>4, <2>2, <2>3, EmptySeq
<1>6. PhaseNow = "up" /\ PhaseNow' = "closing"
  BY <1>1, <1>2, PhaseIs, PhaseBecomes DEF serverVars
<1>7. Output!Close
  BY <1>1, <1>2, <1>3, <1>4, <1>5, <1>6 DEF Output!Close, quietVars
<1>8. Sound'
  BY <1>1, <1>3, <1>4 DEF Sound, quietVars
<1>9. QED
  BY <1>7, <1>8 DEF Implements, Output!Next

LEMMA HandleWriteImplements ==
  ASSUME Inv, Sound, Inv', inLoop, foreign = "idle", HandleWrite
  PROVE  Implements
<1>1. /\ sending = <<>> /\ told.up = 1 /\ ~destroyed
      /\ UNCHANGED <<quietVars, serverVars, state_, told>>
  BY DEF HandleWrite, NextCallback, Idle, Inv, TypeOK, Fresh, Dead
<1>2. PICK n \in 0..Len(output) :
        /\ sock'.wire = sock.wire \o SubSeq(output, 1, n)
        /\ sock.reset \/ sock.fin \/ ~isWriting(channel_) => n = 0
        /\ (n > 0 /\ n = Len(output)) \/ sock'.fin = sock.fin
  <2>1. PICK n \in 0..Len(output) :
          /\ sock'.wire = sock.wire \o SubSeq(output, 1, n)
          /\ sock.reset \/ sock.fin \/ ~isWriting(channel_) => n = 0
          /\ IF n > 0 /\ n = Len(output)
               THEN /\ channel_' = disableWriting(channel_)
                    /\ pending' = Append(pending, Functor("writeComplete"))
               ELSE UNCHANGED <<channel_, pending>> /\ sock'.fin = sock.fin
    BY HandleWriteIs DEF Inv
  <2>2. QED
    BY <2>1
<1>3. sock'.fin \in BOOLEAN /\ (sock'.fin => sock.fin \/ state_ = "kDisconnecting")
  <2>1. sock'.fin \in BOOLEAN
    BY DEF Inv, TypeOK, Sockets
  <2>2. state_ # "kDisconnecting" => sock'.fin = sock.fin
    BY DEF HandleWrite, Inv, TypeOK, Sockets
  <2>3. QED
    BY <2>1, <2>2
<1>4. Len(sock'.wire) = Len(sock.wire) + n /\ Len(sock.wire) \in Nat /\ Len(output) \in Nat
      /\ accepted \in Nat
  <2>1. TypeOK /\ output \in Seq(Bytes) /\ accepted \in Nat
    BY SizesAssumption DEF Inv, TypeOK
  <2>2. QED
    BY <1>2, <2>1, WireGrows
<1>5. CASE n = 0
  <2>1. SubSeq(output, 1, n) = <<>>
    BY <1>5, Split, EmptySeq DEF Inv, TypeOK
  <2>2. sock'.wire = sock.wire
    BY <1>2, <2>1, ConcatEmptySeq DEF Inv, TypeOK, Sockets
  <2>3. QED
    BY <1>1, <1>2, <1>5, <2>2, AsideImplements DEF Aside, quietVars, serverVars
<1>6. CASE n # 0
  <2>1. ~sock.reset /\ ~sock.fin /\ isWriting(channel_)
    BY <1>2, <1>6
  <2>2. accepted = Len(sock.wire) + Len(output)
    BY <1>1, <2>1, Left
  <2>3. Len(sock'.wire) \in Len(sock.wire)..accepted
        /\ (n = Len(output) => Len(sock'.wire) = accepted)
    BY <1>4, <2>2
  <2>4. told.down = 0
    <3>1. TypeOK /\ Down
      BY DEF Inv
    <3>2. told.down \in Nat
      BY <3>1 DEF TypeOK
    <3>3. ~(told.down > 0)
      BY <2>1, <3>1 DEF Down, MayRevive, isWriting
    <3>4. QED
      BY <3>2, <3>3
  <2>5. /\ state_ = "kConnected" => PhaseNow = "up" /\ PhaseNow' = "up"
        /\ state_ # "kConnected" => PhaseNow = "closing" /\ PhaseNow' = "closing"
    BY <1>1, <2>4, PhaseIs, PhaseBecomes DEF serverVars
  <2>6. Output!Send \/ Output!Close
    <3>1. CASE sock'.fin
      <4>1. PhaseNow = "closing" /\ PhaseNow' = "closing" /\ n = Len(output)
        BY <1>2, <1>3, <2>1, <2>5, <3>1
      <4>2. Output!Close
        BY <1>1, <1>3, <2>1, <2>3, <4>1 DEF Output!Close, quietVars
      <4>3. QED
        BY <4>2
    <3>2. CASE ~sock'.fin
      <4>1. sock'.fin = sock.fin /\ accepted' = accepted /\ PhaseNow' = PhaseNow
            /\ PhaseNow \in {"up", "closing"}
        <5>1. sock'.fin = sock.fin
          BY <2>1, <3>2 DEF Inv, TypeOK, Sockets
        <5>2. QED
          BY <1>1, <2>5, <5>1 DEF quietVars
      <4>2. Output!Send
        BY <1>4, <2>3, <4>1 DEF Output!Send
      <4>3. QED
        BY <4>2
    <3>3. QED
      BY <3>1, <3>2
  <2>7. Sound'
    BY <1>1, <1>3, <2>1, <2>3 DEF Sound, quietVars
  <2>8. QED
    BY <2>6, <2>7 DEF Implements, Output!Next
<1>7. QED
  BY <1>5, <1>6

-----------------------------------------------------------------------------
(* Every step.                                                              *)

LEMMA AsideSteps ==
  ASSUME Inv, Sound,
         \/ Poll \/ HandleError \/ EventDone \/ FunctorsDone \/ RunCallback \/ EndSend \/ Peer
         \/ UNCHANGED vars
  PROVE  Implements
<1> USE DEF quietVars, serverVars, connVars, loopVars
<1>1. CASE Poll \/ EventDone \/ FunctorsDone \/ EndSend \/ UNCHANGED vars
  BY <1>1, AsideImplements DEF Poll, EventDone, FunctorsDone, EndSend, vars, Aside
<1>2. CASE HandleError
  <2>1. sock'.wire = sock.wire /\ sock'.fin = sock.fin
    BY <1>2 DEF HandleError, Inv, TypeOK, Sockets
  <2>2. QED
    BY <1>2, <2>1, AsideImplements DEF HandleError, Aside
<1>3. CASE RunCallback
  <2>1. told'.up = told.up /\ told'.down = told.down
    BY <1>3 DEF RunCallback, Inv, TypeOK
  <2>2. QED
    BY <1>3, <2>1, AsideImplements DEF RunCallback, Aside
<1>4. CASE Peer
  <2>1. sock'.wire = sock.wire /\ sock'.fin = sock.fin
    BY <1>4 DEF Peer, PeerReads, PeerSends, PeerCloses, PeerResets, Inv, TypeOK, Sockets
  <2>2. QED
    BY <1>4, <2>1, AsideImplements DEF Peer, Aside
<1>5. QED
  BY <1>1, <1>2, <1>3, <1>4

LEMMA LoopQuiet == Loop => UNCHANGED quietVars
<1>1. Handlers => UNCHANGED quietVars
  BY DEF Handlers, HandleHup, HandleError, HandleRead, HandleWrite
<1>2. RunFunctor => UNCHANGED quietVars
  BY DEF RunFunctor, RunEstablished, RunSend, RunShutdown, RunCallback, RunRemove, RunDestroyed
<1>3. NewConnection \/ Poll \/ EventDone \/ FunctorsDone \/ EndSend \/ UserReturn
        => UNCHANGED quietVars
  BY DEF NewConnection, Poll, EventDone, FunctorsDone, EndSend, UserReturn
<1>4. QED
  BY <1>1, <1>2, <1>3 DEF Loop

(* Another thread's shutdown() lets Sound go; it never comes back to idle.  *)
LEMMA StepImplements ==
  ASSUME Inv, Sound, Inv', [Next]_vars, inLoop, foreign' = "idle"
  PROVE  Implements
<1>1. foreign = "idle" /\ ~ForeignTest /\ ~ForeignShutdown
  <2>1. ~ForeignTest /\ ~ForeignShutdown
    BY DEF ForeignTest, ForeignShutdown
  <2>2. CASE Loop
    <3>1. UNCHANGED quietVars
      BY <2>2, LoopQuiet
    <3>2. QED
      BY <2>1, <3>1 DEF quietVars
  <2>3. CASE User
    BY <2>1, <2>3 DEF User, quietVars, Send, Shutdown, ServerDestroyed
  <2>4. CASE Peer \/ UNCHANGED vars
    BY <2>1, <2>4 DEF Peer, vars, quietVars
  <2>5. QED
    BY <2>1, <2>2, <2>3, <2>4 DEF Next
<1>2. CASE Poll \/ HandleError \/ EventDone \/ FunctorsDone \/ RunCallback \/ EndSend \/ Peer
           \/ UNCHANGED vars
  BY <1>2, AsideSteps
<1>3. CASE RunEstablished \/ RunSend \/ RunShutdown \/ RunRemove
  BY <1>3, NotTaken DEF RunEstablished, RunSend, RunShutdown, RunRemove
<1>4. CASE NewConnection \/ HandleHup \/ HandleRead \/ UserReturn
  BY <1>4, EstablishImplements, CloseImplements, HandleReadImplements, UserReturnImplements
     DEF HandleHup
<1>5. CASE RunDestroyed \/ ServerDestroyed
  BY <1>5, DestroyedImplements
<1>6. CASE HandleWrite \/ Shutdown \/ \E len \in 1..MaxLen : Send(len)
  BY <1>1, <1>6, HandleWriteImplements, ShutdownImplements, SendImplements
<1>7. QED
  BY <1>1, <1>2, <1>3, <1>4, <1>5, <1>6 DEF Next, Loop, Handlers, RunFunctor, User

LEMMA InLoopStays == [Next]_vars => inLoop' = inLoop
<1>1. Loop => inLoop' = inLoop
  BY LoopQuiet DEF quietVars
<1>2. User \/ ForeignShutdown \/ Peer \/ UNCHANGED vars => inLoop' = inLoop
  BY DEF User, Send, Shutdown, ForeignTest, ServerDestroyed, ForeignShutdown, Peer, vars, quietVars
<1>3. QED
  BY <1>1, <1>2 DEF Next

(* Whatever the sizes, a connection whose user is in the loop's thread is   *)
(* the Stream that it promises to be: sendInLoop, handleWrite, shutdown,    *)
(* handleClose and connectDestroyed, until another thread calls shutdown(). *)
THEOREM ConnectionIsStream == Spec => Promise
<1>1. Init => Output!Init
  BY EmptySeq DEF Init, Output!Init, PhaseNow
<1>2. Inv /\ Inv' /\ Sound /\ [Next]_vars => Sound'
  <2>1. SUFFICES ASSUME Inv, Inv', Sound, [Next]_vars, inLoop', foreign' = "idle"
                 PROVE  Sound'
    BY DEF Sound
  <2>2. inLoop
    BY <2>1, InLoopStays
  <2>3. QED
    BY <2>1, <2>2, StepImplements DEF Implements
<1>3. Inv /\ Inv' /\ Sound /\ [Next]_vars
        => (inLoop /\ foreign' = "idle" => [Output!Next]_(Output!vars))
  BY StepImplements DEF Implements
<1>4. (inLoop /\ foreign' = "idle" => [Output!Next]_(Output!vars))
        => [inLoop /\ foreign' = "idle" => [Output!Next]_(Output!vars)]_vars
  OBVIOUS
<1>5. QED
  BY <1>1, <1>2, <1>3, <1>4, InitInv, InitSound, NextInv, PTL DEF Spec, Promise
=============================================================================

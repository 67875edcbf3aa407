--------------------------- MODULE TcpConnection ---------------------------
(***************************************************************************)
(* One TcpConnection of a TcpServer that has no pool threads, from         *)
(* newConnection to connectDestroyed: TcpConnection.cc, what Channel.cc    *)
(* and TcpServer.cc do for it, and the loop it lives in.  The connection's *)
(* loop is the server's own; other threads may call shutdown.              *)
(*                                                                         *)
(* Bytes given to send() are numbered from 1; a byte that sendInLoop reads *)
(* from a string that is no longer there is Garbage.  Bytes received are   *)
(* counted by arrivals only.                                               *)
(*                                                                         *)
(* inLoop is what a test of isInLoopThread() says in the loop's thread,    *)
(* see EventLoop.tla: FALSE when the low byte of its id is 0, and then     *)
(* runInLoop queues.  For the other thread it is TRUE.  The write to a     *)
(* socket that was reset returns an error: SIGPIPE is ignored.             *)
(*                                                                         *)
(* BeginSendAlways, ShutdownInLoopAnyway, HandleWriteOn, HandleReadDeaf,   *)
(* ConnectDestroyedTwice, CloseCallbackAtOnce, EventDoneEarly and          *)
(* WriteCompleteNever are seeded faults, each of the definition that       *)
(* follows.                                                                *)
(***************************************************************************)
EXTENDS Naturals, Sequences, Channel

CONSTANTS
  highWaterMark_,
  SendSpace,     (* bytes the kernel's send buffer holds *)
  MaxLen,        (* bound: bytes of one send() *)
  MaxBytes,      (* bound: bytes of all send()s *)
  MaxArrivals    (* bound: times that data arrives *)

ASSUME SizesAssumption ==
  /\ highWaterMark_ \in Nat /\ SendSpace \in Nat \ {0}
  /\ MaxLen \in Nat /\ MaxBytes \in Nat /\ MaxArrivals \in Nat

VARIABLES
  inLoop,
  state_,
  channel_,
  output,        (* outputBuffer_'s readable bytes *)
  sending,       (* in sendInLoop, after write: the bytes that are left *)
  at,            (* "poll", "event" or "functors" *)
  todo,          (* callbacks that handleEventWithGuard has still to call *)
  batch,         (* functors of the drain in progress *)
  pending,       (* pendingFunctors_ *)
  user,          (* the user's callback that is being run, see Callbacks *)
  sock,          (* the kernel's side of the socket, see Sockets *)
  accepted,      (* history: bytes that send() took *)
  told,          (* history: calls of connectionCallback_ and closeCallback_, *)
                 (* and whether highWaterMarkCallback_ has been called since  *)
                 (* the last writeComplateCallback_                           *)
  connections_,  (* whether TcpServer::connections_ "holds" the connection, *)
                 (* it is "erased", or the server is "gone" *)
  foreign,       (* where another thread is in shutdown() *)
  destroyed      (* connectDestroyed has run *)

quietVars == <<inLoop, accepted, foreign>>
serverVars == <<connections_, destroyed>>
connVars == <<state_, channel_, output, sending>>
loopVars == <<at, todo, batch>>
vars == <<quietVars, serverVars, connVars, loopVars, pending, user, sock, told>>

StateE == {"kDisconnected", "kConnecting", "kConnected", "kDisconnecting"}

Garbage == 0
Bytes == 0..MaxBytes

(* "down" is connectionCallback_ called by handleClose, "destroyed" by      *)
(* connectDestroyed.                                                        *)
Callbacks == {"none", "up", "message", "down", "destroyed", "writeComplete", "highWaterMark"}

Ops == {"connectEstablished", "sendInLoop", "shutdownInLoop", "removeConnection",
        "connectDestroyed", "writeComplete", "highWaterMark"}

Functors == [op : Ops, data : Seq(Bytes)]

Functor(op) == [op |-> op, data |-> <<>>]

(* space: what the send buffer has left; wire: all it ever took; unread:    *)
(* data has arrived; arrivals: how often; reset: the peer reset the         *)
(* connection; err: the socket's pending error; peerFin, fin: the two FINs. *)
Sockets ==
  [space : 0..SendSpace, wire : Seq(Bytes), unread : BOOLEAN, arrivals : 0..MaxArrivals,
   reset : BOOLEAN, err : BOOLEAN, peerFin : BOOLEAN, fin : BOOLEAN]

Init ==
  /\ inLoop \in BOOLEAN
  /\ state_ = "kConnecting"
  /\ channel_ = NewChannel
  /\ output = <<>> /\ sending = <<>>
  /\ at = "poll" /\ todo = {} /\ batch = <<>>
  /\ pending = IF inLoop THEN <<>> ELSE <<Functor("connectEstablished")>>
  /\ user = "none"
  /\ sock = [space |-> SendSpace, wire |-> <<>>, unread |-> FALSE, arrivals |-> 0,
             reset |-> FALSE, err |-> FALSE, peerFin |-> FALSE, fin |-> FALSE]
  /\ accepted = 0
  /\ told = [up |-> 0, down |-> 0, close |-> 0, high |-> FALSE]
  /\ connections_ = "holds"
  /\ foreign = "idle"
  /\ destroyed = FALSE

-----------------------------------------------------------------------------
(* send.                                                                    *)

WriteCompleteNever(q) == q

(* writeComplateCallback_ is queued. *)
WriteComplete(q) == Append(q, Functor("writeComplete"))

(* ::write of d.  An error is EPIPE or ECONNRESET, and faultError says so,  *)
(* unless errno, read again after LOG_ERROR, has changed in between.        *)
WriteNow(d) ==
  IF sock.reset \/ sock.fin
    THEN /\ sending' \in {<<>>, d}
         /\ sock' = [sock EXCEPT !.err = FALSE]
         /\ UNCHANGED pending
    ELSE LET n == IF Len(d) < sock.space THEN Len(d) ELSE sock.space
         IN  /\ sock' = [sock EXCEPT !.space = @ - n, !.wire = @ \o SubSeq(d, 1, n)]
             /\ sending' = SubSeq(d, n + 1, Len(d))
             /\ pending' = IF n = Len(d) THEN WriteComplete(pending) ELSE pending

BeginSendAlways(d) ==
  IF state_ = "kDisconnected"
    THEN UNCHANGED <<sending, sock, pending>>
    ELSE WriteNow(d)

(* sendInLoop, as far as its write. *)
BeginSend(d) ==
  IF state_ = "kDisconnected"
    THEN UNCHANGED <<sending, sock, pending>>
    ELSE IF ~isWriting(channel_) \/ output = <<>>
           THEN WriteNow(d)
           ELSE sending' = d /\ UNCHANGED <<sock, pending>>

(* The rest of sendInLoop: what was not written is kept, and the channel    *)
(* made to wait for EPOLLOUT.                                               *)
EndSend ==
  /\ sending # <<>>
  /\ pending' = IF Len(output) < highWaterMark_
                     /\ Len(output) + Len(sending) >= highWaterMark_
                  THEN Append(pending, Functor("highWaterMark"))
                  ELSE pending
  /\ output' = output \o sending
  /\ channel_' = IF isWriting(channel_) THEN channel_ ELSE enableWriting(channel_)
  /\ sending' = <<>>
  /\ UNCHANGED <<quietVars, serverVars, loopVars, state_, user, sock, told>>

(* The user's code, in a callback in the loop's thread. *)
UserCode == user # "none" /\ sending = <<>>

(* send.  A queued sendInLoop is bound to buf.c_str(): it finds the bytes   *)
(* only when the caller's string is still there.                            *)
Send(len) ==
  /\ UserCode
  /\ state_ = "kConnected"
  /\ accepted + len <= MaxBytes
  /\ accepted' = accepted + len
  /\ LET d == [i \in 1..len |-> accepted + i]
     IN  IF inLoop
           THEN BeginSend(d)
           ELSE /\ \E data \in {d, [i \in 1..len |-> Garbage]} :
                     pending' = Append(pending, [op |-> "sendInLoop", data |-> data])
                /\ UNCHANGED <<sending, sock>>
  /\ UNCHANGED <<serverVars, loopVars, inLoop, state_, channel_, output, user, told,
                 foreign>>

-----------------------------------------------------------------------------
(* shutdown.                                                                *)

(* socket_->shutdownWrite(), which fails on a socket that was reset. *)
ShutdownWrite(s) == [s EXCEPT !.fin = @ \/ ~s.reset]

ShutdownInLoopAnyway(c, s) == ShutdownWrite(s)

(* shutdownInLoop: what the socket is after it. *)
ShutdownInLoop(c, s) == IF isWriting(c) THEN s ELSE ShutdownWrite(s)

Shutdown ==
  /\ UserCode
  /\ state_ = "kConnected"
  /\ state_' = "kDisconnecting"
  /\ IF inLoop
       THEN sock' = ShutdownInLoop(channel_, sock) /\ UNCHANGED pending
       ELSE pending' = Append(pending, Functor("shutdownInLoop")) /\ UNCHANGED sock
  /\ UNCHANGED <<quietVars, serverVars, loopVars, channel_, output, sending, user, told>>

(* The same in another thread: its test, ... *)
ForeignTest ==
  /\ foreign = "idle" /\ state_ = "kConnected"
  /\ foreign' = "tested"
  /\ UNCHANGED <<serverVars, connVars, loopVars, inLoop, pending, user, sock, accepted,
                 told>>

(* ... its setState, and its shutdownInLoop, which runInLoop executes there. *)
ForeignShutdown ==
  /\ \/ /\ foreign = "tested"
        /\ foreign' = "set"
        /\ state_' = "kDisconnecting"
        /\ UNCHANGED sock
     \/ /\ foreign = "set"
        /\ foreign' = "done"
        /\ sock' = ShutdownInLoop(channel_, sock)
        /\ UNCHANGED state_
  /\ UNCHANGED <<serverVars, loopVars, inLoop, channel_, output, sending, pending, user,
                 accepted, told>>

-----------------------------------------------------------------------------
(* Establishing, closing and destroying.                                    *)

Idle == user = "none" /\ sending = <<>>

(* connectEstablished, up to its callback.  (tie_ keeps the connection      *)
(* alive through each handleEvent.)                                         *)
Establish ==
  /\ state_' = "kConnected"
  /\ channel_' = enableReading(channel_)
  /\ user' = "up"
  /\ told' = [told EXCEPT !.up = @ + 1]

(* newConnection's runInLoop, in the handler of the acceptor's channel. *)
NewConnection ==
  /\ inLoop /\ Idle
  /\ at = "poll" /\ state_ = "kConnecting"
  /\ Establish
  /\ UNCHANGED <<quietVars, serverVars, loopVars, output, sending, pending, sock>>

(* handleClose, up to its connectionCallback_. *)
HandleClose ==
  /\ state_' = "kDisconnected"
  /\ channel_' = disableAll(channel_)
  /\ user' = "down"
  /\ told' = [told EXCEPT !.down = @ + 1]

ConnectDestroyedTwice ==
  /\ state_' = "kDisconnected"
  /\ channel_' = disableAll(channel_)
  /\ user' = "destroyed"
  /\ told' = [told EXCEPT !.down = @ + 1]
  /\ UNCHANGED destroyed

(* connectDestroyed: up to its callback when state_ is kConnected, else all. *)
ConnectDestroyed ==
  IF state_ = "kConnected"
    THEN /\ state_' = "kDisconnected"
         /\ channel_' = disableAll(channel_)
         /\ user' = "destroyed"
         /\ told' = [told EXCEPT !.down = @ + 1]
         /\ UNCHANGED destroyed
    ELSE /\ channel_' = removeChannel(channel_)
         /\ destroyed' = TRUE
         /\ UNCHANGED <<state_, user, told>>

CloseCallbackAtOnce ==
  /\ channel_' = removeChannel(channel_)
  /\ connections_' = "erased"
  /\ destroyed' = TRUE
  /\ UNCHANGED pending

(* closeCallback_ is TcpServer::removeConnection, whose runInLoop either    *)
(* calls removeConnectionInLoop or queues it; that queues connectDestroyed. *)
CloseCallback ==
  /\ IF inLoop
       THEN /\ connections_' = "erased"
            /\ pending' = Append(pending, Functor("connectDestroyed"))
       ELSE /\ pending' = Append(pending, Functor("removeConnection"))
            /\ UNCHANGED connections_
  /\ UNCHANGED <<channel_, destroyed>>

(* The user's callback returns, and its caller goes on. *)
UserReturn ==
  /\ UserCode
  /\ user' = "none"
  /\ CASE user = "down" ->
            CloseCallback /\ told' = [told EXCEPT !.close = @ + 1]
       [] user = "destroyed" ->
            /\ channel_' = removeChannel(channel_)
            /\ destroyed' = TRUE
            /\ UNCHANGED <<pending, connections_, told>>
       [] OTHER -> UNCHANGED <<pending, connections_, channel_, destroyed, told>>
  /\ UNCHANGED <<quietVars, loopVars, state_, output, sending, sock>>

(* ~TcpServer, called by another handler of the loop's thread.  When its    *)
(* runInLoop queues, the server is assumed to outlive the connection.       *)
ServerDestroyed ==
  /\ inLoop /\ Idle
  /\ at = "poll" /\ state_ # "kConnecting"
  /\ connections_ = "holds"
  /\ connections_' = "gone"
  /\ ConnectDestroyed
  /\ UNCHANGED <<quietVars, loopVars, output, sending, pending, sock>>

-----------------------------------------------------------------------------
(* One iteration of the loop.                                               *)

(* What epoll_wait reports of the descriptor.  EPOLLHUP and EPOLLERR need   *)
(* no registered interest.                                                  *)
Revents ==
  LET s == sock
      can == {e \in Events : IF e = "in" THEN s.unread \/ s.peerFin \/ s.reset
                                         ELSE s.space > 0 \/ s.fin \/ s.reset}
      hup == IF s.reset \/ (s.peerFin /\ s.fin) THEN {"hup"} ELSE {}
      err == IF s.err THEN {"err"} ELSE {}
  IN  IF channel_.registered THEN (can \cap channel_.interest) \cup hup \cup err ELSE {}

(* epoll_wait returns, for this descriptor or for something else.  (A       *)
(* behaviour of an inLoop connection begins where newConnection is called.) *)
Poll ==
  /\ Idle /\ at = "poll"
  /\ inLoop => state_ # "kConnecting"
  /\ at' = "event"
  /\ todo' = IF "in" \in Revents THEN Revents \ {"hup"} ELSE Revents
  /\ UNCHANGED <<quietVars, serverVars, connVars, batch, pending, user, sock, told>>

(* handleEventWithGuard calls its callbacks in this order. *)
Order == <<"hup", "err", "in", "out">>

NextCallback(e) ==
  /\ Idle /\ at = "event" /\ e \in todo
  /\ \A i, j \in DOMAIN Order : Order[i] \in todo /\ Order[j] = e => i >= j
  /\ todo' = todo \ {e}

HandleHup ==
  /\ NextCallback("hup")
  /\ HandleClose
  /\ UNCHANGED <<quietVars, serverVars, output, sending, at, batch, pending, sock>>

(* handleError: SO_ERROR is read, and with that cleared. *)
HandleError ==
  /\ NextCallback("err")
  /\ sock' = [sock EXCEPT !.err = FALSE]
  /\ UNCHANGED <<quietVars, serverVars, connVars, at, batch, pending, user, told>>

HandleReadDeaf ==
  /\ NextCallback("in")
  /\ sock' = [sock EXCEPT !.unread = FALSE, !.err = FALSE]
  /\ user' = IF sock.unread THEN "message" ELSE "none"
  /\ UNCHANGED <<quietVars, serverVars, connVars, at, batch, pending, told>>

(* handleRead: there is data, or an error, or the end. *)
HandleRead ==
  /\ NextCallback("in")
  /\ CASE sock.unread ->
            /\ sock' = [sock EXCEPT !.unread = FALSE]
            /\ user' = "message"
            /\ UNCHANGED <<state_, channel_, told>>
       [] ~sock.unread /\ sock.err ->
            /\ sock' = [sock EXCEPT !.err = FALSE]
            /\ UNCHANGED <<state_, channel_, told, user>>
       [] ~sock.unread /\ ~sock.err ->
            HandleClose /\ UNCHANGED sock
  /\ UNCHANGED <<quietVars, serverVars, output, sending, at, batch, pending>>

HandleWriteOn ==
  /\ NextCallback("out")
  /\ LET n == IF sock.reset \/ sock.fin \/ ~isWriting(channel_) THEN 0
              ELSE IF Len(output) < sock.space THEN Len(output) ELSE sock.space
     IN  /\ sock' = [sock EXCEPT !.space = @ - n, !.wire = @ \o SubSeq(output, 1, n)]
         /\ output' = SubSeq(output, n + 1, Len(output))
         /\ channel_' = IF n > 0 /\ n = Len(output) THEN disableWriting(channel_) ELSE channel_
         /\ pending' = IF n > 0 /\ n = Len(output)
                         THEN WriteComplete(pending) ELSE pending
  /\ UNCHANGED <<quietVars, serverVars, state_, sending, at, batch, user, told>>

(* handleWrite, which does nothing when the channel is not writing or the   *)
(* write fails; once all is written it stops writing and, when shutdown()   *)
(* is waiting for that, sends the FIN.                                      *)
HandleWrite ==
  /\ NextCallback("out")
  /\ LET n == IF sock.reset \/ sock.fin \/ ~isWriting(channel_) THEN 0
              ELSE IF Len(output) < sock.space THEN Len(output) ELSE sock.space
         s == [sock EXCEPT !.space = @ - n, !.wire = @ \o SubSeq(output, 1, n)]
     IN  /\ output' = SubSeq(output, n + 1, Len(output))
         /\ IF n > 0 /\ n = Len(output)
              THEN /\ channel_' = disableWriting(channel_)
                   /\ pending' = WriteComplete(pending)
                   /\ sock' = IF state_ = "kDisconnecting"
                                THEN ShutdownInLoop(channel_', s) ELSE s
              ELSE /\ sock' = s
                   /\ UNCHANGED <<channel_, pending>>
  /\ UNCHANGED <<quietVars, serverVars, state_, sending, at, batch, user, told>>

EventDoneEarly ==
  /\ Idle /\ at = "event"
  /\ at' = "functors"
  /\ batch' = pending
  /\ pending' = <<>>
  /\ UNCHANGED <<quietVars, serverVars, connVars, todo, user, sock, told>>

(* doPendingFunctors takes the queue. *)
EventDone ==
  /\ Idle /\ at = "event" /\ todo = {}
  /\ at' = "functors"
  /\ batch' = pending
  /\ pending' = <<>>
  /\ UNCHANGED <<quietVars, serverVars, connVars, todo, user, sock, told>>

FunctorsDone ==
  /\ Idle /\ at = "functors" /\ batch = <<>>
  /\ at' = "poll"
  /\ UNCHANGED <<quietVars, serverVars, connVars, todo, batch, pending, user, sock, told>>

(* The next functor of the batch does op. *)
Take(op) ==
  /\ Idle /\ at = "functors"
  /\ batch # <<>> /\ Head(batch).op = op
  /\ batch' = Tail(batch)

RunEstablished ==
  /\ Take("connectEstablished")
  /\ Establish
  /\ UNCHANGED <<quietVars, serverVars, output, sending, at, todo, pending, sock>>

RunSend ==
  /\ Take("sendInLoop")
  /\ BeginSend(Head(batch).data)
  /\ UNCHANGED <<quietVars, serverVars, state_, channel_, output, at, todo, user, told>>

RunShutdown ==
  /\ Take("shutdownInLoop")
  /\ sock' = ShutdownInLoop(channel_, sock)
  /\ UNCHANGED <<quietVars, serverVars, connVars, at, todo, pending, user, told>>

RunCallback ==
  /\ \E c \in {"writeComplete", "highWaterMark"} :
       /\ Take(c)
       /\ user' = c
       /\ told' = [told EXCEPT !.high = (c = "highWaterMark")]
  /\ UNCHANGED <<quietVars, serverVars, connVars, at, todo, pending, sock>>

RunRemove ==
  /\ Take("removeConnection")
  /\ connections_' = "erased"
  /\ pending' = Append(pending, Functor("connectDestroyed"))
  /\ UNCHANGED <<quietVars, connVars, at, todo, user, sock, told, destroyed>>

RunDestroyed ==
  /\ Take("connectDestroyed")
  /\ ConnectDestroyed
  /\ UNCHANGED <<quietVars, output, sending, at, todo, pending, sock, connections_>>

RunFunctor ==
  RunEstablished \/ RunSend \/ RunShutdown \/ RunCallback \/ RunRemove \/ RunDestroyed

-----------------------------------------------------------------------------
(* The peer and the network.                                                *)

PeerReads ==
  /\ sock.space < SendSpace
  /\ sock' = [sock EXCEPT !.space = @ + 1]

PeerSends ==
  /\ sock.arrivals < MaxArrivals /\ ~sock.peerFin /\ ~sock.reset
  /\ sock' = [sock EXCEPT !.unread = TRUE, !.arrivals = @ + 1]

PeerCloses ==
  /\ ~sock.peerFin /\ ~sock.reset
  /\ sock' = [sock EXCEPT !.peerFin = TRUE]

PeerResets ==
  /\ ~sock.reset
  /\ sock' = [sock EXCEPT !.reset = TRUE, !.err = TRUE]

Peer ==
  /\ ~destroyed
  /\ PeerReads \/ PeerSends \/ PeerCloses \/ PeerResets
  /\ UNCHANGED <<quietVars, serverVars, connVars, loopVars, pending, user, told>>

-----------------------------------------------------------------------------
Handlers == HandleHup \/ HandleError \/ HandleRead \/ HandleWrite

Loop ==
  \/ NewConnection \/ Poll \/ Handlers \/ EventDone \/ RunFunctor \/ FunctorsDone
  \/ EndSend \/ UserReturn

User == (\E len \in 1..MaxLen : Send(len)) \/ Shutdown \/ ForeignTest \/ ServerDestroyed

Next == Loop \/ User \/ ForeignShutdown \/ Peer

(* Threads run, user code returns, and a peer that is there goes on         *)
(* reading.  Nobody has to send, shut down, close or reset.              *)
Fairness ==
  /\ WF_vars(Loop) /\ WF_vars(ForeignShutdown)
  /\ WF_vars(Peer /\ PeerReads)

Spec == Init /\ [][Next]_vars /\ Fairness

-----------------------------------------------------------------------------
(* Types; handlers are left over only in "event", functors in "functors". *)
TypeOK ==
  /\ inLoop \in BOOLEAN
  /\ state_ \in StateE
  /\ channel_ \in ChannelStates
  /\ output \in Seq(Bytes) /\ sending \in Seq(Bytes)
  /\ at \in {"poll", "event", "functors"}
  /\ todo \subseteq {"hup", "err", "in", "out"}
  /\ batch \in Seq(Functors) /\ pending \in Seq(Functors)
  /\ at # "event" => todo = {}
  /\ at # "functors" => batch = <<>>
  /\ user \in Callbacks
  /\ sock \in Sockets
  /\ accepted \in 0..MaxBytes
  /\ told \in [up : 0..1, down : Nat, close : Nat, high : BOOLEAN]
  /\ connections_ \in {"holds", "erased", "gone"}
  /\ foreign \in {"idle", "tested", "set", "done"}
  /\ destroyed \in BOOLEAN

(* Another thread's shutdown() tests state_ and then sets it, and so may    *)
(* overwrite a kDisconnected: a sendInLoop that is still queued then writes *)
(* and registers the channel anew, and the connection can close again.      *)
MayRevive == ~inLoop /\ foreign \in {"set", "done"}

(* What goes on the wire is what send() took, in order and from the start,  *)
(* whatever of it went through outputBuffer_.  Where send() queues, a byte  *)
(* may be Garbage instead.                                                  *)
WireInOrder ==
  ~MayRevive =>
    \A i \in DOMAIN sock.wire : sock.wire[i] = i \/ (~inLoop /\ sock.wire[i] = Garbage)

(* The channel's records agree with the kernel's, and while the connection  *)
(* is up EPOLLOUT is asked for exactly when outputBuffer_ has something.    *)
WriteInterest ==
  /\ Agrees(channel_)
  /\ destroyed => channel_.index = "kNew"
  /\ (told.up = 1 /\ told.down = 0 /\ ~destroyed) => (isWriting(channel_) <=> output # <<>>)

(* The user hears of the connection once at its start and once at its end,  *)
(* and of messages only in between.  The server is told after the user, and *)
(* a connection that is destroyed other than by ~TcpServer has told both.   *)
CallbackOrder ==
  ~MayRevive =>
    /\ told.close <= told.down /\ told.down <= told.up /\ told.up <= 1
    /\ user = "message" => told.up = 1 /\ told.down = 0
    /\ destroyed /\ connections_ # "gone" => told.close = 1

Queued == batch \o pending

(* Back-pressure: a user that stops sending when highWaterMarkCallback_ is  *)
(* called and goes on when writeComplateCallback_ is never waits for a      *)
(* drained buffer: behind the one, which goes through the queue, there is   *)
(* the other.                                                               *)
PausedHasOutput ==
  output = <<>> =>
    /\ told.high => \E j \in DOMAIN Queued : Queued[j].op = "writeComplete"
    /\ \A i \in DOMAIN Queued : Queued[i].op = "highWaterMark" =>
         \E j \in DOMAIN Queued : i < j /\ Queued[j].op = "writeComplete"

(* A functor bound to the bare `this' of the connection never outlives it. *)
NoDanglingThis ==
  destroyed => \A i \in DOMAIN Queued : Queued[i].op \notin {"sendInLoop", "shutdownInLoop"}

(* shutdown() ends: the FIN goes out, unless the connection ends first. *)
ShutdownEnds ==
  state_ = "kDisconnecting" ~> (sock.fin \/ sock.reset \/ state_ = "kDisconnected" \/ destroyed)

(* A connection that its peer has closed or reset is destroyed. *)
PeerCloseEnds == (sock.peerFin \/ sock.reset) ~> destroyed

(* That user goes on in the end, unless the connection ends first or an     *)
(* early FIN, see FinAfterAll, has every later write fail.                  *)
PressureEnds ==
  told.high ~> (~told.high \/ sock.fin \/ state_ = "kDisconnected" \/ destroyed)

(* The connection implements Stream where runInLoop finds the loop's thread *)
(* and no other thread calls shutdown().  Where send() queues, the FIN need *)
(* not be last: handleWrite may send it with a sendInLoop in the queue.     *)
PhaseNow ==
  CASE destroyed -> "over"
    [] ~destroyed /\ told.down > 0 -> "down"
    [] ~destroyed /\ told.down = 0 /\ told.up > 0 ->
         IF state_ = "kConnected" THEN "up" ELSE "closing"
    [] told.up = 0 -> "new"

Output ==
  INSTANCE Stream WITH
    phase <- PhaseNow, given <- accepted, sent <- Len(sock.wire), fin <- sock.fin

Promise ==
  Output!Init /\ [][inLoop /\ foreign' = "idle" => [Output!Next]_(Output!vars)]_vars

(* TcpConnection.cc:125 on shutdown: what is in the buffer can still be     *)
(* sent, and when that is done handleWrite calls shutdownInLoop.            *)
FinAfterAll ==
  [][~sock.fin /\ sock'.fin /\ state_ # "kDisconnected" => Len(sock'.wire) = accepted]_vars

(* testserver.cc:52 on a message: it is read from the buffer and sent out   *)
(* as the result.                                                           *)
WhatWasGivenIsSent == \A i \in DOMAIN sock.wire : sock.wire[i] # Garbage

(* TcpConnection.cc:145 on connectionCallback_: it is called when the       *)
(* connection is made and when it is broken.                                *)
DownIsReported == destroyed => told.down = 1
=============================================================================

----------------------------- MODULE TcpServer -----------------------------
(***************************************************************************)
(* A TcpServer with its Acceptor, its base loop, the loops of its pool,    *)
(* their pollers and several connections: TcpServer.cc, Acceptor.cc,       *)
(* EPollPoller.cc, and of EventLoop.cc and TcpConnection.cc what moves a   *)
(* connection from one thread to another.  What a connection sends is in   *)
(* TcpConnection.tla, how a loop is woken in EventLoop.tla.                *)
(*                                                                         *)
(* A handler or functor is cut into the accesses it makes to what threads  *)
(* share and the user callbacks it calls: todo[t] lists those that thread  *)
(* t still has to make, and the first of them is in progress.  A step      *)
(* completes it.  Two threads that are in one container at a time have     *)
(* undefined behaviour, after which nothing is said.                       *)
(*                                                                         *)
(* inLoop[t] is what isInLoopThread() says in thread t, see EventLoop.tla: *)
(* runInLoop executes at once where it holds and queues where it does not. *)
(*                                                                         *)
(* EnableReadingOnly, RemoveNothing, CloseCallbackHere, EraseNothing,      *)
(* PollFixed, FunctorsKept and DestroyNextHere are seeded faults, each of  *)
(* the definition that follows.                                            *)
(***************************************************************************)
EXTENDS Naturals, Sequences, FiniteSets, Channel

CONSTANTS
  MaxThreads,    (* bound: threads of the pool *)
  MaxClients,    (* bound: clients that connect *)
  MaxTalkers,    (* bound: clients that send data, once each *)
  MaxFds,        (* bound: descriptors for connections *)
  KInitEventListSize

ASSUME ServerAssumption ==
  /\ MaxThreads \in Nat /\ MaxClients \in Nat /\ MaxTalkers \in Nat
  /\ MaxFds \in Nat \ {0} /\ KInitEventListSize \in Nat \ {0}

Clients == 1..MaxClients

(* In an active list 0 stands for acceptChannel_, c for the channel of the  *)
(* connection of client c, who is the c-th to come.                         *)
acceptor == 0

VARIABLES
  inLoop,        (* its domain is the threads: 0 for baseLoop_, the pool's *)
  maxFds,        (* descriptors the process has for connections *)
  listenning_, acceptChannel_,
  arrived,       (* clients that have connected *)
  peer,          (* whether each has sent data, has data unread, has closed *)
  nextConnId_, connections_,
  state_, channel_,   (* of each connection *)
  told,          (* history: user callbacks that have returned *)
  at,            (* "off", "poll", "event" or "functors"; for 0 also "ended",  *)
                 (* "destroying", "joining" and "gone", see ServerDestroyed    *)
  active,        (* activeChannels_ not yet handled *)
  events_,       (* the size of the poller's events_ *)
  batch, pending,
  todo,          (* accesses and callbacks a thread still has to make *)
  held           (* connections a thread holds a shared_ptr to: the guard of   *)
                 (* handleEvent, functors of the drain, local variables        *)

acceptorVars == <<inLoop, maxFds, listenning_, acceptChannel_>>
clientVars == <<arrived, peer>>
connVars == <<state_, channel_, told>>
serverVars == <<nextConnId_, connections_>>
loopVars == <<at, active, events_, batch>>
threadVars == <<todo, held, pending>>
vars == <<acceptorVars, clientVars, connVars, serverVars, loopVars, threadVars>>

Threads == DOMAIN inLoop
numThreads_ == Cardinality(Threads) - 1

(* getNextLoop, which is called once for each connection. *)
LoopOf(c) == IF numThreads_ = 0 THEN 0 ELSE 1 + ((c - 1) % numThreads_)

Call(op, c) == [op |-> op, conn |-> c]

Functors ==
  [op : {"listen", "connectEstablished", "removeConnectionInLoop", "connectDestroyed"},
   conn : 0..MaxClients]

Accesses ==
  [op : {"listen", "insert", "erase", "enableReading", "disableAll", "remove", "up", "down",
         "message", "closeCallback"}, conn : 0..MaxClients]

(* A connection and its descriptor exist from accept until the last         *)
(* shared_ptr is gone.                                                      *)
Alive(c) ==
  /\ c < nextConnId_
  /\ \/ c \in connections_
     \/ \E t \in Threads : c \in held[t] \/ \E i \in DOMAIN pending[t] : pending[t][i].conn = c

InUse == {c \in Clients : Alive(c)}

AcceptorInit == listenning_ = FALSE /\ acceptChannel_ = NewChannel

ConnectionsInit ==
  /\ state_ = [c \in Clients |-> "kConnecting"]
  /\ channel_ = [c \in Clients |-> NewChannel]
  /\ told = [c \in Clients |-> [up |-> 0, message |-> 0, down |-> 0]]

LoopsInit ==
  /\ at = [t \in Threads |-> "off"]
  /\ active = [t \in Threads |-> {}]
  /\ events_ = [t \in Threads |-> KInitEventListSize]
  /\ batch = [t \in Threads |-> <<>>] /\ pending = [t \in Threads |-> <<>>]
  /\ todo = [t \in Threads |-> <<>>] /\ held = [t \in Threads |-> {}]

Init ==
  /\ inLoop \in UNION {[0..n -> BOOLEAN] : n \in 0..MaxThreads}
  /\ maxFds \in 1..MaxFds
  /\ arrived = 0 /\ peer = [c \in Clients |-> [sent |-> FALSE, data |-> FALSE, fin |-> FALSE]]
  /\ nextConnId_ = 1 /\ connections_ = {}
  /\ AcceptorInit /\ ConnectionsInit /\ LoopsInit

-----------------------------------------------------------------------------
(* What threads do.                                                         *)

(* The accesses and callbacks of a functor that begins now. *)
Body(f) ==
  LET do(op) == Call(op, f.conn)
  IN  CASE f.op = "listen" -> <<do("listen")>>
        [] f.op = "connectEstablished" -> <<do("enableReading"), do("up")>>
        [] f.op = "removeConnectionInLoop" -> <<do("erase")>>
        [] f.op = "connectDestroyed" ->
             IF state_[f.conn] = "kConnected"
               THEN <<do("disableAll"), do("down"), do("remove")>>
               ELSE <<do("remove")>>

(* Thread t goes on with s.  A guard or a local shared_ptr is given up when *)
(* nothing is left; what the functors of a drain hold, at its end.          *)
Continue(t, s, refs) ==
  /\ todo' = [todo EXCEPT ![t] = s]
  /\ held' = [held EXCEPT ![t] = IF s = <<>> /\ at[t] # "functors" THEN {} ELSE @ \cup refs]

(* runInLoop(f) of loop l in thread t, which then goes on with s. *)
RunInLoop(t, l, f, s, refs) ==
  IF inLoop[t]
    THEN Continue(t, Body(f) \o s, refs) /\ UNCHANGED pending
    ELSE Continue(t, s, refs) /\ pending' = [pending EXCEPT ![l] = Append(@, f)]

Idle(t) == todo[t] = <<>>

(* Thread t has c's access op in progress. *)
Doing(t, op, c) == ~Idle(t) /\ Head(todo[t]) = Call(op, c)

(* ... and completes it. *)
Done(t, op, c) ==
  /\ Doing(t, op, c)
  /\ Continue(t, Tail(todo[t]), {})
  /\ UNCHANGED pending

-----------------------------------------------------------------------------
(* Accesses and callbacks.                                                  *)

(* Acceptor::listen. *)
Listen(t) ==
  /\ Done(t, "listen", acceptor)
  /\ listenning_' = TRUE
  /\ acceptChannel_' = enableReading(acceptChannel_)
  /\ UNCHANGED <<inLoop, maxFds, clientVars, connVars, serverVars, loopVars>>

(* newConnection: connections_[connName] = conn, then connectEstablished. *)
Insert(t, c) ==
  /\ Doing(t, "insert", c)
  /\ connections_' = connections_ \cup {c}
  /\ RunInLoop(t, LoopOf(c), Call("connectEstablished", c), Tail(todo[t]), {})
  /\ UNCHANGED <<acceptorVars, clientVars, connVars, nextConnId_, loopVars>>

EnableReadingOnly(t, c) ==
  /\ Done(t, "enableReading", c)
  /\ channel_' = [channel_ EXCEPT ![c] = enableReading(@)]
  /\ UNCHANGED <<acceptorVars, clientVars, state_, told, serverVars, loopVars>>

(* connectEstablished up to its callback. *)
EnableReading(t, c) ==
  /\ Done(t, "enableReading", c)
  /\ state_' = [state_ EXCEPT ![c] = "kConnected"]
  /\ channel_' = [channel_ EXCEPT ![c] = enableReading(@)]
  /\ UNCHANGED <<acceptorVars, clientVars, told, serverVars, loopVars>>

(* handleClose, or connectDestroyed, up to its callback. *)
DisableAll(t, c) ==
  /\ Done(t, "disableAll", c)
  /\ state_' = [state_ EXCEPT ![c] = "kDisconnected"]
  /\ channel_' = [channel_ EXCEPT ![c] = disableAll(@)]
  /\ UNCHANGED <<acceptorVars, clientVars, told, serverVars, loopVars>>

RemoveNothing(t, c) ==
  /\ Done(t, "remove", c)
  /\ UNCHANGED <<acceptorVars, clientVars, connVars, serverVars, loopVars>>

(* The end of connectDestroyed. *)
Remove(t, c) ==
  /\ Done(t, "remove", c)
  /\ channel_' = [channel_ EXCEPT ![c] = removeChannel(@)]
  /\ UNCHANGED <<acceptorVars, clientVars, state_, told, serverVars, loopVars>>

(* A user callback returns. *)
Callback(t, c) ==
  /\ \E op \in {"up", "message", "down"} :
       /\ Done(t, op, c)
       /\ told' = [told EXCEPT ![c][op] = @ + 1]
  /\ UNCHANGED <<acceptorVars, clientVars, state_, channel_, serverVars, loopVars>>

CloseCallbackHere(t, c) ==
  /\ Doing(t, "closeCallback", c)
  /\ Continue(t, <<Call("erase", c)>>, {})
  /\ UNCHANGED <<acceptorVars, clientVars, connVars, serverVars, loopVars, pending>>

(* closeCallback_, which is TcpServer::removeConnection. *)
CloseCallback(t, c) ==
  /\ Doing(t, "closeCallback", c)
  /\ RunInLoop(t, 0, Call("removeConnectionInLoop", c), Tail(todo[t]), {})
  /\ UNCHANGED <<acceptorVars, clientVars, connVars, serverVars, loopVars>>

EraseNothing(t, c) ==
  /\ Doing(t, "erase", c)
  /\ pending' = [pending EXCEPT ![LoopOf(c)] = Append(@, Call("connectDestroyed", c))]
  /\ Continue(t, Tail(todo[t]), {})
  /\ UNCHANGED <<acceptorVars, clientVars, connVars, serverVars, loopVars>>

(* removeConnectionInLoop. *)
Erase(t, c) ==
  /\ Doing(t, "erase", c)
  /\ connections_' = connections_ \ {c}
  /\ pending' = [pending EXCEPT ![LoopOf(c)] = Append(@, Call("connectDestroyed", c))]
  /\ Continue(t, Tail(todo[t]), {})
  /\ UNCHANGED <<acceptorVars, clientVars, connVars, nextConnId_, loopVars>>

Access(t) ==
  \/ Listen(t)
  \/ \E c \in Clients :
       Insert(t, c) \/ EnableReading(t, c) \/ DisableAll(t, c) \/ Remove(t, c)
         \/ Callback(t, c) \/ CloseCallback(t, c) \/ Erase(t, c)

-----------------------------------------------------------------------------
(* An iteration of a loop.                                                  *)

Readable(c) == peer[c].data \/ peer[c].fin

(* The channels with an event in loop t's epoll instance, which a closed    *)
(* descriptor has left.                                                     *)
Ready(t) ==
  {ch \in {acceptor} :
     t = 0 /\ "in" \in acceptChannel_.interest /\ arrived >= nextConnId_}
  \cup {c \in InUse : LoopOf(c) = t /\ "in" \in channel_[c].interest /\ Readable(c)}

PollFixed(t) ==
  /\ at[t] = "poll" /\ Idle(t)
  /\ Ready(t) # {} \/ pending[t] # <<>>
  /\ \E chs \in SUBSET Ready(t) :
       /\ Cardinality(chs) <= events_[t]
       /\ Cardinality(chs) < events_[t] => chs = Ready(t)
       /\ active' = [active EXCEPT ![t] = chs]
  /\ at' = [at EXCEPT ![t] = "event"]
  /\ UNCHANGED <<acceptorVars, clientVars, connVars, serverVars, events_, batch, threadVars>>

(* epoll_wait returns for a channel or, with something queued, for the      *)
(* eventfd (a time-out only makes an idle iteration).  It fills at most the *)
(* whole of events_, which then grows: up to the number of channels, here.  *)
Poll(t) ==
  /\ at[t] = "poll" /\ Idle(t)
  /\ Ready(t) # {} \/ pending[t] # <<>>
  /\ \E chs \in SUBSET Ready(t) :
       LET n == Cardinality(chs)
       IN  /\ n <= events_[t] /\ (n < events_[t] => chs = Ready(t))
           /\ active' = [active EXCEPT ![t] = chs]
           /\ events_' = [events_ EXCEPT ![t] =
                IF n = @ /\ @ <= MaxClients THEN 2 * @ ELSE @]
  /\ at' = [at EXCEPT ![t] = "event"]
  /\ UNCHANGED <<acceptorVars, clientVars, connVars, serverVars, batch, threadVars>>

(* The next channel of the active list, in epoll's order, is handled. *)
Handling(t, ch) ==
  /\ at[t] = "event" /\ Idle(t)
  /\ ch \in active[t]
  /\ active' = [active EXCEPT ![t] = @ \ {ch}]

(* newConnection up to connections_. *)
NewConnection(t) ==
  /\ nextConnId_' = nextConnId_ + 1
  /\ Continue(t, <<Call("insert", nextConnId_)>>, {nextConnId_})

(* Acceptor::handleRead.  Without a descriptor accept fails, and the client *)
(* stays in the backlog.                                                    *)
HandleAccept(t) ==
  /\ Handling(t, acceptor)
  /\ IF arrived >= nextConnId_ /\ Cardinality(InUse) < maxFds
       THEN NewConnection(t)
       ELSE UNCHANGED <<nextConnId_, todo, held>>
  /\ UNCHANGED <<acceptorVars, clientVars, connVars, connections_, at, events_, batch, pending>>

(* Channel::handleEvent and TcpConnection::handleRead: data, or the end. *)
HandleRead(t, c) ==
  /\ Handling(t, c) /\ Alive(c)
  /\ IF peer[c].data
       THEN /\ peer' = [peer EXCEPT ![c].data = FALSE]
            /\ Continue(t, <<Call("message", c)>>, {c})
       ELSE /\ Continue(t, [i \in 1..3 |->
                 Call(<<"disableAll", "down", "closeCallback">>[i], c)], {c})
            /\ UNCHANGED peer
  /\ UNCHANGED <<acceptorVars, arrived, connVars, serverVars, at, events_, batch, pending>>

(* dopendingFunctors takes the queue, ... *)
EventDone(t) ==
  /\ at[t] = "event" /\ Idle(t) /\ active[t] = {}
  /\ at' = [at EXCEPT ![t] = "functors"]
  /\ batch' = [batch EXCEPT ![t] = pending[t]]
  /\ pending' = [pending EXCEPT ![t] = <<>>]
  /\ held' = [held EXCEPT ![t] = {pending[t][i].conn : i \in DOMAIN pending[t]} \ {acceptor}]
  /\ UNCHANGED <<acceptorVars, clientVars, connVars, serverVars, active, events_, todo>>

(* ... calls the functors, ... *)
RunFunctor(t) ==
  /\ at[t] = "functors" /\ Idle(t) /\ batch[t] # <<>>
  /\ batch' = [batch EXCEPT ![t] = Tail(@)]
  /\ Continue(t, Body(Head(batch[t])), {})
  /\ UNCHANGED <<acceptorVars, clientVars, connVars, serverVars, at, active, events_, pending>>

FunctorsKept(t) ==
  /\ at[t] = "functors" /\ Idle(t) /\ batch[t] = <<>>
  /\ at' = [at EXCEPT ![t] = "poll"]
  /\ UNCHANGED <<acceptorVars, clientVars, connVars, serverVars, active, events_, batch, threadVars>>

(* ... and destroys them all when it returns. *)
FunctorsDone(t) ==
  /\ at[t] = "functors" /\ Idle(t) /\ batch[t] = <<>>
  /\ at' = [at EXCEPT ![t] = "poll"]
  /\ held' = [held EXCEPT ![t] = {}]
  /\ UNCHANGED <<acceptorVars, clientVars, connVars, serverVars, active, events_, batch, todo, pending>>

Loop(t) ==
  \/ Access(t) \/ Poll(t) \/ HandleAccept(t) \/ (\E c \in Clients : HandleRead(t, c))
  \/ EventDone(t) \/ RunFunctor(t) \/ FunctorsDone(t)

-----------------------------------------------------------------------------
(* The server's user, and its clients.                                      *)

(* start(), called for the first time: the pool's loops run, and the base   *)
(* loop will.  A later call does nothing.                                   *)
Start ==
  /\ at[0] = "off"
  /\ at' = [t \in Threads |-> "poll"]
  /\ RunInLoop(0, 0, Call("listen", acceptor), <<>>, {})
  /\ UNCHANGED <<acceptorVars, clientVars, connVars, serverVars, active, events_, batch>>

(* Somebody has called quit(), and the base loop's loop() returns. *)
LoopReturn ==
  /\ at[0] = "poll" /\ Idle(0)
  /\ at' = [at EXCEPT ![0] = "ended"]
  /\ UNCHANGED <<acceptorVars, clientVars, connVars, serverVars, active, events_, batch, threadVars>>

(* ~TcpServer, after that or in the handler of a channel that is not the    *)
(* server's: its loop, ...                                                  *)
Destroy ==
  /\ at[0] \in {"ended", "event"} /\ Idle(0)
  /\ at' = [at EXCEPT ![0] = "destroying"]
  /\ UNCHANGED <<acceptorVars, clientVars, connVars, serverVars, active, events_, batch, threadVars>>

DestroyNextHere(c) ==
  /\ at[0] = "destroying" /\ Idle(0)
  /\ c \in connections_
  /\ connections_' = connections_ \ {c}
  /\ Continue(0, Body(Call("connectDestroyed", c)), {c})
  /\ UNCHANGED <<acceptorVars, clientVars, connVars, nextConnId_, loopVars, pending>>

(* ... which takes each connection out and has it destroyed, ... *)
DestroyNext(c) ==
  /\ at[0] = "destroying" /\ Idle(0)
  /\ c \in connections_
  /\ connections_' = connections_ \ {c}
  /\ RunInLoop(0, LoopOf(c), Call("connectDestroyed", c), <<>>, {c})
  /\ UNCHANGED <<acceptorVars, clientVars, connVars, nextConnId_, loopVars>>

(* ... and its members: the pool joins its threads, which nobody has told   *)
(* to quit; then the acceptor goes.  What the base loop does next is left   *)
(* out.                                                                     *)
Destroyed ==
  /\ at[0] = "destroying" /\ Idle(0) /\ connections_ = {}
  /\ IF numThreads_ > 0
       THEN at' = [at EXCEPT ![0] = "joining"] /\ UNCHANGED acceptChannel_
       ELSE /\ at' = [at EXCEPT ![0] = "gone"]
            /\ acceptChannel_' = removeChannel(disableAll(acceptChannel_))
  /\ UNCHANGED <<inLoop, maxFds, listenning_, clientVars, connVars, serverVars, active, events_, batch, threadVars>>

User == Start \/ LoopReturn \/ Destroy \/ (\E c \in Clients : DestroyNext(c)) \/ Destroyed

Arrive ==
  /\ listenning_ /\ at[0] # "gone"
  /\ arrived < MaxClients
  /\ arrived' = arrived + 1
  /\ UNCHANGED peer

PeerSends(c) ==
  /\ c <= arrived /\ ~peer[c].fin
  /\ c <= MaxTalkers /\ ~peer[c].sent
  /\ peer' = [peer EXCEPT ![c].sent = TRUE, ![c].data = TRUE]
  /\ UNCHANGED arrived

PeerCloses(c) ==
  /\ c <= arrived /\ ~peer[c].fin
  /\ peer' = [peer EXCEPT ![c].fin = TRUE]
  /\ UNCHANGED arrived

Peers ==
  /\ Arrive \/ \E c \in Clients : PeerSends(c) \/ PeerCloses(c)
  /\ UNCHANGED <<acceptorVars, connVars, serverVars, loopVars, threadVars>>

-----------------------------------------------------------------------------
(* The containers that thread t is in.  ~TcpServer goes through connections_ *)
(* from its start to its end, and what comes after it finds none.           *)
Containers(t) ==
  (IF Idle(t) THEN {}
   ELSE LET o == Head(todo[t])
        IN  CASE o.op \in {"insert", "erase"} -> {<<"connections_", 0>>}
              [] o.op \in {"enableReading", "remove"} -> {<<"channels_", LoopOf(o.conn)>>}
              [] OTHER -> {})
  \cup (IF t = 0 /\ at[0] \in {"destroying", "joining"} THEN {<<"connections_", 0>>} ELSE {})

Undefined == \E t, u \in Threads : t # u /\ Containers(t) \cap Containers(u) # {}

Next ==
  /\ ~Undefined
  /\ User \/ Peers \/ \E t \in Threads : Loop(t)

(* The loops run and user code returns.  No client has to come, send or     *)
(* close, nobody has to quit the loop or destroy the server.                *)
Fairness == \A t \in 0..MaxThreads : WF_vars(~Undefined /\ t \in Threads /\ Loop(t))

Spec == Init /\ [][Next]_vars /\ Fairness

-----------------------------------------------------------------------------
TypeOK ==
  /\ \E n \in 0..MaxThreads : inLoop \in [0..n -> BOOLEAN]
  /\ maxFds \in 1..MaxFds
  /\ listenning_ \in BOOLEAN /\ acceptChannel_ \in ChannelStates
  /\ arrived \in 0..MaxClients
  /\ peer \in [Clients -> [sent : BOOLEAN, data : BOOLEAN, fin : BOOLEAN]]
  /\ nextConnId_ \in 1..(arrived + 1) /\ connections_ \subseteq Clients
  /\ state_ \in [Clients -> {"kConnecting", "kConnected", "kDisconnected"}]
  /\ channel_ \in [Clients -> ChannelStates]
  /\ told \in [Clients -> [up : Nat, message : Nat, down : Nat]]
  /\ \A t \in Threads :
       /\ at[t] \in {"off", "poll", "event", "functors"}
            \cup (IF t = 0 THEN {"ended", "destroying", "joining", "gone"} ELSE {})
       /\ active[t] \subseteq 0..MaxClients
       /\ at[t] \in {"off", "poll", "functors", "ended"} => active[t] = {}
       /\ events_[t] \in Nat \ {0}
       /\ batch[t] \in Seq(Functors) /\ (at[t] # "functors" => batch[t] = <<>>)
       /\ pending[t] \in Seq(Functors)
       /\ todo[t] \in Seq(Accesses)
       /\ held[t] \subseteq Clients /\ (at[t] = "poll" => held[t] = {})

(* No thread has the channel of a freed connection in its active list,      *)
(* as long as the server is there or its destructor queues connectDestroyed. *)
Destruction == at[0] \in {"destroying", "joining", "gone"}

NoDanglingActive ==
  (~inLoop[0] \/ ~Destruction) =>
    \A t \in Threads : active[t] \ {acceptor} \subseteq InUse

(* A freed connection has left its loop's poller, so that the descriptor,   *)
(* which the next connection gets, is free in channels_ too; the poller and *)
(* the kernel agree about every channel that there is.                      *)
PollersAgree ==
  /\ Agrees(acceptChannel_)
  /\ \A c \in Clients : Agrees(channel_[c]) /\ (channel_[c].mapped => Alive(c))

(* Where threads meet: as written, everything of a connection happens in    *)
(* the thread of its loop and everything of the server in the base loop's.  *)
(* That takes an isInLoopThread() that is false in other threads.           *)
Queues == numThreads_ = 0 \/ \A t \in Threads : ~inLoop[t]

InOwnThread ==
  Queues =>
    \A t \in Threads : ~Idle(t) =>
      LET o == Head(todo[t])
      IN  t = IF o.op \in {"listen", "insert", "erase"} THEN 0 ELSE LoopOf(o.conn)

(* The server implements Sessions, unless connectEstablished runs in the    *)
(* acceptor's thread and the connection lives in another.                   *)
PhaseOf(c) ==
  CASE c > arrived -> "away"
    [] c <= arrived /\ c >= nextConnId_ -> "waiting"
    [] c < nextConnId_ /\ ~Alive(c) -> "released"
    [] Alive(c) /\ told[c].up = 0 -> "accepted"
    [] Alive(c) /\ told[c].up > 0 -> IF told[c].down = 0 THEN "up" ELSE "down"

Elsewhere == inLoop[0] /\ numThreads_ > 0

Service ==
  INSTANCE Sessions WITH
    phase <- [c \in Clients |-> IF Elsewhere THEN "away" ELSE PhaseOf(c)],
    served <- [c \in Clients |-> IF Elsewhere THEN 0 ELSE told[c].message]

Promise == Service!Spec

Over == Undefined \/ Destruction \/ at[0] = "ended"

(* The backlog empties, unless from some time on all descriptors belong to  *)
(* clients that stay: a listening socket that stays readable does not keep  *)
(* the loop from closing the others.                                        *)
Crowded == Cardinality(InUse) = maxFds /\ \A c \in InUse : ~peer[c].fin

EveryoneAccepted ==
  (arrived >= nextConnId_) ~> (arrived < nextConnId_ \/ Over \/ []Crowded)

(* The connections of clients that have closed are let go, descriptor and   *)
(* memory, whichever threads that goes through.                             *)
ClosedAreReleased ==
  (\E c \in InUse : peer[c].fin) ~> (Over \/ \A c \in InUse : ~peer[c].fin)

(* Channel.h:36 on tie: a weak pointer watches whether the channel is still *)
(* there, so that one which was removed is not called.  But the pointer is  *)
(* a member of the channel, which has to be there to be asked.              *)
ActiveIsThere == \A t \in Threads : active[t] \ {acceptor} \subseteq InUse
=============================================================================

-------------------------- MODULE SessionsProofs --------------------------
(***************************************************************************)
(* TcpServer.tla implements Sessions.tla, for any number of threads,       *)
(* clients and descriptors.  Served is what the invariant of               *)
(* TcpServerProofs.tla lacks for it, as long as a connection is            *)
(* established in the thread of its loop: what the user was told of a      *)
(* connection is what its state says, up to the callback in progress, and  *)
(* a connection that is not down has somebody left who will close it.      *)
(***************************************************************************)
EXTENDS TcpServerProofs

-----------------------------------------------------------------------------
(* The invariant.                                                           *)

(* The loop of c is at this access or callback about it. *)
Busy(op, c) == Op(todo[LoopOf(c)]) = op /\ Conn(todo[LoopOf(c)]) = c

Heard(c) ==
  /\ told[c].up = IF state_[c] = "kConnecting" \/ Busy("up", c) THEN 0 ELSE 1
  /\ told[c].down = IF state_[c] = "kDisconnected" /\ ~Busy("down", c) THEN 1 ELSE 0

Watched(c) ==
  /\ state_[c] = "kConnected" => channel_[c].index = "kAdded"
  /\ state_[c] # "kConnected" => channel_[c].events = {}

Inserting(t, c) == Op(todo[t]) = "insert" /\ Conn(todo[t]) = c

Awaited(c) ==
  state_[c] = "kConnecting" /\ c < nextConnId_ =>
    Opening(c) \/ \E t \in Threads : Inserting(t, c)

TaskFits(t) ==
  /\ Op(todo[t]) \in {"up", "message", "disableAll"} => state_[Conn(todo[t])] = "kConnected"
  /\ Op(todo[t]) \in {"down", "closeCallback", "remove"} =>
       state_[Conn(todo[t])] = "kDisconnected"

(* A connection whose events a loop will handle is up, and the user has     *)
(* been told so.                                                            *)
EventsFit(t) ==
  at[t] = "event" =>
    \A c \in active[t] : c # acceptor => state_[c] = "kConnected" /\ Conn(todo[t]) # c

Served ==
  /\ \A c \in Clients : Heard(c) /\ Watched(c) /\ Awaited(c)
  /\ \A t \in Threads : TaskFits(t) /\ EventsFit(t)

-----------------------------------------------------------------------------
(* What it says.                                                            *)

(* What a connection's own thread does. *)
OwnOps == {"enableReading", "up", "message", "disableAll", "down", "closeCallback", "remove"}

LEMMA InHand ==
  ASSUME Inv, ~Elsewhere, NEW t \in Threads, Op(todo[t]) \in OwnOps
  PROVE  /\ Conn(todo[t]) \in Clients /\ Conn(todo[t]) < nextConnId_ /\ todo[t] # <<>>
         /\ t = LoopOf(Conn(todo[t])) /\ Conn(todo[t]) \in held[t]
<1>1. /\ Types /\ ServerTypes /\ Regular(todo[t]) /\ TaskPlaced(t) /\ Where(t)
      /\ todo[t] \in Shapes
  BY ShapeIs DEF Inv, Types, LoopTypes, Placed
<1>2. PICK g : g = Goal(todo[t])
  OBVIOUS
<1>3. PICK c : c = Conn(todo[t])
  OBVIOUS
<1>4. g \in {"up", "message", "closeCallback", "remove"} /\ todo[t] # <<>>
  BY <1>1, <1>2, EmptyTask DEF Regular, OwnOps
<1>5. c \in Clients /\ c < nextConnId_ /\ c # acceptor
  BY <1>1, <1>2, <1>3, <1>4, ClientsAre DEF TaskPlaced
<1>6. c \in held[t]
  BY <1>1, <1>3, <1>5 DEF Where
<1>7. \/ t = LoopOf(c)
      \/ t = Opener(c)
      \/ t = 0 /\ inLoop[0]
  BY <1>1, <1>2, <1>3, <1>4 DEF TaskPlaced
<1>8. t = LoopOf(c)
  <2>1. PICK n \in Nat : inLoop \in [0..n -> BOOLEAN]
    BY <1>1, ServerAssumption DEF ServerTypes
  <2>2. numThreads_ = n
    BY <2>1, Loops
  <2>3. ~inLoop[0] \/ n = 0
    BY <2>1, <2>2 DEF Elsewhere
  <2>4. n = 0 => LoopOf(c) = 0
    BY <2>2 DEF LoopOf
  <2>5. QED
    BY <1>7, <2>3, <2>4 DEF Opener
<1>9. QED
  BY <1>3, <1>4, <1>5, <1>6, <1>8

(* A connection that the user was not told is down is there. *)
LEMMA ServedIs ==
  ASSUME Inv, Served, NEW c \in Clients, c < nextConnId_
  PROVE  /\ state_[c] # "kDisconnected" \/ Busy("down", c) => Alive(c)
         /\ ~Alive(c) => told[c].up = 1 /\ told[c].down = 1
<1>1. /\ Lives(c) /\ Agrees(channel_[c]) /\ Heard(c) /\ Watched(c) /\ Awaited(c)
      /\ state_[c] \in {"kConnecting", "kConnected", "kDisconnected"} /\ c # acceptor
  BY ClientsAre DEF Inv, Agreed, Served, Types, ConnTypes
<1>2. ASSUME NEW t \in Threads, Conn(todo[t]) = c
      PROVE  Alive(c)
  <2>1. c \in held[t]
    BY <1>1, <1>2 DEF Inv, Where
  <2>2. QED
    BY <2>1 DEF Alive
<1>3. CASE state_[c] = "kConnected"
  BY <1>1, <1>3, DoomedAlive DEF Watched, Agrees, Lives, Kept
<1>4. CASE state_[c] = "kConnecting"
  <2>1. CASE Opening(c)
    BY <1>1, <2>1, DoomedAlive DEF Lives, Kept
  <2>2. QED
    BY <1>1, <1>2, <1>4, <2>1 DEF Awaited, Inserting
<1>5. LoopOf(c) \in Threads
  BY ThreadsAre DEF Inv, Types
<1>6. Busy("down", c) \/ Busy("up", c) => Alive(c)
  BY <1>2, <1>5 DEF Busy
<1>7. ~Alive(c) => told[c].up = 1 /\ told[c].down = 1
  BY <1>1, <1>3, <1>4, <1>6 DEF Heard
<1>8. QED
  BY <1>1, <1>3, <1>4, <1>6, <1>7

-----------------------------------------------------------------------------
(* What most steps leave as it is.                                          *)

LEMMA HeardKept ==
  ASSUME Inv, NEW c \in Clients, Heard(c), inLoop' = inLoop,
         state_'[c] = state_[c], told'[c] = told[c],
         \A u \in Threads : \/ todo'[u] = todo[u]
                            \/ Conn(todo[u]) # c /\ Conn(todo'[u]) # c
                            \/ Op(todo[u]) \notin {"up", "down"} /\ Op(todo'[u]) \notin {"up", "down"}
  PROVE  Heard(c)'
<1>1. LoopOf(c)' = LoopOf(c) /\ LoopOf(c) \in Threads
  BY ThreadsAre DEF Inv, Types, LoopOf, numThreads_, Threads
<1>2. PICK l \in Threads : l = LoopOf(c) /\ l = LoopOf(c)'
  BY <1>1
<1>3. /\ Busy("up", c)' <=> Busy("up", c)
      /\ Busy("down", c)' <=> Busy("down", c)
  BY <1>2 DEF Busy
<1>4. QED
  BY <1>3 DEF Heard

LEMMA AwaitedKept ==
  ASSUME Inv, NEW c \in Clients, Awaited(c), inLoop' = inLoop,
         state_'[c] = "kConnecting" => state_[c] = "kConnecting",
         c < nextConnId_' => c < nextConnId_,
         \A u \in Threads : Est(c) \in Elems(Queue(u)) => Est(c) \in Elems(Queue(u)'),
         \A u \in Threads : Conn(todo[u]) = c /\ Op(todo[u]) \in {"insert", "enableReading"} =>
           todo'[u] = todo[u]
  PROVE  Awaited(c)'
<1>1. Threads' = Threads
  BY DEF Threads
<1>2. PICK l \in Threads : l = LoopOf(c) /\ l = LoopOf(c)'
  BY ThreadsAre DEF Inv, Types, LoopOf, numThreads_, Threads
<1>3. Opening(c) => Opening(c)'
  BY <1>1, <1>2 DEF Opening, Enabling
<1>4. \A u \in Threads : Inserting(u, c) => Inserting(u, c)'
  BY DEF Inserting
<1>5. QED
  BY <1>1, <1>3, <1>4 DEF Awaited

LEMMA TaskFitsKept ==
  ASSUME NEW u, TaskFits(u), todo'[u] = todo[u], state_'[Conn(todo[u])] = state_[Conn(todo[u])]
  PROVE  TaskFits(u)'
BY DEF TaskFits

(* Thread t moves, the user is told nothing, and no connection changes its  *)
(* state.                                                                   *)
LEMMA Steady ==
  ASSUME Inv, Served, inLoop' = inLoop, state_' = state_, told' = told, NEW t \in Threads,
         \A u \in Threads : u # t => todo'[u] = todo[u] /\ at'[u] = at[u] /\ active'[u] = active[u],
         \/ todo'[t] = todo[t]
         \/ /\ Op(todo[t]) \notin {"up", "down"} /\ Op(todo'[t]) \notin {"up", "down"}
            /\ TaskFits(t)',
         EventsFit(t)', \A c \in Clients : Watched(c)' /\ Awaited(c)'
  PROVE  Served'
<1>1. Threads' = Threads
  BY DEF Threads
<1>2. \A c \in Clients : Heard(c)'
  BY HeardKept DEF Served
<1>3. \A u \in Threads : TaskFits(u)'
  BY TaskFitsKept DEF Served
<1>4. ASSUME NEW u \in Threads, u # t
      PROVE  EventsFit(u)'
  BY <1>4 DEF Served, EventsFit
<1>5. QED
  BY <1>1, <1>2, <1>3, <1>4 DEF Served

LEMMA EventsKept ==
  ASSUME NEW u, EventsFit(u), at'[u] = at[u], active'[u] \subseteq active[u],
         \/ Conn(todo'[u]) \in {Conn(todo[u]), acceptor}
         \/ Conn(todo'[u]) \notin active'[u],
         \A c \in active'[u] : state_[c] = "kConnected" => state_'[c] = "kConnected"
  PROVE  EventsFit(u)'
BY DEF EventsFit

LEMMA AllAwaited ==
  ASSUME Inv, Served, inLoop' = inLoop, nextConnId_' = nextConnId_, NEW t \in Threads,
         \A u \in Threads : u # t => todo'[u] = todo[u],
         \A c \in Clients : state_'[c] = "kConnecting" => state_[c] = "kConnecting",
         \A u \in Threads : \A g \in Elems(Queue(u)) : g \in Elems(Queue(u)'),
         \A c \in Clients :
           Conn(todo[t]) = c /\ Op(todo[t]) \in {"insert", "enableReading"} =>
             todo'[t] = todo[t] \/ Awaited(c)'
  PROVE  \A c \in Clients : Awaited(c)'
<1> SUFFICES ASSUME NEW c \in Clients PROVE Awaited(c)'
  OBVIOUS
<1>1. CASE Conn(todo[t]) = c /\ Op(todo[t]) \in {"insert", "enableReading"} /\ todo'[t] # todo[t]
  BY <1>1
<1>2. CASE ~(Conn(todo[t]) = c /\ Op(todo[t]) \in {"insert", "enableReading"} /\ todo'[t] # todo[t])
  BY <1>2, AwaitedKept DEF Served
<1>3. QED
  BY <1>1, <1>2

-----------------------------------------------------------------------------
(* Accesses and callbacks.                                                  *)

(* An access is made after which the thread goes on with none that the      *)
(* connection's state has to allow.                                         *)
LEMMA AccessServed ==
  ASSUME Inv, Served, NEW t \in Threads, inLoop' = inLoop, at' = at, active' = active,
         state_' = state_, told' = told, nextConnId_' = nextConnId_,
         \A u \in Threads : u # t => todo'[u] = todo[u],
         Op(todo[t]) \notin {"up", "down"}, Op(todo'[t]) \in {"none", "erase", "enableReading"},
         Conn(todo'[t]) \in {Conn(todo[t]), acceptor},
         \A c \in Clients : Watched(c)',
         \A u \in Threads : \A g \in Elems(Queue(u)) : g \in Elems(Queue(u)'),
         \A c \in Clients :
           Conn(todo[t]) = c /\ Op(todo[t]) \in {"insert", "enableReading"} => Awaited(c)'
  PROVE  Served'
<1>1. \A c \in Clients : Awaited(c)'
  BY AllAwaited
<1>2. TaskFits(t)'
  BY DEF TaskFits
<1>3. EventsFit(t)'
  BY EventsKept DEF Served
<1>4. QED
  BY <1>1, <1>2, <1>3, Steady

LEMMA WatchedKept ==
  ASSUME Served, state_' = state_, channel_' = channel_
  PROVE  \A c \in Clients : Watched(c)'
BY DEF Served, Watched

LEMMA ListenServed == ASSUME Inv, Served, NEW t \in Threads, Listen(t) PROVE Served'
<1>1. /\ Doing(t, "listen", acceptor) /\ Continue(t, Tail(todo[t]), {}) /\ pending' = pending
      /\ UNCHANGED <<inLoop, connVars, serverVars, loopVars>>
  BY DEF Listen, Done
<1>2. Onwards
  BY <1>1, OnwardsIs DEF Inv, serverVars, connVars
<1>3. pending' \in [Threads -> Seq(Functors)] /\ batch' = batch /\ at' = at /\ active' = active
  BY <1>1 DEF Inv, Types, LoopTypes, loopVars
<1>4. Op(todo[t]) = "listen" /\ Conn(todo[t]) = acceptor /\ Goal(todo[t]) = "listen"
  <2>1. Op(todo[t]) = "listen" /\ Conn(todo[t]) = acceptor /\ Regular(todo[t])
    BY <1>1, AccessIs
  <2>2. QED
    BY <2>1 DEF Regular
<1>5. todo'[t] = <<>> /\ \A u \in Threads : u # t => todo'[u] = todo[u]
  BY <1>1, <1>2, <1>3, <1>4, DoneMoves
<1>6. state_' = state_ /\ told' = told /\ channel_' = channel_ /\ nextConnId_' = nextConnId_
  BY <1>1 DEF connVars, serverVars
<1>7. \A u \in Threads : \A g \in Elems(Queue(u)) : g \in Elems(Queue(u)')
  BY <1>1, <1>3, NoQueueStep
<1>8. QED
  BY <1>1, <1>3, <1>4, <1>5, <1>6, <1>7, EmptyTask, WatchedKept, AccessServed

LEMMA EraseServed ==
  ASSUME Inv, Served, NEW t \in Threads, NEW c \in Clients, Erase(t, c) PROVE Served'
<1>1. /\ Doing(t, "erase", c)
      /\ pending' = [pending EXCEPT ![LoopOf(c)] = Append(@, Des(c))]
      /\ Continue(t, Tail(todo[t]), {})
      /\ UNCHANGED <<acceptorVars, connVars, nextConnId_, loopVars>>
  BY DEF Erase, Des
<1>2. /\ Types /\ inLoop' = inLoop /\ batch' = batch /\ active' = active /\ at' = at
      /\ state_' = state_ /\ told' = told /\ channel_' = channel_ /\ nextConnId_' = nextConnId_
  BY <1>1 DEF Inv, acceptorVars, loopVars, connVars
<1>3. /\ pending' \in [Threads -> Seq(Functors)]
      /\ \A u \in Threads : \A g \in Elems(Queue(u)) : g \in Elems(Queue(u)')
  <2>1. PICK f \in Functors : f = Des(c)
    BY FunctorsAre
  <2>2. PICK l \in Threads : l = LoopOf(c)
    BY <1>2, ThreadsAre DEF Types
  <2>3. pending' = [pending EXCEPT ![l] = Append(@, f)]
    BY <1>1, <2>1, <2>2
  <2>4. QED
    BY <1>2, <2>3, AppendStep
<1>4. Onwards
  BY <1>2, OnwardsIs
<1>5. Op(todo[t]) = "erase" /\ Conn(todo[t]) = c /\ Goal(todo[t]) = "erase"
  <2>1. Op(todo[t]) = "erase" /\ Conn(todo[t]) = c /\ Regular(todo[t])
    BY <1>1, AccessIs
  <2>2. QED
    BY <2>1 DEF Regular
<1>6. todo'[t] = <<>> /\ \A u \in Threads : u # t => todo'[u] = todo[u]
  BY <1>1, <1>3, <1>4, <1>5, DoneMoves
<1>7. QED
  BY <1>2, <1>3, <1>5, <1>6, EmptyTask, WatchedKept, AccessServed

LEMMA RemoveServed ==
  ASSUME Inv, Served, ~Elsewhere, NEW t \in Threads, NEW c \in Clients, Remove(t, c) PROVE Served'
<1>1. /\ Doing(t, "remove", c) /\ Continue(t, Tail(todo[t]), {}) /\ pending' = pending
      /\ UNCHANGED <<acceptorVars, state_, told, serverVars, loopVars>>
      /\ channel_' = [channel_ EXCEPT ![c] = removeChannel(@)]
  BY DEF Remove, Done
<1>2. /\ Types /\ inLoop' = inLoop /\ batch' = batch /\ active' = active /\ at' = at
      /\ state_' = state_ /\ told' = told /\ nextConnId_' = nextConnId_
      /\ pending' \in [Threads -> Seq(Functors)]
  BY <1>1 DEF Inv, Types, LoopTypes, acceptorVars, loopVars, serverVars
<1>3. Onwards
  BY <1>2, OnwardsIs
<1>4. Op(todo[t]) = "remove" /\ Conn(todo[t]) = c /\ Goal(todo[t]) = "remove"
  <2>1. Op(todo[t]) = "remove" /\ Conn(todo[t]) = c /\ Regular(todo[t])
    BY <1>1, AccessIs
  <2>2. QED
    BY <2>1 DEF Regular
<1>5. todo'[t] = <<>> /\ \A u \in Threads : u # t => todo'[u] = todo[u]
  BY <1>1, <1>2, <1>3, <1>4, DoneMoves
<1>6. \A u \in Threads : \A g \in Elems(Queue(u)) : g \in Elems(Queue(u)')
  BY <1>1, <1>2, NoQueueStep
<1>7. ASSUME NEW d \in Clients
      PROVE  Watched(d)'
  <2>1. CASE d # c
    BY <1>1, <1>2, <2>1 DEF Served, Watched, Types, ConnTypes
  <2>2. CASE d = c
    <3>1. state_[c] = "kDisconnected" /\ channel_[c].events = {}
      BY <1>4 DEF Served, TaskFits, Watched
    <3>2. channel_[c] \in ChannelStates /\ channel_'[c] = removeChannel(channel_[c])
      BY <1>1, <1>2 DEF Types, ConnTypes
    <3>3. removeChannel(channel_[c]).events = channel_[c].events
      BY <3>2 DEF removeChannel, epoll_ctl, ChannelStates
    <3>4. QED
      BY <1>2, <2>2, <3>1, <3>2, <3>3 DEF Watched
  <2>3. QED
    BY <2>1, <2>2
<1>8. QED
  BY <1>2, <1>4, <1>5, <1>6, <1>7, EmptyTask, AccessServed

LEMMA CloseCallbackServed ==
  ASSUME Inv, Served, NEW t \in Threads, NEW c \in Clients, CloseCallback(t, c) PROVE Served'
<1>1. /\ Doing(t, "closeCallback", c)
      /\ RunInLoop(t, 0, Rem(c), Tail(todo[t]), {})
      /\ UNCHANGED <<acceptorVars, connVars, serverVars, loopVars>>
  BY DEF CloseCallback, Rem
<1>2. /\ Types /\ inLoop' = inLoop /\ batch' = batch /\ active' = active /\ at' = at
      /\ state_' = state_ /\ told' = told /\ channel_' = channel_ /\ nextConnId_' = nextConnId_
      /\ 0 \in Threads
  BY <1>1, ThreadsAre DEF Inv, Types, acceptorVars, loopVars, connVars, serverVars
<1>3. Op(todo[t]) = "closeCallback" /\ Conn(todo[t]) = c /\ Tail(todo[t]) = <<>>
  <2>1. Op(todo[t]) = "closeCallback" /\ Conn(todo[t]) = c /\ Regular(todo[t]) /\ todo[t] # <<>>
    BY <1>1, AccessIs
  <2>2. QED
    BY <2>1 DEF Regular
<1>4. PICK s \in Shapes : /\ Continue(t, s, {}) /\ Op(s) \in {"none", "erase"}
                          /\ Conn(s) \in {c, acceptor}
                          /\ IF inLoop[t] THEN pending' = pending
                               ELSE pending' = [pending EXCEPT ![0] = Append(@, Rem(c))]
  <2>1. CASE inLoop[t]
    <3>1. PICK s \in Shapes : s = <<Call("erase", c)>>
      <4>1. <<Call("erase", c)>> \in Tasks(c)
        BY DEF Tasks
      <4>2. QED
        BY <4>1 DEF Shapes
    <3>2. Body(Rem(c)) \o <<>> = s
      <4>1. Body(Rem(c)) = <<Call("erase", c)>>
        BY FunctorsDiffer DEF Body
      <4>2. QED
        BY <3>1, <4>1
    <3>3. Continue(t, s, {}) /\ pending' = pending
      BY <1>1, <1>3, <2>1, <3>2 DEF RunInLoop
    <3>4. QED
      BY <2>1, <3>1, <3>3, LastCall
  <2>2. CASE ~inLoop[t]
    BY <1>1, <1>3, <2>2, EmptyTask DEF RunInLoop
  <2>3. QED
    BY <2>1, <2>2
<1>5. todo'[t] = s /\ \A u \in Threads : u # t => todo'[u] = todo[u]
  BY <1>2, <1>4, Continues
<1>6. \A u \in Threads : \A g \in Elems(Queue(u)) : g \in Elems(Queue(u)')
  <2>1. CASE inLoop[t]
    BY <1>2, <1>4, <2>1, NoQueueStep
  <2>2. CASE ~inLoop[t]
    <3>1. PICK f \in Functors : f = Rem(c)
      BY FunctorsAre
    <3>2. pending' = [pending EXCEPT ![0] = Append(@, f)]
      BY <1>4, <2>2, <3>1
    <3>3. QED
      BY <1>2, <3>2, AppendStep
  <2>3. QED
    BY <2>1, <2>2
<1>7. QED
  BY <1>2, <1>3, <1>4, <1>5, <1>6, WatchedKept, AccessServed

LEMMA InsertServed ==
  ASSUME Inv, Served, NEW t \in Threads, NEW c \in Clients, Insert(t, c) PROVE Served'
<1>1. /\ Doing(t, "insert", c) /\ RunInLoop(t, LoopOf(c), Est(c), Tail(todo[t]), {})
      /\ UNCHANGED <<acceptorVars, connVars, nextConnId_, loopVars>>
  BY DEF Insert, Est
<1>2. /\ Types /\ inLoop' = inLoop /\ batch' = batch /\ active' = active /\ at' = at
      /\ state_' = state_ /\ told' = told /\ channel_' = channel_ /\ nextConnId_' = nextConnId_
      /\ Threads' = Threads
  BY <1>1 DEF Inv, acceptorVars, loopVars, connVars, Threads
<1>3. Op(todo[t]) = "insert" /\ Conn(todo[t]) = c /\ Tail(todo[t]) = <<>>
  BY <1>1, AccessIs, InsertIs
<1>4. PICK l \in Threads : l = LoopOf(c) /\ l = LoopOf(c)'
  BY <1>2, ThreadsAre DEF Types, LoopOf, numThreads_, Threads
<1>5. PICK s \in Shapes :
        /\ Continue(t, s, {}) /\ Conn(s) \in {c, acceptor}
        /\ \/ pending' = pending /\ Op(s) = "enableReading" /\ Conn(s) = c
           \/ Op(s) = "none" /\ pending' = [pending EXCEPT ![l] = Append(@, Est(c))]
  <2>1. CASE inLoop[t]
    <3>1. PICK s \in Shapes : s = <<Call("enableReading", c), Call("up", c)>>
      <4>1. <<Call("enableReading", c), Call("up", c)>> \in Tasks(c)
        BY DEF Tasks
      <4>2. QED
        BY <4>1 DEF Shapes
    <3>2. Body(Est(c)) \o <<>> = s
      <4>1. Body(Est(c)) = <<Call("enableReading", c), Call("up", c)>>
        BY FunctorsDiffer DEF Body
      <4>2. QED
        BY <3>1, <4>1
    <3>3. Continue(t, s, {}) /\ pending' = pending
      BY <1>1, <1>3, <2>1, <3>2 DEF RunInLoop
    <3>4. QED
      BY <3>1, <3>3, TwoCalls
  <2>2. CASE ~inLoop[t]
    BY <1>1, <1>3, <1>4, <2>2, EmptyTask DEF RunInLoop
  <2>3. QED
    BY <2>1, <2>2
<1>6. todo'[t] = s /\ \A u \in Threads : u # t => todo'[u] = todo[u]
  BY <1>2, <1>5, Continues
<1>7. /\ \A u \in Threads : \A g \in Elems(Queue(u)) : g \in Elems(Queue(u)')
      /\ Opening(c)'
  <2>1. CASE pending' = pending /\ Op(s) = "enableReading" /\ Conn(s) = c
    <3>1. Opening(c)'
      BY <1>2, <1>6, <2>1 DEF Opening, Enabling
    <3>2. QED
      BY <1>2, <2>1, <3>1, NoQueueStep
  <2>2. CASE pending' = [pending EXCEPT ![l] = Append(@, Est(c))]
    <3>1. PICK f \in Functors : f = Est(c)
      BY FunctorsAre
    <3>2. pending' = [pending EXCEPT ![l] = Append(@, f)]
      BY <2>2, <3>1
    <3>3. /\ \A u \in Threads : \A g \in Elems(Queue(u)) : g \in Elems(Queue(u)')
          /\ f \in Elems(Queue(l)')
      BY <1>2, <3>2, AppendStep
    <3>4. Opening(c)'
      BY <1>4, <3>1, <3>3 DEF Opening
    <3>5. QED
      BY <3>3, <3>4
  <2>3. QED
    BY <1>5, <2>1, <2>2
<1>8. Awaited(c)'
  BY <1>7 DEF Awaited
<1>9. QED
  BY <1>2, <1>3, <1>5, <1>6, <1>7, <1>8, WatchedKept, AccessServed

LEMMA EnableReadingServed ==
  ASSUME Inv, Served, ~Elsewhere, NEW t \in Threads, NEW c \in Clients, EnableReading(t, c)
  PROVE  Served'
<1>1. /\ Doing(t, "enableReading", c) /\ Continue(t, Tail(todo[t]), {}) /\ pending' = pending
      /\ UNCHANGED <<acceptorVars, told, serverVars, loopVars>>
      /\ state_' = [state_ EXCEPT ![c] = "kConnected"]
      /\ channel_' = [channel_ EXCEPT ![c] = enableReading(@)]
  BY DEF EnableReading, Done
<1>2. /\ Types /\ inLoop' = inLoop /\ batch' = batch /\ active' = active /\ at' = at
      /\ told' = told /\ nextConnId_' = nextConnId_ /\ Threads' = Threads
      /\ pending' \in [Threads -> Seq(Functors)]
  BY <1>1 DEF Inv, Types, LoopTypes, acceptorVars, loopVars, serverVars, Threads
<1>3. /\ state_'[c] = "kConnected" /\ channel_'[c] = enableReading(channel_[c])
      /\ \A d \in Clients : d # c => state_'[d] = state_[d] /\ channel_'[d] = channel_[d]
  BY <1>1, <1>2 DEF Types, ConnTypes
<1>4. Onwards
  <2>1. \A d \in Clients : state_[d] # "kConnecting" => state_'[d] # "kConnecting"
    BY <1>3
  <2>2. QED
    BY <1>2, <2>1, OnwardsIs
<1>5. /\ Op(todo[t]) = "enableReading" /\ Conn(todo[t]) = c /\ Goal(todo[t]) = "up"
      /\ Op(Tail(todo[t])) = "up" /\ Conn(Tail(todo[t])) = c
  <2>1. Op(todo[t]) = "enableReading" /\ Conn(todo[t]) = c /\ Regular(todo[t])
    BY <1>1, AccessIs
  <2>2. QED
    BY <2>1 DEF Regular
<1>6. todo'[t] = Tail(todo[t]) /\ \A u \in Threads : u # t => todo'[u] = todo[u]
  BY <1>1, <1>2, <1>4, DoneMoves
<1>7. t = LoopOf(c) /\ t = LoopOf(c)'
  BY <1>2, <1>5, InHand DEF OwnOps, LoopOf, numThreads_, Threads
<1>8. state_[c] = "kConnecting" /\ told[c] = [up |-> 0, message |-> 0, down |-> 0]
  <2>1. state_[c] = "kConnecting"
    BY <1>5, <1>7 DEF Inv, Lives, Begun, Opening, Enabling
  <2>2. QED
    BY <2>1 DEF Inv, Lives, Fresh
<1>9. ASSUME NEW d \in Clients
      PROVE  Heard(d)' /\ Watched(d)'
  <2>1. CASE d # c
    <3>1. Heard(d)'
      BY <1>2, <1>3, <1>5, <1>6, <2>1, HeardKept DEF Served
    <3>2. QED
      BY <1>3, <2>1, <3>1 DEF Served, Watched
  <2>2. CASE d = c
    <3>1. Busy("up", c)' /\ ~Busy("down", c)'
      BY <1>5, <1>6, <1>7 DEF Busy
    <3>2. Heard(c)'
      BY <1>2, <1>3, <1>8, <3>1 DEF Heard
    <3>3. enableReading(channel_[c]).index = "kAdded"
      BY <1>2, ChannelCalls DEF Inv, Types, ConnTypes, Agreed
    <3>4. QED
      BY <1>3, <2>2, <3>2, <3>3 DEF Watched
  <2>3. QED
    BY <2>1, <2>2
<1>10. \A d \in Clients : Awaited(d)'
  <2>1. Awaited(c)'
    BY <1>3 DEF Awaited
  <2>2. \A u \in Threads : \A g \in Elems(Queue(u)) : g \in Elems(Queue(u)')
    BY <1>1, <1>2, NoQueueStep
  <2>3. \A d \in Clients : state_'[d] = "kConnecting" => state_[d] = "kConnecting"
    BY <1>3
  <2>4. QED
    BY <1>2, <1>5, <1>6, <2>1, <2>2, <2>3, AllAwaited
<1>11. ASSUME NEW u \in Threads
       PROVE  TaskFits(u)' /\ EventsFit(u)'
  <2>1. EventsFit(u)'
    <3>1. \A d \in active'[u] : state_[d] = "kConnected" => state_'[d] = "kConnected"
      BY <1>1, <1>2, <1>3 DEF Types, ConnTypes
    <3>2. Conn(todo'[u]) = Conn(todo[u])
      BY <1>5, <1>6
    <3>3. QED
      BY <1>2, <3>1, <3>2, EventsKept DEF Served
  <2>2. TaskFits(u)'
    <3>1. CASE u = t
      BY <1>3, <1>5, <1>6, <3>1 DEF TaskFits
    <3>2. CASE u # t
      <4>1. TaskFits(u) /\ todo'[u] = todo[u]
        BY <1>6, <3>2 DEF Served
      <4>2. CASE Op(todo[u]) \in OwnOps
        <5>1. Conn(todo[u]) # c /\ Conn(todo[u]) \in Clients
          BY <1>7, <3>2, <4>2, InHand
        <5>2. QED
          BY <1>3, <4>1, <5>1, TaskFitsKept
      <4>3. CASE Op(todo[u]) \notin OwnOps
        BY <4>1, <4>3 DEF TaskFits, OwnOps
      <4>4. QED
        BY <4>2, <4>3
    <3>3. QED
      BY <3>1, <3>2
  <2>3. QED
    BY <2>1, <2>2
<1>12. QED
  BY <1>2, <1>9, <1>10, <1>11 DEF Served

LEMMA DisableAllServed ==
  ASSUME Inv, Served, ~Elsewhere, NEW t \in Threads, NEW c \in Clients, DisableAll(t, c)
  PROVE  Served'
<1>1. /\ Doing(t, "disableAll", c) /\ Continue(t, Tail(todo[t]), {}) /\ pending' = pending
      /\ UNCHANGED <<acceptorVars, told, serverVars, loopVars>>
      /\ state_' = [state_ EXCEPT ![c] = "kDisconnected"]
      /\ channel_' = [channel_ EXCEPT ![c] = disableAll(@)]
  BY DEF DisableAll, Done
<1>2. /\ Types /\ inLoop' = inLoop /\ batch' = batch /\ active' = active /\ at' = at
      /\ told' = told /\ nextConnId_' = nextConnId_ /\ Threads' = Threads
      /\ pending' \in [Threads -> Seq(Functors)]
  BY <1>1 DEF Inv, Types, LoopTypes, acceptorVars, loopVars, serverVars, Threads
<1>3. /\ state_'[c] = "kDisconnected" /\ channel_'[c] = disableAll(channel_[c])
      /\ \A d \in Clients : d # c => state_'[d] = state_[d] /\ channel_'[d] = channel_[d]
  BY <1>1, <1>2 DEF Types, ConnTypes
<1>4. Op(todo[t]) = "disableAll" /\ Conn(todo[t]) = c /\ Regular(todo[t])
  BY <1>1, AccessIs
<1>5. /\ Goal(todo[t]) \in {"closeCallback", "remove"}
      /\ Op(Tail(todo[t])) = "down" /\ Conn(Tail(todo[t])) = c
  BY <1>4 DEF Regular
<1>6. state_[c] = "kConnected"
  BY <1>4 DEF Served, TaskFits
<1>7. Onwards
  <2>1. \A d \in Clients : state_[d] # "kConnecting" => state_'[d] # "kConnecting"
    BY <1>3
  <2>2. QED
    BY <1>2, <2>1, OnwardsIs
<1>8. todo'[t] = Tail(todo[t]) /\ \A u \in Threads : u # t => todo'[u] = todo[u]
  BY <1>1, <1>2, <1>7, DoneMoves
<1>9. t = LoopOf(c) /\ t = LoopOf(c)'
  BY <1>2, <1>4, InHand DEF OwnOps, LoopOf, numThreads_, Threads
<1>10. ASSUME NEW d \in Clients
       PROVE  Heard(d)' /\ Watched(d)'
  <2>1. CASE d # c
    <3>1. Heard(d)'
      BY <1>2, <1>3, <1>4, <1>5, <1>8, <2>1, HeardKept DEF Served
    <3>2. QED
      BY <1>3, <2>1, <3>1 DEF Served, Watched
  <2>2. CASE d = c
    <3>1. ~Busy("up", c) /\ ~Busy("up", c)' /\ Busy("down", c)'
      BY <1>4, <1>5, <1>8, <1>9 DEF Busy
    <3>2. Heard(c)'
      BY <1>2, <1>3, <1>6, <3>1 DEF Served, Heard
    <3>3. disableAll(channel_[c]).events = {}
      BY <1>2, ChannelCalls DEF Inv, Types, ConnTypes, Agreed
    <3>4. QED
      BY <1>3, <2>2, <3>2, <3>3 DEF Watched
  <2>3. QED
    BY <2>1, <2>2
<1>11. \A d \in Clients : Awaited(d)'
  <2>1. \A u \in Threads : \A g \in Elems(Queue(u)) : g \in Elems(Queue(u)')
    BY <1>1, <1>2, NoQueueStep
  <2>2. \A d \in Clients : state_'[d] = "kConnecting" => state_[d] = "kConnecting"
    BY <1>3
  <2>3. QED
    BY <1>2, <1>4, <1>8, <2>1, <2>2, AllAwaited
<1>12. ASSUME NEW u \in Threads
       PROVE  TaskFits(u)' /\ EventsFit(u)'
  <2>1. EventsFit(u)'
    <3>1. CASE at[u] = "event"
      <4>1. \A d \in active[u] : d # acceptor => state_[d] = "kConnected" /\ Conn(todo[u]) # d
        BY <3>1 DEF Served, EventsFit
      <4>2. c \notin active[u]
        <5>1. c \in active[u] => u = LoopOf(c)
          BY ClientsAre DEF Inv, Placed, ChannelPlaced
        <5>2. QED
          BY <1>4, <1>9, <4>1, <5>1, ClientsAre
      <4>3. \A d \in active'[u] : state_[d] = "kConnected" => state_'[d] = "kConnected"
        BY <1>1, <1>2, <4>2 DEF Types, ConnTypes
      <4>4. Conn(todo'[u]) = Conn(todo[u])
        BY <1>4, <1>5, <1>8
      <4>5. QED
        BY <1>2, <4>3, <4>4, EventsKept DEF Served
    <3>2. CASE at[u] # "event"
      BY <1>2, <3>2 DEF EventsFit
    <3>3. QED
      BY <3>1, <3>2
  <2>2. TaskFits(u)'
    <3>1. CASE u = t
      BY <1>3, <1>5, <1>8, <3>1 DEF TaskFits
    <3>2. CASE u # t
      <4>1. TaskFits(u) /\ todo'[u] = todo[u]
        BY <1>8, <3>2 DEF Served
      <4>2. CASE Op(todo[u]) \in OwnOps
        <5>1. Conn(todo[u]) # c /\ Conn(todo[u]) \in Clients
          BY <1>9, <3>2, <4>2, InHand
        <5>2. QED
          BY <1>3, <4>1, <5>1, TaskFitsKept
      <4>3. CASE Op(todo[u]) \notin OwnOps
        BY <4>1, <4>3 DEF TaskFits, OwnOps
      <4>4. QED
        BY <4>2, <4>3
    <3>3. QED
      BY <3>1, <3>2
  <2>3. QED
    BY <2>1, <2>2
<1>13. QED
  BY <1>2, <1>10, <1>11, <1>12 DEF Served

Tells(op, c) == told' = [told EXCEPT ![c][op] = @ + 1]

(* What a callback finds, and what it is told. *)
LEMMA CallbackIs ==
  ASSUME Inv, Served, ~Elsewhere, NEW t \in Threads, NEW c \in Clients,
         NEW op \in {"up", "message", "down"}, Doing(t, op, c), Continue(t, Tail(todo[t]), {}),
         UNCHANGED <<acceptorVars, state_, channel_, serverVars, loopVars, pending>>,
         Tells(op, c)
  PROVE  /\ t = LoopOf(c) /\ Op(todo[t]) = op /\ Conn(todo[t]) = c /\ c \in held[t]
         /\ c < nextConnId_
         /\ state_[c] = IF op = "down" THEN "kDisconnected" ELSE "kConnected"
         /\ told[c].up = (IF op = "up" THEN 0 ELSE 1) /\ told[c].down = 0
         /\ told'[c].up = 1 /\ told'[c].down = (IF op = "down" THEN 1 ELSE 0)
         /\ told'[c].message = (IF op = "message" THEN told[c].message + 1 ELSE told[c].message)
         /\ \A d \in Clients : d # c => told'[d] = told[d]
         /\ todo'[t] = Tail(todo[t]) /\ \A u \in Threads : u # t => todo'[u] = todo[u]
         /\ IF op = "down" THEN Conn(todo'[t]) = c /\ Op(todo'[t]) \in {"closeCallback", "remove"}
                           ELSE todo'[t] = <<>>
<1>1. Op(todo[t]) = op /\ Conn(todo[t]) = c /\ Regular(todo[t])
  BY AccessIs
<1>2. t = LoopOf(c) /\ c \in held[t] /\ c < nextConnId_
  BY <1>1, InHand DEF OwnOps
<1>3. state_[c] = IF op = "down" THEN "kDisconnected" ELSE "kConnected"
  BY <1>1 DEF Served, TaskFits
<1>4. told[c].up = (IF op = "up" THEN 0 ELSE 1) /\ told[c].down = 0
  <2>1. /\ Busy("up", c) <=> op = "up"
        /\ Busy("down", c) <=> op = "down"
    BY <1>1, <1>2 DEF Busy
  <2>2. Heard(c)
    BY DEF Served
  <2>3. QED
    BY <1>3, <2>1, <2>2 DEF Heard
<1>5. told \in [Clients -> [up : Nat, message : Nat, down : Nat]]
  BY DEF Inv, Types, ConnTypes
<1>6. /\ told'[c] = [told[c] EXCEPT ![op] = @ + 1] /\ told[c] \in [up : Nat, message : Nat, down : Nat]
      /\ \A d \in Clients : d # c => told'[d] = told[d]
  BY <1>5 DEF Tells
<1>7. Onwards
  BY OnwardsIs DEF Inv, acceptorVars, serverVars
<1>8. pending' \in [Threads -> Seq(Functors)]
  BY DEF Inv, Types, LoopTypes
<1>9. todo'[t] = Tail(todo[t]) /\ \A u \in Threads : u # t => todo'[u] = todo[u]
  BY <1>7, <1>8, DoneMoves
<1>10. IF op = "down" THEN Conn(Tail(todo[t])) = c /\ Op(Tail(todo[t])) \in {"closeCallback", "remove"}
                      ELSE Tail(todo[t]) = <<>>
  <2>1. todo[t] # <<>>
    BY DEF Doing, Idle
  <2>2. QED
    BY <1>1, <2>1 DEF Regular
<1>11. /\ told'[c].up = 1 /\ told'[c].down = (IF op = "down" THEN 1 ELSE 0)
       /\ told'[c].message = (IF op = "message" THEN told[c].message + 1 ELSE told[c].message)
  <2>1. CASE op = "up"
    BY <1>4, <1>6, <2>1
  <2>2. CASE op = "message"
    BY <1>4, <1>6, <2>2
  <2>3. CASE op = "down"
    BY <1>4, <1>6, <2>3
  <2>4. QED
    BY <2>1, <2>2, <2>3
<1>12. QED
  BY <1>1, <1>2, <1>3, <1>4, <1>6, <1>9, <1>10, <1>11

LEMMA CallbackServed ==
  ASSUME Inv, Served, ~Elsewhere, NEW t \in Threads, NEW c \in Clients, Callback(t, c)
  PROVE  Served'
<1>1. PICK op \in {"up", "message", "down"} :
        /\ Doing(t, op, c) /\ Continue(t, Tail(todo[t]), {}) /\ pending' = pending
        /\ Tells(op, c) /\ UNCHANGED <<acceptorVars, state_, channel_, serverVars, loopVars>>
  BY DEF Callback, Done, Tells
<1>2. /\ Types /\ inLoop' = inLoop /\ batch' = batch /\ active' = active /\ at' = at
      /\ state_' = state_ /\ channel_' = channel_ /\ nextConnId_' = nextConnId_ /\ Threads' = Threads
  BY <1>1 DEF Inv, acceptorVars, loopVars, serverVars, Threads
<1>3. /\ t = LoopOf(c) /\ Op(todo[t]) = op /\ Conn(todo[t]) = c
      /\ state_[c] = IF op = "down" THEN "kDisconnected" ELSE "kConnected"
      /\ told'[c].up = 1 /\ told'[c].down = (IF op = "down" THEN 1 ELSE 0)
      /\ \A d \in Clients : d # c => told'[d] = told[d]
      /\ \A u \in Threads : u # t => todo'[u] = todo[u]
      /\ IF op = "down" THEN Conn(todo'[t]) = c /\ Op(todo'[t]) \in {"closeCallback", "remove"}
                        ELSE todo'[t] = <<>>
  <2>1. UNCHANGED <<acceptorVars, state_, channel_, serverVars, loopVars, pending>>
    BY <1>1
  <2>2. QED
    BY <1>1, <2>1, CallbackIs
<1>4. t = LoopOf(c)'
  BY <1>2, <1>3 DEF LoopOf, numThreads_, Threads
<1>5. Op(todo'[t]) \in {"none", "closeCallback", "remove"} /\ Conn(todo'[t]) \in {c, acceptor}
  BY <1>3, EmptyTask
<1>6. Heard(c)'
  <2>1. ~Busy("up", c)' /\ ~Busy("down", c)'
    BY <1>4, <1>5 DEF Busy
  <2>2. QED
    BY <1>2, <1>3, <2>1 DEF Heard
<1>7. \A d \in Clients : Heard(d)'
  <2>1. ASSUME NEW d \in Clients, d # c
        PROVE  Heard(d)'
    <3>1. \A u \in Threads : todo'[u] = todo[u] \/ (Conn(todo[u]) # d /\ Conn(todo'[u]) # d)
      BY <1>3, <1>5, <2>1, ClientsAre
    <3>2. QED
      BY <1>2, <1>3, <2>1, <3>1, HeardKept DEF Served
  <2>2. QED
    BY <1>6, <2>1
<1>8. \A d \in Clients : Awaited(d)'
  <2>1. \A u \in Threads : \A g \in Elems(Queue(u)) : g \in Elems(Queue(u)')
    BY <1>1, <1>2, NoQueueStep
  <2>2. QED
    BY <1>2, <1>3, <2>1, AllAwaited
<1>9. ASSUME NEW u \in Threads
      PROVE  TaskFits(u)' /\ EventsFit(u)'
  <2>1. EventsFit(u)'
    <3>1. Conn(todo'[u]) \in {Conn(todo[u]), acceptor}
      BY <1>3, <1>5
    <3>2. QED
      BY <1>2, <3>1, EventsKept DEF Served
  <2>2. TaskFits(u)'
    <3>1. CASE u = t
      BY <1>2, <1>3, <3>1, EmptyTask DEF TaskFits
    <3>2. CASE u # t
      BY <1>2, <1>3, <3>2, TaskFitsKept DEF Served
    <3>3. QED
      BY <3>1, <3>2
  <2>3. QED
    BY <2>1, <2>2
<1>10. QED
  BY <1>2, <1>7, <1>8, <1>9, WatchedKept DEF Served

LEMMA AccessesServed ==
  ASSUME Inv, Served, ~Elsewhere, NEW t \in Threads, Access(t)
  PROVE  Served'
BY ListenServed, InsertServed, EnableReadingServed, DisableAllServed, RemoveServed, CallbackServed,
   CloseCallbackServed, EraseServed DEF Access

-----------------------------------------------------------------------------
(* An iteration of a loop.                                                  *)

(* Thread t moves on and has in hand what it had. *)
LEMMA Turned ==
  ASSUME Inv, Served, NEW t \in Threads, UNCHANGED <<inLoop, nextConnId_, connVars, todo>>,
         \A u \in Threads : u # t => at'[u] = at[u] /\ active'[u] = active[u],
         \A u \in Threads : Queue(u)' = Queue(u), EventsFit(t)'
  PROVE  Served'
<1>1. /\ inLoop' = inLoop /\ nextConnId_' = nextConnId_ /\ todo' = todo
      /\ state_' = state_ /\ channel_' = channel_ /\ told' = told
  BY DEF connVars
<1>2. \A u \in Threads : \A g \in Elems(Queue(u)) : g \in Elems(Queue(u)')
  OBVIOUS
<1>3. \A c \in Clients : Awaited(c)'
  BY <1>1, <1>2, AllAwaited
<1>4. QED
  BY <1>1, <1>3, WatchedKept, Steady

LEMMA PollServed == ASSUME Inv, Served, NEW t \in Threads, Poll(t) PROVE Served'
<1>1. /\ Idle(t) /\ at' = [at EXCEPT ![t] = "event"]
      /\ UNCHANGED <<acceptorVars, connVars, serverVars, batch, threadVars>>
  BY DEF Poll
<1>2. PICK chs \in SUBSET Ready(t) : active' = [active EXCEPT ![t] = chs]
  BY DEF Poll
<1>3. /\ UNCHANGED <<inLoop, nextConnId_, connVars, todo>> /\ batch' = batch /\ pending' = pending
      /\ at \in [Threads -> Places] /\ active \in [Threads -> SUBSET (0..MaxClients)]
  BY <1>1 DEF acceptorVars, serverVars, threadVars, Inv, Types, LoopTypes
<1>4. /\ \A u \in Threads : u # t => at'[u] = at[u] /\ active'[u] = active[u]
      /\ active'[t] = chs /\ state_' = state_
  BY <1>1, <1>2, <1>3 DEF connVars
<1>5. \A u \in Threads : Queue(u)' = Queue(u)
  BY <1>3, SameQueues
<1>6. ASSUME NEW c \in chs, c # acceptor
      PROVE  state_[c] = "kConnected"
  <2>1. c \in Clients /\ "in" \in channel_[c].interest
    BY <1>6 DEF Ready, InUse
  <2>2. channel_[c].events # {}
    BY <2>1 DEF Inv, Agreed, Agrees
  <2>3. QED
    BY <2>1, <2>2 DEF Served, Watched
<1>7. Conn(todo'[t]) = acceptor
  BY <1>1, <1>3, IdleIs
<1>8. EventsFit(t)'
  BY <1>4, <1>6, <1>7 DEF EventsFit
<1>9. QED
  BY <1>3, <1>4, <1>5, <1>8, Turned

LEMMA EventDoneServed == ASSUME Inv, Served, NEW t \in Threads, EventDone(t) PROVE Served'
<1>1. /\ Idle(t) /\ at' = [at EXCEPT ![t] = "functors"] /\ at[t] = "event"
      /\ batch' = [batch EXCEPT ![t] = pending[t]] /\ pending' = [pending EXCEPT ![t] = <<>>]
      /\ UNCHANGED <<acceptorVars, connVars, serverVars, active, todo>>
  BY DEF EventDone
<1>2. /\ UNCHANGED <<inLoop, nextConnId_, connVars, todo>> /\ LoopTypes
  BY <1>1 DEF acceptorVars, serverVars, Inv, Types
<1>3. /\ \A u \in Threads : u # t => at'[u] = at[u] /\ active'[u] = active[u]
      /\ at'[t] # "event"
  BY <1>1, <1>2 DEF LoopTypes
<1>4. batch[t] = <<>>
  BY <1>1, IdleIs
<1>5. \A u \in Threads : Queue(u)' = Queue(u)
  <2>1. PICK p \in Seq(Functors) : p = pending[t]
    BY <1>2 DEF LoopTypes
  <2>2. p \o <<>> = p /\ <<>> \o p = p
    BY ConcatEmptySeq
  <2>3. /\ batch'[t] = p /\ pending'[t] = <<>>
        /\ \A u \in Threads : u # t => batch'[u] = batch[u] /\ pending'[u] = pending[u]
    BY <1>1, <1>2, <2>1 DEF LoopTypes
  <2>4. QED
    BY <1>4, <2>1, <2>2, <2>3 DEF Queue
<1>6. EventsFit(t)'
  BY <1>3 DEF EventsFit
<1>7. QED
  BY <1>2, <1>3, <1>5, <1>6, Turned

LEMMA FunctorsDoneServed == ASSUME Inv, Served, NEW t \in Threads, FunctorsDone(t) PROVE Served'
<1>1. /\ at' = [at EXCEPT ![t] = "poll"]
      /\ UNCHANGED <<acceptorVars, connVars, serverVars, active, batch, todo, pending>>
  BY DEF FunctorsDone
<1>2. /\ UNCHANGED <<inLoop, nextConnId_, connVars, todo>> /\ LoopTypes
  BY <1>1 DEF acceptorVars, serverVars, Inv, Types
<1>3. /\ \A u \in Threads : u # t => at'[u] = at[u] /\ active'[u] = active[u]
      /\ at'[t] # "event"
  BY <1>1, <1>2 DEF LoopTypes
<1>4. \A u \in Threads : Queue(u)' = Queue(u)
  BY <1>1, SameQueues
<1>5. EventsFit(t)'
  BY <1>3 DEF EventsFit
<1>6. QED
  BY <1>2, <1>3, <1>4, <1>5, Turned

LEMMA HandleAcceptServed ==
  ASSUME Inv, Served, NEW t \in Threads, HandleAccept(t)
  PROVE  Served'
<1>1. /\ Handling(t, acceptor)
      /\ UNCHANGED <<acceptorVars, clientVars, connVars, connections_, at, events_, batch, pending>>
  BY DEF HandleAccept
<1>2. /\ \A u \in Threads : active'[u] \subseteq active[u]
      /\ \A u \in Threads : u # t => active'[u] = active[u]
      /\ at[t] = "event" /\ todo[t] = <<>> /\ Conn(todo[t]) = acceptor
  BY <1>1, HandlingIs
<1>3. /\ Types /\ inLoop' = inLoop /\ Threads' = Threads /\ at' = at
      /\ batch' = batch /\ pending' = pending
      /\ state_' = state_ /\ channel_' = channel_ /\ told' = told
  BY <1>1 DEF Inv, acceptorVars, connVars, Threads
<1>4. \A u \in Threads : Queue(u)' = Queue(u)
  BY <1>3, SameQueues
<1>5. CASE arrived >= nextConnId_ /\ Cardinality(InUse) < maxFds
  <2>1. /\ nextConnId_' = nextConnId_ + 1
        /\ Continue(t, <<Call("insert", nextConnId_)>>, {nextConnId_})
    BY <1>5 DEF HandleAccept, NewConnection
  <2>2. nextConnId_ \in Clients
    <3>1. nextConnId_ \in 1..(arrived + 1) /\ arrived \in 0..MaxClients
      BY <1>3 DEF Types, ServerTypes
    <3>2. QED
      BY <1>5, <3>1, ServerAssumption DEF Clients
  <2>3. PICK c \in Clients : c = nextConnId_ /\ c # acceptor /\ c \in Nat
    BY <2>2, ClientsAre
  <2>4. PICK s \in Shapes : s = <<Call("insert", c)>>
    <3>1. <<Call("insert", c)>> \in Tasks(c)
      BY DEF Tasks
    <3>2. QED
      BY <3>1 DEF Shapes
  <2>5. Op(s) = "insert" /\ Conn(s) = c /\ Continue(t, s, {c}) /\ {c} \in SUBSET Clients
    BY <2>1, <2>3, <2>4, LastCall
  <2>6. todo'[t] = s /\ \A u \in Threads : u # t => todo'[u] = todo[u]
    BY <1>3, <2>5, Continues
  <2>7. \A d \in Clients : Awaited(d)'
    <3>1. Awaited(c)'
      BY <1>3, <2>5, <2>6 DEF Awaited, Inserting
    <3>2. ASSUME NEW d \in Clients, d # c
          PROVE  Awaited(d)'
      <4>1. d < nextConnId_' => d < nextConnId_
        BY <2>1, <2>3, <3>2, ClientsAre
      <4>2. \A u \in Threads : Conn(todo[u]) = d => todo'[u] = todo[u]
        BY <1>2, <2>6, ClientsAre
      <4>3. QED
        BY <1>3, <1>4, <4>1, <4>2, AwaitedKept DEF Served
    <3>3. QED
      BY <3>1, <3>2
  <2>8. EventsFit(t)'
    <3>1. c \notin active'[t]
      BY <1>2, <2>2, <2>3, NextIs
    <3>2. QED
      BY <1>2, <1>3, <2>5, <2>6, <3>1, EventsKept DEF Served
  <2>9. TaskFits(t)' /\ Op(todo[t]) = "none"
    BY <1>2, <2>5, <2>6, EmptyTask DEF TaskFits
  <2>10. QED
    BY <1>2, <1>3, <2>5, <2>6, <2>7, <2>8, <2>9, WatchedKept, Steady
<1>6. CASE ~(arrived >= nextConnId_ /\ Cardinality(InUse) < maxFds)
  <2>1. UNCHANGED <<inLoop, nextConnId_, connVars, todo>>
    BY <1>1, <1>3, <1>6 DEF HandleAccept
  <2>2. EventsFit(t)'
    <3>1. todo' = todo
      BY <2>1
    <3>2. QED
      BY <1>2, <1>3, <3>1, EventsKept DEF Served
  <2>3. QED
    BY <1>2, <1>3, <1>4, <2>1, <2>2, Turned
<1>7. QED
  BY <1>5, <1>6

LEMMA HandleReadServed ==
  ASSUME Inv, Served, NEW t \in Threads, NEW c \in Clients, HandleRead(t, c)
  PROVE  Served'
<1>1. /\ Handling(t, c)
      /\ UNCHANGED <<acceptorVars, arrived, connVars, serverVars, at, events_, batch, pending>>
  BY DEF HandleRead
<1>2. /\ \A u \in Threads : active'[u] \subseteq active[u]
      /\ \A u \in Threads : u # t => active'[u] = active[u]
      /\ at[t] = "event" /\ todo[t] = <<>> /\ Conn(todo[t]) = acceptor
  BY <1>1, HandlingIs
<1>3. /\ Types /\ inLoop' = inLoop /\ at' = at /\ batch' = batch /\ pending' = pending
      /\ state_' = state_ /\ channel_' = channel_ /\ told' = told /\ nextConnId_' = nextConnId_
  BY <1>1 DEF Inv, acceptorVars, connVars, serverVars
<1>4. c \in active[t] /\ c \notin active'[t] /\ c # acceptor
  <2>1. c \in active[t] /\ active' = [active EXCEPT ![t] = @ \ {c}]
    BY <1>1 DEF Handling
  <2>2. QED
    BY <1>3, <2>1, ClientsAre DEF Types, LoopTypes
<1>5. state_[c] = "kConnected"
  BY <1>2, <1>4 DEF Served, EventsFit
<1>6. PICK s \in Shapes :
        Continue(t, s, {c}) /\ Op(s) \in {"message", "disableAll"} /\ Conn(s) = c
  <2>1. CASE peer[c].data
    <3>1. PICK s \in Shapes : s = <<Call("message", c)>>
      <4>1. <<Call("message", c)>> \in Tasks(c)
        BY DEF Tasks
      <4>2. QED
        BY <4>1 DEF Shapes
    <3>2. Continue(t, s, {c})
      BY <2>1, <3>1 DEF HandleRead
    <3>3. QED
      BY <3>1, <3>2, LastCall
  <2>2. CASE ~peer[c].data
    <3>1. PICK s \in Shapes : s = <<Call("disableAll", c), Call("down", c), Call("closeCallback", c)>>
      <4>1. <<Call("disableAll", c), Call("down", c), Call("closeCallback", c)>> \in Tasks(c)
        BY DEF Tasks
      <4>2. QED
        BY <4>1 DEF Shapes
    <3>2. [i \in 1..3 |-> Call(<<"disableAll", "down", "closeCallback">>[i], c)] = s
      BY <3>1
    <3>3. Continue(t, s, {c})
      BY <2>2, <3>2 DEF HandleRead
    <3>4. QED
      BY <3>1, <3>3, ThreeCalls
  <2>3. QED
    BY <2>1, <2>2
<1>7. todo'[t] = s /\ \A u \in Threads : u # t => todo'[u] = todo[u]
  <2>1. {c} \in SUBSET Clients
    OBVIOUS
  <2>2. QED
    BY <1>3, <1>6, <2>1, Continues
<1>8. \A d \in Clients : Awaited(d)'
  <2>1. \A u \in Threads : \A g \in Elems(Queue(u)) : g \in Elems(Queue(u)')
    BY <1>3, NoQueueStep
  <2>2. QED
    BY <1>2, <1>3, <1>7, <2>1, ClientsAre, AllAwaited
<1>9. EventsFit(t)'
  BY <1>2, <1>3, <1>4, <1>6, <1>7, EventsKept DEF Served
<1>10. TaskFits(t)' /\ Op(todo[t]) = "none"
  BY <1>2, <1>3, <1>5, <1>6, <1>7, EmptyTask DEF TaskFits
<1>11. QED
  BY <1>2, <1>3, <1>6, <1>7, <1>8, <1>9, <1>10, WatchedKept, Steady

(* Thread t, which had nothing in hand, goes on with something. *)
LEMMA TakenServed ==
  ASSUME Inv, Inv', Served, NEW t \in Threads, Idle(t), at[t] # "event",
         UNCHANGED <<inLoop, nextConnId_, connVars, at, active>>,
         \A u \in Threads : u # t => todo'[u] = todo[u],
         Op(todo'[t]) \in {"none", "listen", "erase", "enableReading", "disableAll", "remove"},
         Op(todo'[t]) \in {"disableAll", "remove"} =>
           /\ Conn(todo'[t]) \in Clients
           /\ Op(todo'[t]) = "disableAll" <=> state_[Conn(todo'[t])] = "kConnected",
         \A c \in Clients : Awaited(c)'
  PROVE  Served'
<1>1. /\ inLoop' = inLoop /\ at' = at /\ active' = active /\ Threads' = Threads
      /\ state_' = state_ /\ channel_' = channel_ /\ told' = told
  BY DEF connVars, Threads
<1>2. Op(todo[t]) = "none"
  BY IdleIs
<1>3. EventsFit(t)'
  BY <1>1 DEF EventsFit
<1>4. TaskFits(t)'
  <2>1. CASE Op(todo'[t]) = "remove"
    <3>1. PICK c \in Clients : c = Conn(todo'[t])
      BY <2>1
    <3>2. Fresh(c)'
      BY DEF Inv, Lives
    <3>3. state_'[c] # "kConnecting"
      BY <1>1, <2>1, <3>1, <3>2 DEF Fresh
    <3>4. state_[c] \in {"kConnecting", "kConnected", "kDisconnected"}
      BY DEF Inv, Types, ConnTypes
    <3>5. QED
      BY <1>1, <2>1, <3>1, <3>3, <3>4 DEF TaskFits
  <2>2. CASE Op(todo'[t]) # "remove"
    BY <1>1, <2>2 DEF TaskFits
  <2>3. QED
    BY <2>1, <2>2
<1>5. \A c \in Clients : Watched(c)'
  BY <1>1, WatchedKept
<1>6. QED
  BY <1>1, <1>2, <1>3, <1>4, <1>5, Steady

(* The functors that end a connection. *)
LEMMA EndingBody ==
  ASSUME NEW c \in Clients, NEW f \in {Rem(c), Des(c)}
  PROVE  /\ Op(Body(f)) \in {"erase", "disableAll", "remove"} /\ Conn(Body(f)) = c
         /\ Op(Body(f)) = "disableAll" => state_[c] = "kConnected"
         /\ Op(Body(f)) = "remove" => state_[c] # "kConnected"
<1>1. CASE f = Rem(c)
  <2>1. PICK s : s = <<Call("erase", c)>>
    OBVIOUS
  <2>2. Body(f) = s
    BY <1>1, <2>1, FunctorsDiffer DEF Body
  <2>3. QED
    BY <2>1, <2>2, LastCall
<1>2. CASE f = Des(c) /\ state_[c] = "kConnected"
  <2>1. PICK s : s = <<Call("disableAll", c), Call("down", c), Call("remove", c)>>
    OBVIOUS
  <2>2. Body(f) = s
    BY <1>2, <2>1, FunctorsDiffer DEF Body
  <2>3. QED
    BY <1>2, <2>1, <2>2, ThreeCalls
<1>3. CASE f = Des(c) /\ state_[c] # "kConnected"
  <2>1. PICK s : s = <<Call("remove", c)>>
    OBVIOUS
  <2>2. Body(f) = s
    BY <1>3, <2>1, FunctorsDiffer DEF Body
  <2>3. QED
    BY <1>3, <2>1, <2>2, LastCall
<1>4. QED
  BY <1>1, <1>2, <1>3

LEMMA RunFunctorServed == ASSUME Inv, Served, NEW t \in Threads, RunFunctor(t) PROVE Served'
<1>1. /\ at[t] = "functors" /\ Idle(t) /\ batch[t] # <<>>
      /\ batch' = [batch EXCEPT ![t] = Tail(@)] /\ Continue(t, Body(Head(batch[t])), {})
      /\ UNCHANGED <<acceptorVars, connVars, serverVars, at, active, pending>>
  BY DEF RunFunctor
<1>2. /\ Types /\ inLoop' = inLoop /\ Threads' = Threads /\ pending' = pending
      /\ nextConnId_' = nextConnId_ /\ state_' = state_ /\ todo \in [Threads -> Shapes]
      /\ UNCHANGED <<inLoop, nextConnId_, connVars, at, active>>
  BY <1>1 DEF Inv, Types, LoopTypes, acceptorVars, connVars, serverVars, Threads
<1>3. Inv'
  BY RunFunctorKeeps
<1>4. PICK f \in Functors : f = Head(batch[t]) /\ f \in Elems(Queue(t))
  BY <1>1, <1>2, Takes
<1>5. \A u \in Threads : \A g \in Elems(Queue(u)) : g = f \/ g \in Elems(Queue(u)')
  <2>1. PICK q \in Seq(Functors) : q = Queue(t)
    BY <1>2, QueuesAre
  <2>2. /\ q # <<>> /\ Head(q) = f /\ Queue(t)' = Tail(q)
        /\ \A u \in Threads : u # t => Queue(u)' = Queue(u)
    BY <1>1, <1>2, <1>4, <2>1, Takes
  <2>3. Elems(q) = Elems(Tail(q)) \cup {f}
    BY <2>2, TailElems
  <2>4. QED
    BY <2>1, <2>2, <2>3
<1>6. /\ todo'[t] = Body(f) /\ \A u \in Threads : u # t => todo'[u] = todo[u]
  BY <1>1, <1>2, <1>4 DEF Continue
<1>7. PICK c \in 0..MaxClients : c = f.conn /\ f = Call(f.op, c)
  BY <1>4 DEF Functors, Call
<1>8. FunctorPlaced(t, f) /\ f.op \in {"listen", "connectEstablished", "removeConnectionInLoop", "connectDestroyed"}
  BY <1>4 DEF Inv, Placed, Functors
<1>9. todo[t] = <<>> /\ Conn(todo[t]) = acceptor
  BY <1>1, IdleIs
<1>10. ASSUME NEW d \in Clients, f # Est(d)
       PROVE  Awaited(d)'
  <2>1. \A u \in Threads : Est(d) \in Elems(Queue(u)) => Est(d) \in Elems(Queue(u)')
    BY <1>5, <1>10
  <2>2. \A u \in Threads : Conn(todo[u]) = d => todo'[u] = todo[u]
    BY <1>6, <1>9, ClientsAre
  <2>3. QED
    BY <1>2, <2>1, <2>2, AwaitedKept DEF Served
<1>11. CASE f.op = "listen"
  <2>1. \A d \in Clients : f # Est(d)
    BY <1>11, FunctorsDiffer
  <2>2. Op(todo'[t]) = "listen"
    <3>1. Body(f) = <<Call("listen", c)>>
      BY <1>7, <1>11 DEF Body
    <3>2. PICK s : s = <<Call("listen", c)>>
      OBVIOUS
    <3>3. QED
      BY <1>6, <3>1, <3>2, LastCall
  <2>3. QED
    BY <1>1, <1>2, <1>3, <1>6, <1>10, <2>1, <2>2, TakenServed
<1>12. CASE f.op = "connectEstablished"
  <2>1. c \in Clients /\ f = Est(c)
    BY <1>7, <1>8, <1>12 DEF FunctorPlaced, Est
  <2>2. Op(todo'[t]) = "enableReading" /\ Conn(todo'[t]) = c
    <3>1. Body(f) = <<Call("enableReading", c), Call("up", c)>>
      BY <1>7, <1>12 DEF Body
    <3>2. PICK s : s = <<Call("enableReading", c), Call("up", c)>>
      OBVIOUS
    <3>3. QED
      BY <1>6, <3>1, <3>2, TwoCalls
  <2>3. \A d \in Clients : Awaited(d)'
    <3>1. Opening(c)'
      BY <1>2, <2>2 DEF Opening, Enabling
    <3>2. Awaited(c)'
      BY <3>1 DEF Awaited
    <3>3. \A d \in Clients : d # c => f # Est(d)
      BY <2>1, FunctorsDiffer
    <3>4. QED
      BY <1>10, <3>2, <3>3
  <2>4. QED
    BY <1>1, <1>2, <1>3, <1>6, <2>2, <2>3, TakenServed
<1>13. CASE f.op \in {"removeConnectionInLoop", "connectDestroyed"}
  <2>1. c \in Clients /\ f \in {Rem(c), Des(c)}
    BY <1>7, <1>8, <1>13 DEF FunctorPlaced, Rem, Des
  <2>2. \A d \in Clients : f # Est(d)
    BY <1>13, FunctorsDiffer
  <2>3. /\ Op(todo'[t]) \in {"erase", "disableAll", "remove"} /\ Conn(todo'[t]) = c
        /\ Op(todo'[t]) = "disableAll" => state_[c] = "kConnected"
        /\ Op(todo'[t]) = "remove" => state_[c] # "kConnected"
    BY <1>6, <2>1, EndingBody
  <2>4. QED
    BY <1>1, <1>2, <1>3, <1>6, <1>10, <2>1, <2>2, <2>3, TakenServed
<1>14. QED
  BY <1>8, <1>11, <1>12, <1>13

LEMMA LoopServed ==
  ASSUME Inv, Served, ~Elsewhere, NEW t \in Threads, Loop(t)
  PROVE  Served'
BY AccessesServed, PollServed, HandleAcceptServed, HandleReadServed, EventDoneServed,
   RunFunctorServed, FunctorsDoneServed DEF Loop

-----------------------------------------------------------------------------
(* The server's user, and its clients.                                      *)

LEMMA StartServed == ASSUME Inv, Served, Start PROVE Served'
<1>1. /\ at[0] = "off" /\ at' = [t \in Threads |-> "poll"]
      /\ RunInLoop(0, 0, Call("listen", acceptor), <<>>, {})
      /\ UNCHANGED <<acceptorVars, connVars, serverVars, active, batch>>
  BY DEF Start
<1>2. /\ Types /\ inLoop' = inLoop /\ Threads' = Threads /\ batch' = batch
      /\ nextConnId_' = nextConnId_ /\ state_' = state_ /\ channel_' = channel_
      /\ told' = told /\ 0 \in Threads /\ LoopTypes
  BY <1>1, ThreadsAre DEF Inv, Types, acceptorVars, connVars, serverVars, Threads
<1>3. todo[0] = <<>>
  BY <1>1, <1>2, ShapeIs DEF Inv, Where, LoopTypes, Goals, Regular
<1>4. PICK s \in Shapes :
        /\ Continue(0, s, {}) /\ s \in {<<>>, <<Call("listen", acceptor)>>}
        /\ \/ pending' = pending
           \/ pending' = [pending EXCEPT ![0] = Append(@, Call("listen", acceptor))]
  <2>1. <<>> \in Shapes /\ <<Call("listen", acceptor)>> \in Shapes
    BY DEF Shapes
  <2>2. Body(Call("listen", acceptor)) \o <<>> = <<Call("listen", acceptor)>>
    <3>1. Body(Call("listen", acceptor)) = <<Call("listen", acceptor)>>
      BY DEF Body, Call
    <3>2. \A x : <<x>> \o <<>> = <<x>>
      OBVIOUS
    <3>3. QED
      BY <3>1, <3>2
  <2>3. QED
    BY <1>1, <2>1, <2>2 DEF RunInLoop
<1>5. Op(s) \in {"none", "listen"}
  <2>1. CASE s = <<>>
    BY <2>1, EmptyTask
  <2>2. CASE s = <<Call("listen", acceptor)>>
    BY <2>2, LastCall
  <2>3. QED
    BY <1>4, <2>1, <2>2
<1>6. todo'[0] = s /\ \A u \in Threads : u # 0 => todo'[u] = todo[u]
  BY <1>2, <1>4, Continues
<1>7. \A u \in Threads : \A g \in Elems(Queue(u)) : g \in Elems(Queue(u)')
  <2>1. CASE pending' = pending
    BY <1>2, <2>1, NoQueueStep
  <2>2. CASE pending' = [pending EXCEPT ![0] = Append(@, Call("listen", acceptor))]
    <3>1. PICK f \in Functors : f = Call("listen", acceptor)
      <4>1. Call("listen", acceptor) \in Functors
        BY ClientsAre DEF Call, Functors
      <4>2. QED
        BY <4>1
    <3>2. pending' = [pending EXCEPT ![0] = Append(@, f)]
      BY <2>2, <3>1
    <3>3. QED
      BY <1>2, <3>2, AppendStep
  <2>3. QED
    BY <1>4, <2>1, <2>2
<1>8. \A c \in Clients : Awaited(c)'
  BY <1>2, <1>3, <1>6, <1>7, EmptyTask, AllAwaited
<1>9. \A c \in Clients : Heard(c)'
  <2>1. \A u \in Threads : \/ todo'[u] = todo[u]
                           \/ Op(todo[u]) \notin {"up", "down"} /\ Op(todo'[u]) \notin {"up", "down"}
    BY <1>3, <1>5, <1>6, EmptyTask
  <2>2. QED
    BY <1>2, <2>1, HeardKept DEF Served
<1>10. ASSUME NEW u \in Threads
       PROVE  TaskFits(u)' /\ EventsFit(u)'
  <2>1. EventsFit(u)'
    BY <1>1 DEF EventsFit
  <2>2. TaskFits(u)'
    <3>1. CASE u = 0
      BY <1>5, <1>6, <3>1 DEF TaskFits
    <3>2. CASE u # 0
      BY <1>2, <1>6, <3>2, TaskFitsKept DEF Served
    <3>3. QED
      BY <3>1, <3>2
  <2>3. QED
    BY <2>1, <2>2
<1>11. QED
  BY <1>2, <1>8, <1>9, <1>10, WatchedKept DEF Served

(* The base loop's thread turns to something else than its events. *)
LEMMA BaseServed ==
  ASSUME Inv, Served, NEW place, place # "event", at' = [at EXCEPT ![0] = place],
         UNCHANGED <<inLoop, connVars, serverVars, active, batch, threadVars>>
  PROVE  Served'
<1>1. /\ UNCHANGED <<inLoop, nextConnId_, connVars, todo>> /\ LoopTypes /\ 0 \in Threads
      /\ active' = active /\ batch' = batch /\ pending' = pending
  BY ThreadsAre DEF serverVars, threadVars, Inv, Types
<1>2. /\ \A u \in Threads : u # 0 => at'[u] = at[u] /\ active'[u] = active[u]
      /\ at'[0] # "event"
  BY <1>1 DEF LoopTypes
<1>3. \A u \in Threads : Queue(u)' = Queue(u)
  BY <1>1, SameQueues
<1>4. EventsFit(0)'
  BY <1>2 DEF EventsFit
<1>5. QED
  BY <1>1, <1>2, <1>3, <1>4, Turned

LEMMA DestroyNextServed ==
  ASSUME Inv, Served, NEW c \in Clients, DestroyNext(c)
  PROVE  Served'
<1>1. /\ at[0] = "destroying" /\ Idle(0)
      /\ RunInLoop(0, LoopOf(c), Des(c), <<>>, {c})
      /\ UNCHANGED <<acceptorVars, connVars, nextConnId_, loopVars>>
  BY DEF DestroyNext, Des
<1>2. /\ LoopTypes /\ Types /\ inLoop' = inLoop /\ at' = at /\ batch' = batch
      /\ nextConnId_' = nextConnId_ /\ state_' = state_ /\ 0 \in Threads
      /\ UNCHANGED <<inLoop, nextConnId_, connVars, at, active>>
  BY <1>1, ThreadsAre DEF Inv, Types, acceptorVars, connVars, loopVars
<1>3. Inv'
  BY DestroyNextKeeps
<1>4. todo[0] = <<>> /\ Conn(todo[0]) = acceptor
  BY <1>1, <1>2, IdleIs
<1>5. PICK s \in Shapes :
        /\ Continue(0, s, {c})
        /\ Op(s) \in {"none", "erase", "disableAll", "remove"}
        /\ Op(s) # "none" => Conn(s) = c
        /\ Op(s) = "disableAll" => state_[c] = "kConnected"
        /\ Op(s) = "remove" => state_[c] # "kConnected"
        /\ \A u \in Threads : \A g \in Elems(Queue(u)) : g \in Elems(Queue(u)')
  <2>1. CASE inLoop[0]
    <3>1. PICK f \in {Rem(c), Des(c)} : f = Des(c)
      OBVIOUS
    <3>2. PICK s \in Shapes : s = Body(f)
      BY ToldBody
    <3>3. s \o <<>> = s
      BY ShapeTypes, ConcatEmptySeq
    <3>4. Continue(0, s, {c}) /\ pending' = pending
      BY <1>1, <2>1, <3>1, <3>2, <3>3 DEF RunInLoop
    <3>5. \A u \in Threads : \A g \in Elems(Queue(u)) : g \in Elems(Queue(u)')
      BY <1>2, <3>4, NoQueueStep
    <3>6. /\ Op(s) \in {"erase", "disableAll", "remove"} /\ Conn(s) = c
          /\ Op(s) = "disableAll" => state_[c] = "kConnected"
          /\ Op(s) = "remove" => state_[c] # "kConnected"
      BY <3>2, EndingBody
    <3>7. QED
      BY <3>4, <3>5, <3>6
  <2>2. CASE ~inLoop[0]
    <3>1. PICK l \in Threads : l = LoopOf(c)
      BY <1>2, ThreadsAre DEF Types
    <3>2. PICK f \in Functors : f = Des(c)
      BY FunctorsAre
    <3>3. Continue(0, <<>>, {c}) /\ pending' = [pending EXCEPT ![l] = Append(@, f)]
      BY <1>1, <2>2, <3>1, <3>2 DEF RunInLoop
    <3>4. \A u \in Threads : \A g \in Elems(Queue(u)) : g \in Elems(Queue(u)')
      BY <1>2, <3>3, AppendStep
    <3>5. QED
      BY <3>3, <3>4, EmptyTask
  <2>3. QED
    BY <2>1, <2>2
<1>6. todo'[0] = s /\ \A u \in Threads : u # 0 => todo'[u] = todo[u]
  <2>1. {c} \in SUBSET Clients
    OBVIOUS
  <2>2. QED
    BY <1>2, <1>5, <2>1, Continues
<1>7. \A d \in Clients : Awaited(d)'
  BY <1>2, <1>4, <1>5, <1>6, EmptyTask, ClientsAre, AllAwaited
<1>8. QED
  BY <1>1, <1>2, <1>3, <1>5, <1>6, <1>7, TakenServed

LEMMA UserServed == ASSUME Inv, Served, User PROVE Served'
<1>1. CASE LoopReturn
  <2>1. at' = [at EXCEPT ![0] = "ended"]
    BY <1>1 DEF LoopReturn
  <2>2. UNCHANGED <<inLoop, connVars, serverVars, active, batch, threadVars>>
    BY <1>1 DEF LoopReturn, acceptorVars
  <2>3. QED
    BY <2>1, <2>2, BaseServed
<1>2. CASE Destroy
  <2>1. at' = [at EXCEPT ![0] = "destroying"]
    BY <1>2 DEF Destroy
  <2>2. UNCHANGED <<inLoop, connVars, serverVars, active, batch, threadVars>>
    BY <1>2 DEF Destroy, acceptorVars
  <2>3. QED
    BY <2>1, <2>2, BaseServed
<1>3. CASE Destroyed
  <2>1. PICK place \in {"joining", "gone"} : at' = [at EXCEPT ![0] = place]
    BY <1>3 DEF Destroyed
  <2>2. UNCHANGED <<inLoop, connVars, serverVars, active, batch, threadVars>>
    BY <1>3 DEF Destroyed
  <2>3. QED
    BY <2>1, <2>2, BaseServed
<1>4. QED
  BY <1>1, <1>2, <1>3, StartServed, DestroyNextServed DEF User

LEMMA NothingServed ==
  ASSUME Inv, Served, UNCHANGED <<inLoop, connVars, serverVars, loopVars, threadVars>>
  PROVE  Served'
<1>1. /\ UNCHANGED <<inLoop, nextConnId_, connVars, todo>> /\ 0 \in Threads
      /\ active' = active /\ batch' = batch /\ pending' = pending /\ at' = at
  BY ThreadsAre DEF serverVars, loopVars, threadVars, Inv, Types
<1>2. \A u \in Threads : Queue(u)' = Queue(u)
  BY <1>1, SameQueues
<1>3. EventsFit(0)'
  <2>1. state_' = state_ /\ todo' = todo
    BY <1>1 DEF connVars
  <2>2. QED
    BY <1>1, <2>1 DEF Served, EventsFit
<1>4. QED
  BY <1>1, <1>2, <1>3, Turned

LEMMA NextServed == ASSUME Inv, Served, ~Elsewhere, [Next]_vars PROVE Served'
<1>1. CASE Peers
  <2>1. UNCHANGED <<inLoop, connVars, serverVars, loopVars, threadVars>>
    BY <1>1 DEF Peers, acceptorVars
  <2>2. QED
    BY <2>1, NothingServed
<1>2. CASE UNCHANGED vars
  <2>1. UNCHANGED <<inLoop, connVars, serverVars, loopVars, threadVars>>
    BY <1>2 DEF vars, acceptorVars
  <2>2. QED
    BY <2>1, NothingServed
<1>3. QED
  BY <1>1, <1>2, LoopServed, UserServed DEF Next

LEMMA InitServed == Init => Served
<1> SUFFICES ASSUME Init PROVE Served
  OBVIOUS
<1>1. Inv
  BY InitInv
<1>2. ASSUME NEW t \in Threads
      PROVE  todo[t] = <<>> /\ at[t] = "off" /\ Op(todo[t]) = "none"
  BY <1>2, EmptyTask DEF Init, LoopsInit
<1>3. ASSUME NEW c \in Clients
      PROVE  Heard(c) /\ Watched(c) /\ Awaited(c)
  <2>1. /\ state_[c] = "kConnecting" /\ channel_[c] = NewChannel
        /\ told[c] = [up |-> 0, message |-> 0, down |-> 0] /\ nextConnId_ = 1
    BY DEF Init, ConnectionsInit
  <2>2. c >= 1 /\ c \in Nat
    BY ServerAssumption DEF Clients
  <2>3. NewChannel.events = {}
    BY DEF NewChannel
  <2>4. QED
    BY <2>1, <2>2, <2>3 DEF Heard, Watched, Awaited
<1>4. QED
  BY <1>2, <1>3 DEF Served, TaskFits, EventsFit

-----------------------------------------------------------------------------
(* Where a client stands.                                                   *)

Stage(c) ==
  IF Alive(c) THEN IF told[c].up = 0 THEN "accepted" ELSE IF told[c].down = 0 THEN "up" ELSE "down"
    ELSE IF c < nextConnId_ THEN "released" ELSE IF c <= arrived THEN "waiting" ELSE "away"

Sound == ~Elsewhere => Served

LEMMA StageIs == Types => \A c \in Clients : PhaseOf(c) = Stage(c)
<1> SUFFICES ASSUME Types, NEW c \in Clients PROVE PhaseOf(c) = Stage(c)
  OBVIOUS
<1>1. nextConnId_ \in Nat /\ arrived \in Nat /\ nextConnId_ <= arrived + 1 /\ c \in Nat
  BY ServerAssumption, ClientsAre DEF Types, ServerTypes
<1>2. told[c].up \in Nat /\ told[c].down \in Nat
  BY DEF Types, ConnTypes
<1>3. Alive(c) => c < nextConnId_
  BY DEF Alive
<1>4. /\ c > arrived <=> ~(c <= arrived)
      /\ c >= nextConnId_ <=> ~(c < nextConnId_)
      /\ c < nextConnId_ => c <= arrived
  BY <1>1
<1>5. told[c].up > 0 <=> told[c].up # 0
  BY <1>2
<1>6. CASE Alive(c)
  BY <1>3, <1>4, <1>5, <1>6 DEF PhaseOf, Stage
<1>7. CASE ~Alive(c)
  BY <1>4, <1>7 DEF PhaseOf, Stage
<1>8. QED
  BY <1>6, <1>7

(* The same after a step: they hold in every state. *)
Staged == Types => \A c \in Clients : PhaseOf(c) = Stage(c)

LEMMA StageBecomes == Types' => \A c \in Clients : PhaseOf(c)' = Stage(c)'
<1>1. Staged
  BY StageIs DEF Staged
<1>2. Staged'
  BY <1>1, PTL
<1>3. QED
  BY <1>2 DEF Staged

LaidDown ==
  Inv /\ Served =>
    \A c \in Clients : c < nextConnId_ =>
      /\ state_[c] # "kDisconnected" \/ Busy("down", c) => Alive(c)
      /\ ~Alive(c) => told[c].up = 1 /\ told[c].down = 1

LEMMA LaidDownAgain == LaidDown'
<1>1. LaidDown
  BY ServedIs DEF LaidDown
<1>2. QED
  BY <1>1, PTL

LEMMA LaysDown ==
  ASSUME Inv', Served', NEW c \in Clients, c < nextConnId_'
  PROVE  /\ state_'[c] # "kDisconnected" \/ Busy("down", c)' => Alive(c)'
         /\ ~Alive(c)' => told'[c].up = 1 /\ told'[c].down = 1
BY LaidDownAgain DEF LaidDown

-----------------------------------------------------------------------------
(* Steps of the service.                                                    *)

Phase == [c \in Clients |-> IF Elsewhere THEN "away" ELSE PhaseOf(c)]
Messages == [c \in Clients |-> IF Elsewhere THEN 0 ELSE told[c].message]

LEMMA PhaseIs ==
  ASSUME Inv, Inv', inLoop' = inLoop, ~Elsewhere
  PROVE  /\ Phase = [c \in Clients |-> Stage(c)] /\ Phase' = [c \in Clients |-> Stage(c)']
         /\ Messages = [c \in Clients |-> told[c].message]
         /\ Messages' = [c \in Clients |-> told'[c].message]
<1>1. Elsewhere' <=> Elsewhere
  BY DEF Elsewhere, numThreads_, Threads
<1>2. \A c \in Clients : PhaseOf(c) = Stage(c) /\ PhaseOf(c)' = Stage(c)'
  BY StageIs, StageBecomes DEF Inv
<1>3. QED
  BY <1>1, <1>2 DEF Phase, Messages

LEMMA MoveIs ==
  ASSUME Inv, Inv', inLoop' = inLoop, ~Elsewhere, maxFds' = maxFds, NEW c \in Clients,
         \A d \in Clients : d # c => Stage(d)' = Stage(d),
         \A d \in Clients : told'[d].message = told[d].message,
         NEW from, NEW to, Stage(c) = from, Stage(c)' = to
  PROVE  Service!Move(c, from, to)
<1>1. Messages' = Messages
  BY PhaseIs
<1>2. Phase[c] = from /\ Phase' = [Phase EXCEPT ![c] = to]
  BY PhaseIs
<1>3. QED
  BY <1>1, <1>2 DEF Service!Move, Phase, Messages

(* Connections whose last shared_ptr goes. *)
LEMMA ReleaseIs ==
  ASSUME Inv, Inv', inLoop' = inLoop, ~Elsewhere, Served', maxFds' = maxFds,
         nextConnId_' = nextConnId_, arrived' = arrived, told' = told,
         \A c \in Clients : Alive(c)' => Alive(c)
  PROVE  Service!Next
<1> DEFINE S == {c \in Clients : Alive(c) /\ ~Alive(c)'}
<1>1. ASSUME NEW c \in S
      PROVE  Stage(c) = "down" /\ Stage(c)' = "released"
  <2>1. c \in Clients /\ c < nextConnId_ /\ Alive(c) /\ ~Alive(c)'
    BY DEF Alive
  <2>2. told[c].up = 1 /\ told[c].down = 1
    BY <2>1, LaysDown
  <2>3. QED
    BY <2>1, <2>2 DEF Stage
<1>2. ASSUME NEW c \in Clients, c \notin S
      PROVE  Stage(c)' = Stage(c)
  <2>1. Alive(c)' <=> Alive(c)
    BY <1>2
  <2>2. QED
    BY <2>1 DEF Stage
<1>3. S \in SUBSET Clients
  OBVIOUS
<1> HIDE DEF S
<1>4. /\ \A c \in S : Phase[c] = "down"
      /\ Phase' = [c \in Clients |-> IF c \in S THEN "released" ELSE Phase[c]]
      /\ Messages' = Messages
  <2>1. Messages' = Messages
    BY PhaseIs
  <2>2. \A c \in Clients : Stage(c)' = IF c \in S THEN "released" ELSE Phase[c]
    BY <1>1, <1>2, PhaseIs
  <2>3. \A c \in S : Phase[c] = "down"
    BY <1>1, <1>3, PhaseIs
  <2>4. Phase' = [c \in Clients |-> Stage(c)']
    BY PhaseIs
  <2>5. QED
    BY <2>1, <2>2, <2>3, <2>4
<1>5. Service!Release(S)
  BY <1>4 DEF Service!Release, Phase, Messages
<1>6. QED
  BY <1>3, <1>5 DEF Service!Next

(* Connection a, which is there, is handed on: nobody gets hold of another  *)
(* that does not hold it already.                                           *)
LEMMA HandsOn ==
  ASSUME Inv, Inv', inLoop' = inLoop, ~Elsewhere, Served', maxFds' = maxFds,
         nextConnId_' = nextConnId_, arrived' = arrived, told' = told,
         NEW a, a \in Clients => Alive(a), \A c \in connections_' : c \in connections_ \/ c = a,
         \A u \in Threads : \A c \in held'[u] : c \in held[u] \/ c = a,
         \A u \in Threads : \A f \in Elems(pending'[u]) : f \in Elems(pending[u]) \/ f.conn = a
  PROVE  Service!Next
<1>1. Threads' = Threads
  BY DEF Threads
<1>2. ASSUME NEW c \in Clients, Alive(c)'
      PROVE  Alive(c)
  <2>1. c < nextConnId_
    BY <1>2 DEF Alive
  <2>2. CASE c = a
    BY <2>2
  <2>3. CASE c # a /\ c \in connections_'
    BY <2>1, <2>3 DEF Alive
  <2>4. ASSUME NEW u \in Threads, c \in held'[u], c # a
        PROVE  Alive(c)
    BY <2>1, <2>4 DEF Alive
  <2>5. ASSUME NEW u \in Threads, NEW i \in DOMAIN pending'[u], pending'[u][i].conn = c, c # a
        PROVE  Alive(c)
    <3>1. pending'[u][i] \in Elems(pending[u])
      BY <2>5 DEF Elems
    <3>2. QED
      BY <2>1, <2>5, <3>1 DEF Elems, Alive
  <2>6. QED
    BY <1>1, <1>2, <2>2, <2>3, <2>4, <2>5 DEF Alive
<1>3. QED
  BY <1>2, ReleaseIs

Hands(a) ==
  /\ \A u \in Threads : \A c \in held'[u] : c \in held[u] \/ c = a
  /\ \A u \in Threads : \A f \in Elems(pending'[u]) : f \in Elems(pending[u]) \/ f.conn = a

LEMMA HandsContinue ==
  ASSUME Types, NEW t \in Threads, NEW s, NEW refs, NEW a, refs \subseteq {a}, Continue(t, s, refs),
         pending' = pending
  PROVE  Hands(a)
<1>1. held \in [Threads -> SUBSET Clients]
  BY DEF Types, LoopTypes
<1>2. held' = [held EXCEPT ![t] = IF s = <<>> /\ at[t] # "functors" THEN {} ELSE held[t] \cup refs]
  BY DEF Continue
<1>3. QED
  BY <1>1, <1>2 DEF Hands

LEMMA HandsAppend ==
  ASSUME Types, NEW t \in Threads, NEW l \in Threads, NEW f \in Functors, NEW s, NEW refs,
         refs \subseteq {f.conn}, Continue(t, s, refs),
         pending' = [pending EXCEPT ![l] = Append(@, f)]
  PROVE  Hands(f.conn)
<1>1. /\ held \in [Threads -> SUBSET Clients] /\ pending \in [Threads -> Seq(Functors)]
      /\ pending[l] \in Seq(Functors)
  BY DEF Types, LoopTypes
<1>2. held' = [held EXCEPT ![t] = IF s = <<>> /\ at[t] # "functors" THEN {} ELSE held[t] \cup refs]
  BY DEF Continue
<1>3. \A u \in Threads : \A c \in held'[u] : c \in held[u] \/ c = f.conn
  BY <1>1, <1>2
<1>4. Elems(Append(pending[l], f)) = Elems(pending[l]) \cup {f}
  BY <1>1, AppendElems
<1>5. \A u \in Threads : pending'[u] = IF u = l THEN Append(pending[l], f) ELSE pending[u]
  BY <1>1
<1>6. \A u \in Threads : \A g \in Elems(pending'[u]) : g \in Elems(pending[u]) \/ g.conn = f.conn
  BY <1>4, <1>5
<1>7. QED
  BY <1>3, <1>6 DEF Hands

LEMMA HandsRunInLoop ==
  ASSUME Types, NEW t \in Threads, NEW l \in Threads, NEW f \in Functors, NEW s, NEW refs,
         refs \subseteq {f.conn}, RunInLoop(t, l, f, s, refs)
  PROVE  Hands(f.conn)
BY HandsContinue, HandsAppend DEF RunInLoop

(* What a thread has in hand is there. *)
LEMMA InHandAlive ==
  ASSUME Inv, NEW t \in Threads, NEW op, NEW c \in Clients, Doing(t, op, c)
  PROVE  Alive(c)
<1>1. /\ Regular(todo[t]) /\ Op(todo[t]) = op /\ Conn(todo[t]) = c /\ Where(t) /\ TaskPlaced(t)
      /\ c # acceptor
  BY AccessIs, ClientsAre
<1>2. Goal(todo[t]) \notin {"none", "listen"}
  BY <1>1 DEF Regular
<1>3. c < nextConnId_ /\ c \in held[t]
  BY <1>1, <1>2 DEF Where, TaskPlaced
<1>4. QED
  BY <1>3 DEF Alive

(* Steps that only hand a connection on or give some up. *)
LEMMA LendIs ==
  ASSUME Inv, Inv', ~Elsewhere, Served',
         UNCHANGED <<inLoop, maxFds, nextConnId_, arrived, told>>,
         NEW a, a \in Clients => Alive(a), \A c \in connections_' : c \in connections_ \/ c = a,
         Hands(a)
  PROVE  Service!Next
BY HandsOn DEF Hands

LEMMA DoneLends ==
  ASSUME Inv, Inv', ~Elsewhere, Served', NEW t \in Threads, NEW op, NEW c, Done(t, op, c),
         UNCHANGED <<inLoop, maxFds, clientVars, told, serverVars>>
  PROVE  Service!Next
<1>1. /\ UNCHANGED <<inLoop, maxFds, nextConnId_, arrived, told>> /\ connections_' = connections_
      /\ Types
  BY DEF clientVars, serverVars, Inv
<1>2. Hands(acceptor) /\ acceptor \notin Clients
  BY <1>1, HandsContinue, ClientsAre DEF Done
<1>3. QED
  BY <1>1, <1>2, LendIs

LEMMA AccessLends ==
  ASSUME Inv, Inv', ~Elsewhere, Served', NEW t \in Threads, Access(t),
         \A c \in Clients : ~Callback(t, c)
  PROVE  Service!Next
<1>1. CASE Listen(t)
  BY <1>1, DoneLends DEF Listen, connVars
<1>2. ASSUME NEW c \in Clients, EnableReading(t, c) \/ DisableAll(t, c) \/ Remove(t, c)
      PROVE  Service!Next
  BY <1>2, DoneLends DEF EnableReading, DisableAll, Remove, acceptorVars
<1>3. ASSUME NEW c \in Clients, NEW op, Doing(t, op, c), NEW l \in Threads, NEW f \in Functors, f.conn = c,
             NEW s, RunInLoop(t, l, f, s, {}),
             UNCHANGED <<acceptorVars, clientVars, connVars, nextConnId_>>,
             \A d \in connections_' : d \in connections_ \/ d = c
      PROVE  Service!Next
  <2>1. UNCHANGED <<inLoop, maxFds, nextConnId_, arrived, told>> /\ Types
    BY <1>3 DEF acceptorVars, clientVars, connVars, Inv
  <2>2. Hands(c)
    BY <1>3, <2>1, HandsRunInLoop
  <2>3. Alive(c)
    BY <1>3, InHandAlive
  <2>4. QED
    BY <1>3, <2>1, <2>2, <2>3, LendIs
<1>4. ASSUME NEW c \in Clients, Insert(t, c)
      PROVE  Service!Next
  <2>1. PICK f \in Functors : f = Est(c) /\ f.conn = c
    BY FunctorsAre, FunctorsDiffer
  <2>2. PICK l \in Threads : l = LoopOf(c)
    BY ThreadsAre DEF Inv, Types
  <2>3. /\ Doing(t, "insert", c) /\ RunInLoop(t, l, f, Tail(todo[t]), {})
        /\ UNCHANGED <<acceptorVars, clientVars, connVars, nextConnId_>>
    BY <1>4, <2>1, <2>2 DEF Insert, Est
  <2>4. \A d \in connections_' : d \in connections_ \/ d = c
    BY <1>4 DEF Insert
  <2>5. QED
    BY <1>3, <2>1, <2>3, <2>4
<1>5. ASSUME NEW c \in Clients, CloseCallback(t, c)
      PROVE  Service!Next
  <2>1. PICK f \in Functors : f = Rem(c) /\ f.conn = c
    BY FunctorsAre, FunctorsDiffer
  <2>2. PICK l \in Threads : l = 0
    BY ThreadsAre DEF Inv, Types
  <2>3. /\ Doing(t, "closeCallback", c) /\ RunInLoop(t, l, f, Tail(todo[t]), {})
        /\ UNCHANGED <<acceptorVars, clientVars, connVars, nextConnId_>>
    BY <1>5, <2>1, <2>2 DEF CloseCallback, Rem, serverVars
  <2>4. \A d \in connections_' : d \in connections_ \/ d = c
    BY <1>5 DEF CloseCallback, serverVars
  <2>5. QED
    BY <1>3, <2>1, <2>3, <2>4
<1>6. ASSUME NEW c \in Clients, Erase(t, c)
      PROVE  Service!Next
  <2>1. PICK f \in Functors : f = Des(c) /\ f.conn = c
    BY FunctorsAre, FunctorsDiffer
  <2>2. PICK l \in Threads : l = LoopOf(c)
    BY ThreadsAre DEF Inv, Types
  <2>3. /\ Doing(t, "erase", c) /\ Continue(t, Tail(todo[t]), {})
        /\ pending' = [pending EXCEPT ![l] = Append(@, f)]
        /\ UNCHANGED <<inLoop, maxFds, nextConnId_, arrived, told>>
        /\ \A d \in connections_' : d \in connections_ \/ d = c
    BY <1>6, <2>1, <2>2 DEF Erase, Des, acceptorVars, clientVars, connVars
  <2>4. Hands(c)
    BY <2>1, <2>3, HandsAppend DEF Inv
  <2>5. Alive(c)
    BY <2>3, InHandAlive
  <2>6. QED
    BY <2>3, <2>4, <2>5, LendIs
<1>7. QED
  BY <1>1, <1>2, <1>4, <1>5, <1>6 DEF Access

(* A callback is what the service tells of a client. *)
LEMMA CallbackTells ==
  ASSUME Inv, Inv', Served, Served', ~Elsewhere, NEW t \in Threads, NEW c \in Clients, Callback(t, c)
  PROVE  Service!Next
<1>1. PICK op \in {"up", "message", "down"} :
        /\ Doing(t, op, c) /\ Continue(t, Tail(todo[t]), {}) /\ pending' = pending
        /\ Tells(op, c) /\ UNCHANGED <<acceptorVars, state_, channel_, serverVars, loopVars>>
        /\ UNCHANGED clientVars
  BY DEF Callback, Done, Tells
<1>2. /\ Types /\ inLoop' = inLoop /\ maxFds' = maxFds /\ Threads' = Threads /\ arrived' = arrived
      /\ nextConnId_' = nextConnId_ /\ connections_' = connections_ /\ state_' = state_
      /\ held \in [Threads -> SUBSET Clients]
  BY <1>1 DEF Inv, Types, LoopTypes, acceptorVars, clientVars, serverVars, Threads
<1>3. /\ Conn(todo[t]) = c /\ c < nextConnId_
      /\ state_[c] = IF op = "down" THEN "kDisconnected" ELSE "kConnected"
      /\ told[c].up = (IF op = "up" THEN 0 ELSE 1) /\ told[c].down = 0
      /\ told'[c].up = 1 /\ told'[c].down = (IF op = "down" THEN 1 ELSE 0)
      /\ told'[c].message = (IF op = "message" THEN told[c].message + 1 ELSE told[c].message)
      /\ \A d \in Clients : d # c => told'[d] = told[d]
      /\ op = "down" => Conn(todo'[t]) = c
  <2>1. UNCHANGED <<acceptorVars, state_, channel_, serverVars, loopVars, pending>>
    BY <1>1
  <2>2. QED
    BY <1>1, <2>1, CallbackIs
<1>4. Alive(c)
  BY <1>1, InHandAlive
<1>5. Alive(c)'
  <2>1. CASE op = "down"
    <3>1. Where(t)' /\ c # acceptor
      BY <1>2, ClientsAre DEF Inv
    <3>2. c \in held'[t]
      BY <1>3, <2>1, <3>1 DEF Where
    <3>3. QED
      BY <1>2, <1>3, <3>2 DEF Alive
  <2>2. CASE op # "down"
    BY <1>2, <1>3, <2>2, LaysDown
  <2>3. QED
    BY <2>1, <2>2
<1>6. ASSUME NEW d \in Clients, d # c
      PROVE  Stage(d)' = Stage(d)
  <2>1. held' = [held EXCEPT ![t] = IF Tail(todo[t]) = <<>> /\ at[t] # "functors" THEN {} ELSE held[t]]
    BY <1>1 DEF Continue
  <2>2. at[t] # "functors" => held[t] \subseteq {c}
    BY <1>3 DEF Inv, Where
  <2>3. \A u \in Threads : d \in held'[u] <=> d \in held[u]
    BY <1>2, <1>6, <2>1, <2>2
  <2>4. Alive(d)' <=> Alive(d)
    BY <1>1, <1>2, <2>3 DEF Alive
  <2>5. QED
    BY <1>2, <1>3, <1>6, <2>4 DEF Stage
<1>7. CASE op \in {"up", "down"}
  <2>1. \A d \in Clients : told'[d].message = told[d].message
    BY <1>3, <1>7
  <2>2. CASE op = "up"
    <3>1. Stage(c) = "accepted" /\ Stage(c)' = "up"
      BY <1>3, <1>4, <1>5, <2>2 DEF Stage
    <3>2. Service!Up(c)
      BY <1>2, <1>6, <2>1, <3>1, MoveIs DEF Service!Up
    <3>3. QED
      BY <3>2 DEF Service!Next
  <2>3. CASE op = "down"
    <3>1. Stage(c) = "up" /\ Stage(c)' = "down"
      BY <1>3, <1>4, <1>5, <2>3 DEF Stage
    <3>2. Service!Down(c)
      BY <1>2, <1>6, <2>1, <3>1, MoveIs DEF Service!Down
    <3>3. QED
      BY <3>2 DEF Service!Next
  <2>4. QED
    BY <1>7, <2>2, <2>3
<1>8. CASE op = "message"
  <2>1. Stage(c) = "up" /\ Stage(c)' = "up"
    BY <1>3, <1>4, <1>5, <1>8 DEF Stage
  <2>2. Phase[c] = "up" /\ Phase' = Phase
    BY <1>2, <1>6, <2>1, PhaseIs
  <2>3. Messages' = [Messages EXCEPT ![c] = @ + 1]
    <3>1. \A d \in Clients : told'[d].message =
            IF d = c THEN told[d].message + 1 ELSE told[d].message
      BY <1>3, <1>8
    <3>2. QED
      BY <1>2, <3>1, PhaseIs
  <2>4. Service!Message(c)
    BY <1>2, <2>2, <2>3 DEF Service!Message, Phase, Messages
  <2>5. QED
    BY <2>4 DEF Service!Next
<1>9. QED
  BY <1>7, <1>8

(* Acceptor::handleRead takes the first in the backlog, or nobody. *)
LEMMA HandleAcceptTakes ==
  ASSUME Inv, Inv', Served', ~Elsewhere, NEW t \in Threads, HandleAccept(t)
  PROVE  Service!Next
<1>1. /\ Handling(t, acceptor)
      /\ UNCHANGED <<inLoop, maxFds, arrived, told>> /\ connections_' = connections_ /\ pending' = pending
  BY DEF HandleAccept, acceptorVars, clientVars, connVars
<1>2. /\ Types /\ Threads' = Threads /\ at[t] = "event" /\ todo[t] = <<>> /\ held[t] = {}
      /\ inLoop' = inLoop /\ maxFds' = maxFds /\ arrived' = arrived /\ told' = told
  BY <1>1, HandlingIs DEF Inv, Threads
<1>3. CASE arrived >= nextConnId_ /\ Cardinality(InUse) < maxFds
  <2>1. /\ nextConnId_' = nextConnId_ + 1
        /\ Continue(t, <<Call("insert", nextConnId_)>>, {nextConnId_})
    BY <1>3 DEF HandleAccept, NewConnection
  <2>2. nextConnId_ \in Nat /\ arrived \in Nat /\ nextConnId_ \in Clients
    <3>1. nextConnId_ \in 1..(arrived + 1) /\ arrived \in 0..MaxClients
      BY <1>2 DEF Types, ServerTypes
    <3>2. QED
      BY <1>3, <3>1, ServerAssumption DEF Clients
  <2>3. PICK c \in Clients : c = nextConnId_ /\ c <= arrived /\ c < nextConnId_' /\ ~(c < nextConnId_)
    BY <1>3, <2>1, <2>2
  <2>4. held' = [held EXCEPT ![t] = {c}]
    <3>1. <<Call("insert", c)>> # <<>> /\ held[t] \cup {c} = {c}
      BY <1>2
    <3>2. QED
      BY <2>1, <2>3, <3>1 DEF Continue
  <2>5. held \in [Threads -> SUBSET Clients]
    BY <1>2 DEF Types, LoopTypes
  <2>6. Stage(c) = "waiting" /\ Stage(c)' = "accepted"
    <3>1. ~Alive(c) /\ Alive(c)'
      BY <1>2, <2>3, <2>4, <2>5 DEF Alive
    <3>2. told[c].up = 0
      BY <2>3, NextIs
    <3>3. QED
      BY <1>2, <2>3, <3>1, <3>2 DEF Stage
  <2>7. ASSUME NEW d \in Clients, d # c
        PROVE  Stage(d)' = Stage(d)
    <3>1. d < nextConnId_' <=> d < nextConnId_
      BY <2>1, <2>2, <2>3, <2>7, ClientsAre
    <3>2. \A u \in Threads : d \in held'[u] <=> d \in held[u]
      BY <1>2, <2>4, <2>5, <2>7
    <3>3. Alive(d)' <=> Alive(d)
      BY <1>1, <1>2, <3>1, <3>2 DEF Alive
    <3>4. QED
      BY <1>2, <3>1, <3>3 DEF Stage
  <2>8. Service!Move(c, "waiting", "accepted")
    BY <1>2, <2>6, <2>7, MoveIs
  <2>9. /\ \A d \in Clients : Phase[d] = "waiting" => c <= d
        /\ {d \in Clients : Phase[d] \in {"accepted", "up", "down"}} = InUse
    <3>1. ASSUME NEW d \in Clients
          PROVE  /\ Stage(d) = "waiting" => ~(d < nextConnId_)
                 /\ Stage(d) \in {"accepted", "up", "down"} <=> Alive(d)
      BY DEF Stage
    <3>2. \A d \in Clients : ~(d < nextConnId_) => c <= d
      BY <2>2, <2>3, ClientsAre
    <3>3. QED
      BY <1>2, <3>1, <3>2, PhaseIs DEF InUse
  <2>10. Service!Accept(c)
    <3>1. Service!InService = InUse
      BY <2>9 DEF Service!InService, Phase
    <3>2. \A d \in Clients : Phase[d] = "waiting" => c <= d
      BY <2>9
    <3>3. Service!Cardinality(Service!InService) < maxFds
      <4>1. Service!Cardinality(InUse) = Cardinality(InUse)
        BY DEF Service!Cardinality, Cardinality
      <4>2. QED
        BY <1>3, <3>1, <4>1
    <3>4. QED
      BY <2>8, <3>2, <3>3 DEF Service!Accept, Phase
  <2>11. QED
    BY <2>10 DEF Service!Next
<1>4. CASE ~(arrived >= nextConnId_ /\ Cardinality(InUse) < maxFds)
  <2>1. UNCHANGED <<nextConnId_, held>>
    BY <1>4 DEF HandleAccept
  <2>2. Hands(acceptor) /\ acceptor \notin Clients
    BY <1>1, <2>1, ClientsAre DEF Hands
  <2>3. QED
    BY <1>1, <2>1, <2>2, LendIs
<1>5. QED
  BY <1>3, <1>4

(* The other steps of a loop. *)
LEMMA LoopLends ==
  ASSUME Inv, Inv', Served', ~Elsewhere, NEW t \in Threads,
         \/ Poll(t) \/ (\E c \in Clients : HandleRead(t, c)) \/ EventDone(t) \/ RunFunctor(t)
         \/ FunctorsDone(t)
  PROVE  Service!Next
<1>1. /\ UNCHANGED <<inLoop, maxFds, nextConnId_, arrived, told>> /\ connections_' = connections_
      /\ Types /\ acceptor \notin Clients
  BY ClientsAre DEF Poll, HandleRead, EventDone, RunFunctor, FunctorsDone, acceptorVars, clientVars,
                    connVars, serverVars, Inv
<1>2. held \in [Threads -> SUBSET Clients] /\ pending \in [Threads -> Seq(Functors)]
  BY <1>1 DEF Types, LoopTypes
<1>3. CASE Poll(t)
  <2>1. held' = held /\ pending' = pending
    BY <1>3 DEF Poll, threadVars
  <2>2. Hands(acceptor)
    BY <2>1 DEF Hands
  <2>3. QED
    BY <1>1, <2>2, LendIs
<1>4. ASSUME NEW c \in Clients, HandleRead(t, c)
      PROVE  Service!Next
  <2>1. PICK s : Continue(t, s, {c})
    BY <1>4 DEF HandleRead
  <2>2. pending' = pending /\ Alive(c)
    BY <1>4 DEF HandleRead
  <2>3. Hands(c)
    BY <1>1, <2>1, <2>2, HandsContinue
  <2>4. QED
    BY <1>1, <2>2, <2>3, LendIs
<1>5. CASE EventDone(t)
  <2>1. /\ held' = [held EXCEPT ![t] = {pending[t][i].conn : i \in DOMAIN pending[t]} \ {acceptor}]
        /\ pending' = [pending EXCEPT ![t] = <<>>]
    BY <1>5 DEF EventDone
  <2>2. Threads' = Threads
    BY <1>1 DEF Threads
  <2>3. ASSUME NEW c \in Clients, Alive(c)'
        PROVE  Alive(c)
    <3>1. c < nextConnId_
      BY <1>1, <2>3 DEF Alive
    <3>2. CASE c \in connections_
      BY <3>1, <3>2 DEF Alive
    <3>3. ASSUME NEW u \in Threads, c \in held'[u]
          PROVE  Alive(c)
      <4>1. c \in held[u] \/ \E i \in DOMAIN pending[u] : pending[u][i].conn = c
        BY <1>2, <2>1, <3>3
      <4>2. QED
        BY <3>1, <4>1 DEF Alive
    <3>4. ASSUME NEW u \in Threads, NEW i \in DOMAIN pending'[u], pending'[u][i].conn = c
          PROVE  Alive(c)
      <4>1. u # t
        <5>1. u = t => pending'[u] = <<>> /\ DOMAIN <<>> = {}
          BY <1>2, <2>1
        <5>2. QED
          BY <5>1
      <4>2. pending'[u] = pending[u]
        BY <1>2, <2>1, <4>1
      <4>3. QED
        BY <3>1, <3>4, <4>2 DEF Alive
    <3>5. QED
      BY <1>1, <2>2, <2>3, <3>2, <3>3, <3>4 DEF Alive
  <2>4. QED
    BY <1>1, <2>3, ReleaseIs
<1>6. CASE RunFunctor(t)
  <2>1. PICK s : Continue(t, s, {})
    BY <1>6 DEF RunFunctor
  <2>2. pending' = pending
    BY <1>6 DEF RunFunctor
  <2>3. Hands(acceptor)
    BY <1>1, <2>1, <2>2, HandsContinue
  <2>4. QED
    BY <1>1, <2>3, LendIs
<1>7. CASE FunctorsDone(t)
  <2>1. held' = [held EXCEPT ![t] = {}] /\ pending' = pending
    BY <1>7 DEF FunctorsDone
  <2>2. Hands(acceptor)
    BY <1>2, <2>1 DEF Hands
  <2>3. QED
    BY <1>1, <2>2, LendIs
<1>8. QED
  BY <1>3, <1>4, <1>5, <1>6, <1>7

LEMMA UserLends ==
  ASSUME Inv, Inv', Served', ~Elsewhere, User
  PROVE  Service!Next
<1>1. /\ UNCHANGED <<inLoop, maxFds, nextConnId_, arrived, told>> /\ 0 \in Threads
      /\ Types /\ acceptor \notin Clients
  BY ClientsAre, ThreadsAre DEF User, Start, LoopReturn, Destroy, DestroyNext, Destroyed,
     acceptorVars, clientVars, connVars, serverVars, Inv, Types
<1>2. CASE Start
  <2>1. PICK f \in Functors : f = Call("listen", acceptor) /\ f.conn = acceptor
    <3>1. Call("listen", acceptor) \in Functors /\ Call("listen", acceptor).conn = acceptor
      BY ClientsAre DEF Call, Functors
    <3>2. QED
      BY <3>1
  <2>2. RunInLoop(0, 0, f, <<>>, {}) /\ connections_' = connections_
    BY <1>2, <2>1 DEF Start, serverVars
  <2>3. Hands(acceptor)
    BY <1>1, <2>1, <2>2, HandsRunInLoop
  <2>4. QED
    BY <1>1, <2>2, <2>3, LendIs
<1>3. CASE LoopReturn \/ Destroy \/ Destroyed
  <2>1. held' = held /\ pending' = pending /\ connections_' = connections_
    BY <1>3 DEF LoopReturn, Destroy, Destroyed, threadVars, serverVars
  <2>2. Hands(acceptor)
    BY <2>1 DEF Hands
  <2>3. QED
    BY <1>1, <2>1, <2>2, LendIs
<1>4. ASSUME NEW c \in Clients, DestroyNext(c)
      PROVE  Service!Next
  <2>1. PICK f \in Functors : f = Des(c) /\ f.conn = c
    BY FunctorsAre, FunctorsDiffer
  <2>2. PICK l \in Threads : l = LoopOf(c)
    BY <1>1, ThreadsAre DEF Types
  <2>3. RunInLoop(0, l, f, <<>>, {c}) /\ c \in connections_ /\ connections_' = connections_ \ {c}
    BY <1>4, <2>1, <2>2 DEF DestroyNext, Des
  <2>4. Hands(c)
    BY <1>1, <2>1, <2>3, HandsRunInLoop
  <2>5. Alive(c)
    BY <1>1, <2>3 DEF Types, ServerTypes, Alive
  <2>6. QED
    BY <1>1, <2>3, <2>4, <2>5, LendIs
<1>5. QED
  BY <1>2, <1>3, <1>4 DEF User

LEMMA PeersAre ==
  ASSUME Inv, Inv', Served', ~Elsewhere, Peers
  PROVE  Service!Next
<1>1. /\ UNCHANGED <<inLoop, maxFds, nextConnId_, told, held, pending>> /\ connections_' = connections_
      /\ Types /\ Threads' = Threads
  BY DEF Peers, acceptorVars, connVars, serverVars, threadVars, Inv, Threads
<1>2. CASE Arrive
  <2>1. arrived' = arrived + 1 /\ arrived \in Nat /\ arrived + 1 \in Clients
        /\ nextConnId_ \in Nat /\ nextConnId_ <= arrived + 1
    <3>1. arrived < MaxClients /\ arrived' = arrived + 1
      BY <1>2 DEF Arrive
    <3>2. nextConnId_ \in 1..(arrived + 1) /\ arrived \in 0..MaxClients
      BY <1>1 DEF Types, ServerTypes
    <3>3. QED
      BY <3>1, <3>2, ServerAssumption DEF Clients
  <2>2. PICK c \in Clients : c = arrived + 1 /\ ~(c < nextConnId_) /\ ~(c <= arrived) /\ c <= arrived'
    BY <2>1
  <2>3. ASSUME NEW d \in Clients
        PROVE  Alive(d)' <=> Alive(d)
    BY <1>1 DEF Alive
  <2>4. Stage(c) = "away" /\ Stage(c)' = "waiting"
    <3>1. ~Alive(c)
      BY <2>2 DEF Alive
    <3>2. QED
      BY <1>1, <2>2, <2>3, <3>1 DEF Stage
  <2>5. ASSUME NEW d \in Clients, d # c
        PROVE  Stage(d)' = Stage(d)
    <3>1. d <= arrived' <=> d <= arrived
      BY <2>1, <2>2, <2>5, ClientsAre
    <3>2. QED
      BY <1>1, <2>3, <3>1 DEF Stage
  <2>6. Service!Move(c, "away", "waiting")
    BY <1>1, <2>4, <2>5, MoveIs
  <2>7. \A d \in Clients : d < c => Phase[d] # "away"
    <3>1. ASSUME NEW d \in Clients, d < c
          PROVE  Stage(d) # "away"
      <4>1. d <= arrived
        BY <2>1, <2>2, <3>1, ClientsAre
      <4>2. QED
        BY <4>1 DEF Stage
    <3>2. QED
      BY <1>1, <3>1, PhaseIs
  <2>8. Service!Arrive(c)
    BY <2>6, <2>7 DEF Service!Arrive, Phase
  <2>9. QED
    BY <2>8 DEF Service!Next
<1>3. CASE \E c \in Clients : PeerSends(c) \/ PeerCloses(c)
  <2>1. arrived' = arrived
    BY <1>3 DEF PeerSends, PeerCloses
  <2>2. Hands(acceptor) /\ acceptor \notin Clients
    BY <1>1, ClientsAre DEF Hands
  <2>3. QED
    BY <1>1, <2>1, <2>2, LendIs
<1>4. QED
  BY <1>2, <1>3 DEF Peers

-----------------------------------------------------------------------------
(* The refinement.                                                          *)

LEMMA InLoopStays == [Next]_vars => inLoop' = inLoop /\ maxFds' = maxFds
<1>1. ASSUME NEW t \in Threads, Loop(t)
      PROVE  inLoop' = inLoop /\ maxFds' = maxFds
  BY <1>1 DEF Loop, Access, Listen, Insert, EnableReading, DisableAll, Remove, Callback, CloseCallback,
     Erase, Poll, HandleAccept, HandleRead, EventDone, RunFunctor, FunctorsDone, acceptorVars
<1>2. User \/ Peers \/ UNCHANGED vars => inLoop' = inLoop /\ maxFds' = maxFds
  BY DEF User, Start, LoopReturn, Destroy, DestroyNext, Destroyed, Peers, vars, acceptorVars
<1>3. QED
  BY <1>1, <1>2 DEF Next

LEMMA NextSound == Inv /\ Sound /\ [Next]_vars => Sound'
<1> SUFFICES ASSUME Inv, Sound, [Next]_vars, ~Elsewhere' PROVE Served'
  BY DEF Sound
<1>1. ~Elsewhere
  BY InLoopStays DEF Elsewhere, numThreads_, Threads
<1>2. QED
  BY <1>1, NextServed DEF Sound

LEMMA StepIs ==
  ASSUME Inv, Inv', Served, Served', ~Elsewhere, [Next]_vars
  PROVE  [Service!Next]_(Service!vars)
<1>1. ASSUME NEW t \in Threads, Loop(t)
      PROVE  Service!Next
  <2>1. CASE Access(t)
    BY <2>1, AccessLends, CallbackTells
  <2>2. CASE HandleAccept(t)
    BY <2>2, HandleAcceptTakes
  <2>3. QED
    BY <1>1, <2>1, <2>2, LoopLends DEF Loop
<1>2. CASE User \/ Peers
  BY <1>2, UserLends, PeersAre
<1>3. CASE UNCHANGED vars
  <2>1. /\ UNCHANGED <<inLoop, maxFds, nextConnId_, arrived, told, held, pending>>
        /\ connections_' = connections_
    BY <1>3 DEF vars, acceptorVars, clientVars, connVars, serverVars, threadVars
  <2>2. Hands(acceptor) /\ acceptor \notin Clients
    BY <2>1, ClientsAre DEF Hands
  <2>3. QED
    BY <2>1, <2>2, LendIs
<1>4. QED
  BY <1>1, <1>2, <1>3 DEF Next

LEMMA StepImplements ==
  Inv /\ Inv' /\ Sound /\ Sound' /\ [Next]_vars => [Service!Next]_(Service!vars)
<1> SUFFICES ASSUME Inv, Inv', Sound, Sound', [Next]_vars
             PROVE  [Service!Next]_(Service!vars)
  OBVIOUS
<1>1. inLoop' = inLoop /\ maxFds' = maxFds
  BY InLoopStays
<1>2. Elsewhere' <=> Elsewhere
  BY <1>1 DEF Elsewhere, numThreads_, Threads
<1>3. CASE Elsewhere
  BY <1>1, <1>2, <1>3 DEF Service!vars
<1>4. CASE ~Elsewhere
  BY <1>2, <1>4, StepIs DEF Sound
<1>5. QED
  BY <1>3, <1>4

LEMMA InitImplements == Init => Service!Init
<1> SUFFICES ASSUME Init PROVE Service!Init
  OBVIOUS
<1>1. Types
  BY InitInv DEF Inv
<1>2. maxFds \in Nat
  BY <1>1, ServerAssumption DEF Types, ServerTypes
<1>3. ASSUME NEW c \in Clients
      PROVE  PhaseOf(c) = "away" /\ told[c].message = 0
  <2>1. nextConnId_ = 1 /\ arrived = 0 /\ told[c] = [up |-> 0, message |-> 0, down |-> 0]
    BY DEF Init, ConnectionsInit
  <2>2. c >= 1 /\ c \in Nat
    BY ServerAssumption DEF Clients
  <2>3. ~(c < nextConnId_) /\ ~(c <= arrived)
    BY <2>1, <2>2
  <2>4. Stage(c) = "away"
    BY <2>3 DEF Stage, Alive
  <2>5. QED
    BY <1>1, <2>1, <2>4, StageIs
<1>4. QED
  BY <1>2, <1>3 DEF Service!Init

(* As long as connectEstablished runs in the thread of the connection's     *)
(* loop, the server serves its clients as Sessions says: Acceptor accepts   *)
(* them in turn and never more than there are descriptors, and from         *)
(* connectEstablished, handleRead, handleClose and connectDestroyed the     *)
(* user hears of each one's connection once that it is up and once that it  *)
(* is down, with its messages in between, before anything of it is freed -  *)
(* in whichever way it ends, and if both ways meet.                         *)
THEOREM ServerIsService == Spec => Promise
<1>1. Init => Sound
  BY InitServed DEF Sound
<1>2. QED
  BY <1>1, InitImplements, InitInv, NextInv, NextSound, StepImplements, PTL DEF Spec, Promise, Service!Spec
=============================================================================

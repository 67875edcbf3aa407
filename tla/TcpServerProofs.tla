-------------------------- MODULE TcpServerProofs --------------------------
(***************************************************************************)
(* Theorems about TcpServer.tla, for any number of threads, clients and    *)
(* descriptors, and whatever isInLoopThread() says in each thread.  The    *)
(* inductive invariant is Inv.  Types and Where say what a thread can have *)
(* in hand where; Placed, in which thread and queue each call of a         *)
(* connection can be; Lives, how a connection begins - accepted, put into  *)
(* connections_, enabled, each once and in this order - and that from then *)
(* on, until its channel is removed, somebody is left who will remove it.  *)
(***************************************************************************)
EXTENDS TcpServer, ChannelProofs, SequenceTheorems, FiniteSetTheorems, TLAPS

-----------------------------------------------------------------------------
(* Queues.                                                                  *)

Elems(q) == {q[i] : i \in DOMAIN q}

(* Every g in q comes after some f. *)
Before(q, f, g) ==
  \A j \in DOMAIN q : q[j] = g => \E i \in DOMAIN q : i < j /\ q[i] = f

Unique(q, f) == \A i, j \in DOMAIN q : q[i] = f /\ q[j] = f => i = j

LEMMA AppendElems ==
  ASSUME NEW S, NEW q \in Seq(S), NEW e \in S
  PROVE  /\ Elems(Append(q, e)) = Elems(q) \cup {e} /\ Append(q, e) \in Seq(S)
         /\ \A f, g : Before(q, f, g) /\ (e = g => f \in Elems(q)) => Before(Append(q, e), f, g)
         /\ \A f : Unique(q, f) /\ (e = f => f \notin Elems(q)) => Unique(Append(q, e), f)
<1> DEFINE r == Append(q, e)
           n == Len(q)
<1>1. /\ n \in Nat /\ DOMAIN q = 1..n /\ r \in Seq(S) /\ DOMAIN r = 1..(n + 1)
      /\ r[n + 1] = e /\ \A i \in 1..n : r[i] = q[i]
  BY AppendProperties, LenProperties
<1> HIDE DEF r, n
<1>2. Elems(r) = Elems(q) \cup {e}
  <2>1. \A i \in 1..(n + 1) : i \in 1..n \/ i = n + 1
    BY <1>1
  <2>2. \A i \in 1..n : i \in 1..(n + 1)
    BY <1>1
  <2>3. n + 1 \in 1..(n + 1)
    BY <1>1
  <2>4. QED
    BY <1>1, <2>1, <2>2, <2>3 DEF Elems
<1>3. ASSUME NEW f, NEW g, Before(q, f, g), e = g => f \in Elems(q)
      PROVE  Before(r, f, g)
  <2>1. SUFFICES ASSUME NEW j \in 1..(n + 1), r[j] = g
                 PROVE  \E i \in 1..(n + 1) : i < j /\ r[i] = f
    BY <1>1 DEF Before
  <2>2. CASE j \in 1..n
    <3>1. PICK i \in 1..n : i < j /\ q[i] = f
      BY <1>1, <1>3, <2>1, <2>2 DEF Before
    <3>2. QED
      BY <1>1, <3>1
  <2>3. CASE j = n + 1
    <3>1. PICK i \in 1..n : q[i] = f
      BY <1>1, <1>3, <2>1, <2>3 DEF Elems
    <3>2. QED
      BY <1>1, <2>3, <3>1
  <2>4. QED
    BY <1>1, <2>2, <2>3
<1>4. ASSUME NEW f, Unique(q, f), e = f => f \notin Elems(q)
      PROVE  Unique(r, f)
  <2>1. SUFFICES ASSUME NEW i \in 1..(n + 1), NEW j \in 1..(n + 1), r[i] = f, r[j] = f
                 PROVE  i = j
    BY <1>1 DEF Unique
  <2>2. CASE e = f
    <3>1. \A k \in 1..n : r[k] # f
      BY <1>1, <1>4, <2>2 DEF Elems
    <3>2. QED
      BY <1>1, <2>1, <3>1
  <2>3. CASE e # f
    <3>1. i \in 1..n /\ j \in 1..n
      BY <1>1, <2>1, <2>3
    <3>2. QED
      BY <1>1, <1>4, <2>1, <3>1 DEF Unique
  <2>4. QED
    BY <2>2, <2>3
<1>5. QED
  BY <1>1, <1>2, <1>3, <1>4 DEF r

LEMMA TailElems ==
  ASSUME NEW S, NEW q \in Seq(S), q # <<>>
  PROVE  /\ Elems(q) = Elems(Tail(q)) \cup {Head(q)} /\ Head(q) \in S /\ Tail(q) \in Seq(S)
         /\ \A f, g : Before(q, f, g) /\ f # g => Head(q) # g
         /\ \A f, g : Before(q, f, g) /\ Head(q) # f => Before(Tail(q), f, g)
         /\ \A f : Unique(q, f) => Unique(Tail(q), f) /\ (Head(q) = f => f \notin Elems(Tail(q)))
<1> DEFINE r == Tail(q)
           n == Len(q)
<1>1. /\ n \in Nat /\ n > 0 /\ DOMAIN q = 1..n /\ r \in Seq(S) /\ DOMAIN r = 1..(n - 1)
      /\ Head(q) = q[1] /\ Head(q) \in S /\ \A i \in 1..(n - 1) : r[i] = q[i + 1]
  BY HeadTailProperties, LenProperties, EmptySeq
<1> HIDE DEF r, n
<1>2. /\ 1 \in 1..n /\ \A i \in 1..(n - 1) : i + 1 \in 1..n /\ i + 1 # 1
      /\ \A i \in 1..n : i # 1 => i - 1 \in 1..(n - 1) /\ (i - 1) + 1 = i
  BY <1>1
<1>3. Elems(q) = Elems(r) \cup {Head(q)}
  <2>1. \A i \in 1..(n - 1) : r[i] \in Elems(q)
    BY <1>1, <1>2 DEF Elems
  <2>2. \A i \in 1..n : i # 1 => q[i] = r[i - 1] /\ i - 1 \in DOMAIN r
    BY <1>1, <1>2
  <2>3. Head(q) \in Elems(q)
    BY <1>1, <1>2 DEF Elems
  <2>4. \A e \in Elems(q) : e \in Elems(r) \cup {Head(q)}
    <3>1. SUFFICES ASSUME NEW i \in 1..n
                   PROVE  q[i] \in Elems(r) \cup {Head(q)}
      BY <1>1 DEF Elems
    <3>2. CASE i = 1
      BY <1>1, <3>2
    <3>3. CASE i # 1
      BY <2>2, <3>3 DEF Elems
    <3>4. QED
      BY <3>2, <3>3
  <2>5. \A e \in Elems(r) : e \in Elems(q)
    BY <1>1, <2>1 DEF Elems
  <2>6. QED
    BY <2>3, <2>4, <2>5
<1>4. ASSUME NEW f, NEW g, Before(q, f, g), f # g
      PROVE  Head(q) # g
  <2>1. \A i \in 1..n : ~(i < 1)
    BY <1>1
  <2>2. QED
    BY <1>1, <1>2, <1>4, <2>1 DEF Before
<1>5. ASSUME NEW f, NEW g, Before(q, f, g), Head(q) # f
      PROVE  Before(r, f, g)
  <2>1. SUFFICES ASSUME NEW j \in 1..(n - 1), r[j] = g
                 PROVE  \E i \in 1..(n - 1) : i < j /\ r[i] = f
    BY <1>1 DEF Before
  <2>2. PICK i \in 1..n : i < j + 1 /\ q[i] = f
    BY <1>1, <1>2, <1>5, <2>1 DEF Before
  <2>3. i # 1
    BY <1>1, <1>5, <2>2
  <2>4. i - 1 \in 1..(n - 1) /\ i - 1 < j /\ r[i - 1] = f
    BY <1>1, <1>2, <2>2, <2>3
  <2>5. QED
    BY <2>4
<1>6. ASSUME NEW f, Unique(q, f)
      PROVE  Unique(r, f) /\ (Head(q) = f => f \notin Elems(r))
  <2>1. ASSUME NEW i \in 1..(n - 1), NEW j \in 1..(n - 1), r[i] = f, r[j] = f
        PROVE  i = j
    <3>1. i + 1 = j + 1
      BY <1>1, <1>2, <1>6, <2>1 DEF Unique
    <3>2. QED
      BY <3>1
  <2>2. ASSUME NEW i \in 1..(n - 1), r[i] = f, Head(q) = f
        PROVE  FALSE
    BY <1>1, <1>2, <1>6, <2>2 DEF Unique
  <2>3. QED
    BY <1>1, <2>1, <2>2 DEF Unique, Elems
<1>7. QED
  BY <1>1, <1>3, <1>4, <1>5, <1>6 DEF r

LEMMA ConcatElems ==
  ASSUME NEW S, NEW b \in Seq(S), NEW p \in Seq(S)
  PROVE  b \o p \in Seq(S) /\ Elems(b \o p) = Elems(b) \cup Elems(p)
<1> DEFINE r == b \o p
           m == Len(b)
           n == Len(p)
<1>1. /\ m \in Nat /\ n \in Nat /\ DOMAIN b = 1..m /\ DOMAIN p = 1..n
      /\ r \in Seq(S) /\ DOMAIN r = 1..(m + n)
      /\ \A i \in 1..(m + n) : r[i] = IF i <= m THEN b[i] ELSE p[i - m]
  BY ConcatProperties, LenProperties
<1> HIDE DEF r, m, n
<1>2. \A i \in 1..m : i \in 1..(m + n) /\ r[i] = b[i]
  BY <1>1
<1>3. \A i \in 1..n : m + i \in 1..(m + n) /\ r[m + i] = p[i]
  <2>1. SUFFICES ASSUME NEW i \in 1..n
                 PROVE  m + i \in 1..(m + n) /\ r[m + i] = p[i]
    OBVIOUS
  <2>2. m + i \in 1..(m + n) /\ ~(m + i <= m) /\ (m + i) - m = i
    BY <1>1
  <2>3. QED
    BY <1>1, <2>2
<1>4. \A i \in 1..(m + n) : i <= m \/ i - m \in 1..n
  BY <1>1
<1>5. \A i \in 1..(m + n) : r[i] \in Elems(b) \cup Elems(p)
  <2>1. SUFFICES ASSUME NEW i \in 1..(m + n)
                 PROVE  r[i] \in Elems(b) \cup Elems(p)
    OBVIOUS
  <2>2. CASE i <= m
    BY <1>1, <2>2 DEF Elems
  <2>3. CASE ~(i <= m)
    BY <1>1, <1>4, <2>3 DEF Elems
  <2>4. QED
    BY <2>2, <2>3
<1>6. \A e \in Elems(b) \cup Elems(p) : e \in Elems(r)
  <2>1. \A i \in DOMAIN b : b[i] \in Elems(r)
    BY <1>1, <1>2 DEF Elems
  <2>2. \A i \in DOMAIN p : p[i] \in Elems(r)
    BY <1>1, <1>3 DEF Elems
  <2>3. QED
    BY <2>1, <2>2 DEF Elems
<1>7. \A e \in Elems(r) : e \in Elems(b) \cup Elems(p)
  BY <1>1, <1>5 DEF Elems
<1>8. QED
  BY <1>1, <1>6, <1>7 DEF r

-----------------------------------------------------------------------------
(* What a thread has in hand.                                               *)

(* The next access or callback, the last one, which tells what all of them  *)
(* are for, and the connection that they are about.                         *)
Op(s) == IF s = <<>> THEN "none" ELSE s[1].op
Goal(s) == IF s = <<>> THEN "none" ELSE s[Len(s)].op
Conn(s) == IF s = <<>> THEN acceptor ELSE s[1].conn

Tasks(c) ==
  LET do(op) == Call(op, c)
  IN  {<<do("insert")>>, <<do("enableReading"), do("up")>>, <<do("up")>>, <<do("message")>>,
       <<do("disableAll"), do("down"), do("closeCallback")>>,
       <<do("down"), do("closeCallback")>>, <<do("closeCallback")>>, <<do("erase")>>,
       <<do("disableAll"), do("down"), do("remove")>>, <<do("down"), do("remove")>>,
       <<do("remove")>>}

Shapes == {<<>>, <<Call("listen", acceptor)>>} \cup UNION {Tasks(c) : c \in Clients}

(* One call, and one before others. *)
LEMMA LastCall ==
  ASSUME NEW op, NEW c, NEW s, s = <<Call(op, c)>>, op # "none"
  PROVE  /\ s # <<>> /\ Head(s) = Call(op, c) /\ Tail(s) = <<>>
         /\ Op(s) = op /\ Goal(s) = op /\ Conn(s) = c
BY DEF Op, Goal, Conn, Call

LEMMA TwoCalls ==
  ASSUME NEW op, NEW op2, NEW c, NEW s, s = <<Call(op, c), Call(op2, c)>>
  PROVE  /\ s # <<>> /\ Head(s) = Call(op, c) /\ Tail(s) = <<Call(op2, c)>>
         /\ Op(s) = op /\ Goal(s) = op2 /\ Conn(s) = c
BY DEF Op, Goal, Conn, Call

LEMMA ThreeCalls ==
  ASSUME NEW op, NEW op2, NEW op3, NEW c, NEW s,
         s = <<Call(op, c), Call(op2, c), Call(op3, c)>>
  PROVE  /\ s # <<>> /\ Head(s) = Call(op, c) /\ Tail(s) = <<Call(op2, c), Call(op3, c)>>
         /\ Op(s) = op /\ Goal(s) = op3 /\ Conn(s) = c
BY DEF Op, Goal, Conn, Call

(* What a shape is known by. *)
Regular(s) ==
  /\ Goal(s) \in {"none", "listen", "insert", "up", "message", "closeCallback", "erase", "remove"}
  /\ s = <<>> <=> Goal(s) = "none"
  /\ s # <<>> => Head(s) = Call(Op(s), Conn(s)) /\ Tail(s) \in Shapes
  /\ IF Goal(s) \in {"none", "listen"} THEN Conn(s) = acceptor ELSE Conn(s) \in Clients
  /\ Op(s) \in CASE Goal(s) = "up" -> {"enableReading", "up"}
                  [] Goal(s) \in {"closeCallback", "remove"} -> {"disableAll", "down", Goal(s)}
                  [] OTHER -> {Goal(s)}
  /\ s # <<>> /\ Op(s) = Goal(s) => Tail(s) = <<>>
  /\ Op(s) # Goal(s) =>
       /\ Tail(s) # <<>> /\ Goal(Tail(s)) = Goal(s) /\ Conn(Tail(s)) = Conn(s)
       /\ Op(Tail(s)) = IF Op(s) = "disableAll" THEN "down" ELSE Goal(s)

LEMMA ShapeIs ==
  ASSUME NEW s \in Shapes
  PROVE  Regular(s)
<1>1. CASE s = <<>>
  BY <1>1 DEF Regular, Op, Goal, Conn
<1>2. CASE s = <<Call("listen", acceptor)>>
  BY <1>2, LastCall DEF Regular, Shapes
<1>3. ASSUME NEW c \in Clients, s \in Tasks(c)
      PROVE  Regular(s)
  <2>1. \A r \in Tasks(c) : r \in Shapes
    BY DEF Shapes
  <2>2. <<>> \in Shapes
    BY DEF Shapes
  <2>3. ASSUME NEW op \in {"insert", "message", "erase", "up", "closeCallback", "remove"},
               s = <<Call(op, c)>>
        PROVE  Regular(s)
    BY <2>2, <2>3, LastCall DEF Regular
  <2>4. CASE s = <<Call("enableReading", c), Call("up", c)>>
    <3>1. <<Call("up", c)>> \in Shapes
      BY <2>1 DEF Tasks
    <3>2. QED
      BY <2>4, <3>1, LastCall, TwoCalls DEF Regular
  <2>5. ASSUME NEW op \in {"closeCallback", "remove"}, s = <<Call("down", c), Call(op, c)>>
        PROVE  Regular(s)
    <3>1. PICK r \in Shapes : r = <<Call(op, c)>>
      BY <2>1 DEF Tasks
    <3>2. /\ s # <<>> /\ Head(s) = Call("down", c) /\ Tail(s) = r
          /\ Op(s) = "down" /\ Goal(s) = op /\ Conn(s) = c
      BY <2>5, <3>1, TwoCalls
    <3>3. r # <<>> /\ Op(r) = op /\ Goal(r) = op /\ Conn(r) = c
      BY <3>1, LastCall
    <3>4. /\ s # <<>> /\ Head(s) = Call(Op(s), Conn(s)) /\ Tail(s) \in Shapes
          /\ Op(s) = "down" /\ Goal(s) = op /\ Conn(s) = c
      BY <3>1, <3>2
    <3>5. QED
      BY <3>2, <3>3, <3>4 DEF Regular
  <2>6. ASSUME NEW op \in {"closeCallback", "remove"},
               s = <<Call("disableAll", c), Call("down", c), Call(op, c)>>
        PROVE  Regular(s)
    <3>1. PICK r \in Shapes : r = <<Call("down", c), Call(op, c)>>
      BY <2>1 DEF Tasks
    <3>2. /\ s # <<>> /\ Head(s) = Call("disableAll", c) /\ Tail(s) = r
          /\ Op(s) = "disableAll" /\ Goal(s) = op /\ Conn(s) = c
      BY <2>6, <3>1, ThreeCalls
    <3>3. r # <<>> /\ Op(r) = "down" /\ Goal(r) = op /\ Conn(r) = c
      BY <3>1, TwoCalls
    <3>4. /\ s # <<>> /\ Head(s) = Call(Op(s), Conn(s)) /\ Tail(s) \in Shapes
          /\ Op(s) = "disableAll" /\ Goal(s) = op /\ Conn(s) = c
      BY <3>1, <3>2
    <3>5. QED
      BY <3>2, <3>3, <3>4 DEF Regular
  <2>7. QED
    BY <1>3, <2>3, <2>4, <2>5, <2>6 DEF Tasks
<1>4. QED
  BY <1>1, <1>2, <1>3 DEF Shapes

LEMMA ShapeTypes == Shapes \subseteq Seq(Accesses)
<1>1. ASSUME NEW c \in Clients, NEW s \in Tasks(c)
      PROVE  s \in Seq(Accesses)
  <2>1. \A op \in {"insert", "enableReading", "up", "message", "disableAll", "down",
                   "closeCallback", "erase", "remove"} : Call(op, c) \in Accesses
    BY ServerAssumption DEF Call, Accesses, Clients
  <2>2. \A x, y, z \in Accesses : /\ <<x>> \in Seq(Accesses) /\ <<x, y>> \in Seq(Accesses)
                                 /\ <<x, y, z>> \in Seq(Accesses)
    OBVIOUS
  <2>3. QED
    BY <2>1, <2>2 DEF Tasks
<1>2. <<Call("listen", acceptor)>> \in Seq(Accesses)
  <2>1. Call("listen", acceptor) \in Accesses
    BY ServerAssumption DEF Call, Accesses, acceptor
  <2>2. \A x \in Accesses : <<x>> \in Seq(Accesses)
    OBVIOUS
  <2>3. QED
    BY <2>1, <2>2
<1>3. QED
  BY <1>1, <1>2, EmptySeq DEF Shapes

-----------------------------------------------------------------------------
(* Threads.                                                                 *)

LEMMA Loops ==
  ASSUME NEW n \in Nat, inLoop \in [0..n -> BOOLEAN]
  PROVE  /\ Threads = 0..n /\ numThreads_ = n /\ 0 \in Threads
         /\ \A c \in Clients : LoopOf(c) \in Threads /\ (n > 0 => LoopOf(c) # 0)
<1>1. Threads = 0..n /\ 0 \in Threads
  BY DEF Threads
<1>2. numThreads_ = n
  <2>1. Cardinality(0..n) = n - 0 + 1
    BY FS_Interval
  <2>2. QED
    BY <1>1, <2>1 DEF numThreads_
<1>3. ASSUME NEW c \in Clients
      PROVE  LoopOf(c) \in Threads /\ (n > 0 => LoopOf(c) # 0)
  <2>1. c - 1 \in Nat
    BY ServerAssumption DEF Clients
  <2>2. CASE n = 0
    BY <1>1, <1>2, <2>2 DEF LoopOf
  <2>3. CASE n > 0
    <3>1. \A k \in Nat : k % n \in 0..(n - 1)
      BY <2>3
    <3>2. PICK k \in 0..(n - 1) : k = (c - 1) % n
      BY <2>1, <3>1
    <3>3. LoopOf(c) = 1 + k
      BY <1>2, <2>3, <3>2 DEF LoopOf
    <3>4. 1 + k \in 0..n /\ 1 + k # 0
      BY <2>3
    <3>5. QED
      BY <1>1, <3>3, <3>4
  <2>4. QED
    BY <2>2, <2>3
<1>4. QED
  BY <1>1, <1>2, <1>3

-----------------------------------------------------------------------------
(* The invariant.                                                           *)

Queue(t) == batch[t] \o pending[t]

Est(c) == Call("connectEstablished", c)
Des(c) == Call("connectDestroyed", c)
Rem(c) == Call("removeConnectionInLoop", c)

Places == {"off", "poll", "event", "functors", "ended", "destroying", "joining", "gone"}

ServerTypes ==
  /\ \E n \in 0..MaxThreads : inLoop \in [0..n -> BOOLEAN]
  /\ maxFds \in 1..MaxFds
  /\ listenning_ \in BOOLEAN /\ acceptChannel_ \in ChannelStates
  /\ arrived \in 0..MaxClients
  /\ peer \in [Clients -> [sent : BOOLEAN, data : BOOLEAN, fin : BOOLEAN]]
  /\ nextConnId_ \in 1..(arrived + 1)
  /\ connections_ \subseteq Clients /\ \A c \in connections_ : c < nextConnId_

ConnTypes ==
  /\ state_ \in [Clients -> {"kConnecting", "kConnected", "kDisconnected"}]
  /\ channel_ \in [Clients -> ChannelStates]
  /\ told \in [Clients -> [up : Nat, message : Nat, down : Nat]]

LoopTypes ==
  /\ at \in [Threads -> Places] /\ active \in [Threads -> SUBSET (0..MaxClients)]
  /\ events_ \in [Threads -> Nat \ {0}]
  /\ batch \in [Threads -> Seq(Functors)] /\ pending \in [Threads -> Seq(Functors)]
  /\ todo \in [Threads -> Shapes] /\ held \in [Threads -> SUBSET Clients]

Types == ServerTypes /\ ConnTypes /\ LoopTypes

(* What can be in hand where. *)
Goals(place) ==
  CASE place = "poll" -> {"none", "listen"}
    [] place = "event" -> {"none", "insert", "up", "message", "closeCallback", "erase"}
    [] place = "functors" -> {"none", "listen", "up", "erase", "remove"}
    [] place = "destroying" -> {"none", "remove"}
    [] OTHER -> {"none"}

Where(t) ==
  /\ at[t] \in {"ended", "destroying", "joining", "gone"} => t = 0
  /\ at[0] = "off" => at[t] = "off"
  /\ at[t] \in {"off", "poll", "functors", "ended"} => active[t] = {}
  /\ Goal(todo[t]) \in Goals(at[t])
  /\ Conn(todo[t]) # acceptor => Conn(todo[t]) \in held[t]
  /\ at[t] # "functors" => batch[t] = <<>> /\ held[t] \subseteq {Conn(todo[t])}
  /\ \A f \in Elems(batch[t]) : f.conn # acceptor => f.conn \in held[t]

(* Whose thread a connection is in until its callback: of its loop, unless  *)
(* runInLoop finds itself in the loop's.                                    *)
Opener(c) == IF inLoop[0] THEN 0 ELSE LoopOf(c)

TaskPlaced(t) ==
  LET g == Goal(todo[t])
      c == Conn(todo[t])
  IN  /\ g \notin {"none", "listen"} => c \in Clients /\ c < nextConnId_
      /\ g \in {"listen", "insert"} => t = 0
      /\ g = "erase" => t = 0 \/ inLoop[t]
      /\ g = "up" => t = Opener(c)
      /\ g \in {"message", "closeCallback"} => t = LoopOf(c)
      /\ g = "remove" => \/ t = LoopOf(c) /\ at[t] = "functors"
                         \/ t = 0 /\ inLoop[0] /\ at[t] = "destroying"

FunctorPlaced(t, f) ==
  /\ IF f.op = "listen" THEN f.conn = acceptor ELSE f.conn \in Clients /\ f.conn < nextConnId_
  /\ t = IF f.op \in {"listen", "removeConnectionInLoop"} THEN 0 ELSE LoopOf(f.conn)
  /\ f.op = "connectEstablished" => ~inLoop[0]

ChannelPlaced(t, ch) ==
  IF ch = acceptor THEN t = 0
                   ELSE t = LoopOf(ch) /\ ch < nextConnId_ /\ state_[ch] # "kConnecting"

Placed(t) ==
  /\ TaskPlaced(t)
  /\ \A f \in Elems(Queue(t)) : FunctorPlaced(t, f)
  /\ \A ch \in active[t] : ChannelPlaced(t, ch)

(* Connection c will be enabled, ... *)
Enabling(t, c) == Op(todo[t]) = "enableReading" /\ Conn(todo[t]) = c

Opening(c) == Est(c) \in Elems(Queue(LoopOf(c))) \/ \E t \in Threads : Enabling(t, c)

(* ... and somebody is left to remove it. *)
Removing(t, c) ==
  \/ Rem(c) \in Elems(Queue(t)) \/ Des(c) \in Elems(Queue(t))
  \/ Conn(todo[t]) = c /\ Goal(todo[t]) \in {"closeCallback", "erase", "remove"}

Doomed(c) == c \in connections_ \/ \E t \in Threads : Removing(t, c)

(* Until it is enabled nothing has happened to it, and whoever removes it   *)
(* comes later.                                                             *)
Fresh(c) ==
  state_[c] = "kConnecting" =>
    /\ channel_[c] = NewChannel /\ told[c] = [up |-> 0, message |-> 0, down |-> 0]
    /\ \A t \in Threads : Conn(todo[t]) = c => Op(todo[t]) \in {"insert", "enableReading"}
    /\ \A t \in Threads : Rem(c) \notin Elems(Queue(t))
    /\ c \in connections_ => Opening(c)
    /\ Enabling(LoopOf(c), c) \/ Before(Queue(LoopOf(c)), Est(c), Des(c))

(* Afterwards nobody enables it again. *)
Begun(c) ==
  state_[c] # "kConnecting" =>
    /\ c < nextConnId_ /\ ~Opening(c)
    /\ \A t \in Threads : Conn(todo[t]) = c => Goal(todo[t]) # "insert"

(* It is new when it is put into connections_, and enabled once. *)
Once(c) ==
  /\ \A t \in Threads : Conn(todo[t]) = c /\ Goal(todo[t]) = "insert" =>
       /\ c \notin connections_
       /\ \A u \in Threads : u # t => Conn(todo[u]) # c
       /\ \A u \in Threads : \A f \in Elems(Queue(u)) : f.conn # c
  /\ \A t \in Threads : Enabling(t, c) => Est(c) \notin Elems(Queue(LoopOf(c)))
  /\ Unique(Queue(LoopOf(c)), Est(c))

Kept(c) == channel_[c].mapped \/ Opening(c) => Doomed(c)

Lives(c) == Fresh(c) /\ Begun(c) /\ Once(c) /\ Kept(c)

(* A channel that a loop has still to handle is one of a connection that    *)
(* nobody has removed, unless ~TcpServer removes others than its thread's.  *)
Reached ==
  ~inLoop[0] \/ ~Destruction =>
    \A t \in Threads : \A c \in active[t] : c # acceptor => Doomed(c)

Agreed == Agrees(acceptChannel_) /\ \A c \in Clients : Agrees(channel_[c])

Inv ==
  /\ Types /\ Agreed /\ Reached
  /\ \A t \in Threads : Where(t) /\ Placed(t)
  /\ \A c \in Clients : Lives(c)

-----------------------------------------------------------------------------
(* What it says.                                                            *)

LEMMA ThreadsAre ==
  ASSUME ServerTypes
  PROVE  /\ 0 \in Threads /\ \A c \in Clients : LoopOf(c) \in Threads
         /\ \A c \in Clients : Opener(c) \in Threads
         /\ numThreads_ = 0 => Threads = {0}
         /\ inLoop \in [Threads -> BOOLEAN] /\ Threads \subseteq Nat
<1>1. PICK n \in 0..MaxThreads : inLoop \in [0..n -> BOOLEAN]
  BY DEF ServerTypes
<1>2. n \in Nat
  BY ServerAssumption
<1>3. QED
  BY <1>1, <1>2, Loops DEF Opener

LEMMA ClientsAre == Clients \subseteq Nat /\ acceptor \notin Clients /\ 0..MaxClients = Clients \cup {acceptor}
BY ServerAssumption DEF Clients, acceptor

LEMMA QueuesAre ==
  ASSUME Types, NEW t \in Threads
  PROVE  /\ batch[t] \in Seq(Functors) /\ pending[t] \in Seq(Functors)
         /\ Queue(t) \in Seq(Functors)
         /\ Elems(Queue(t)) = Elems(batch[t]) \cup Elems(pending[t])
<1>1. batch[t] \in Seq(Functors) /\ pending[t] \in Seq(Functors)
  BY DEF Types, LoopTypes
<1>2. QED
  BY <1>1, ConcatElems DEF Queue

LEMMA DoomedAlive ==
  ASSUME Inv, NEW c \in Clients, Doomed(c)
  PROVE  Alive(c)
<1>1. c # acceptor
  BY ClientsAre
<1>2. CASE c \in connections_
  BY <1>2 DEF Inv, Types, ServerTypes, Alive
<1>3. ASSUME NEW t \in Threads, NEW f, f \in Elems(Queue(t)), f.conn = c, f.op # "listen"
      PROVE  Alive(c)
  <2>1. c < nextConnId_
    BY <1>3 DEF Inv, Placed, FunctorPlaced
  <2>2. CASE f \in Elems(batch[t])
    BY <1>1, <1>3, <2>1, <2>2 DEF Inv, Where, Alive
  <2>3. CASE f \in Elems(pending[t])
    BY <1>3, <2>1, <2>3 DEF Elems, Alive
  <2>4. QED
    BY <1>3, <2>2, <2>3, QueuesAre DEF Inv
<1>4. ASSUME NEW t \in Threads, Conn(todo[t]) = c,
             Goal(todo[t]) \in {"closeCallback", "erase", "remove"}
      PROVE  Alive(c)
  BY <1>1, <1>4 DEF Inv, Where, Placed, TaskPlaced, Alive
<1>5. Rem(c).conn = c /\ Rem(c).op # "listen" /\ Des(c).conn = c /\ Des(c).op # "listen"
  BY DEF Rem, Des, Call
<1>6. QED
  BY <1>2, <1>3, <1>4, <1>5 DEF Doomed, Removing

LEMMA InvTypeOK == Inv => TypeOK
<1> SUFFICES ASSUME Inv PROVE TypeOK
  OBVIOUS
<1>1. ASSUME NEW t \in Threads
      PROVE  /\ at[t] \in {"off", "poll", "event", "functors"}
                  \cup (IF t = 0 THEN {"ended", "destroying", "joining", "gone"} ELSE {})
             /\ active[t] \subseteq 0..MaxClients
             /\ at[t] \in {"off", "poll", "functors", "ended"} => active[t] = {}
             /\ events_[t] \in Nat \ {0}
             /\ batch[t] \in Seq(Functors) /\ (at[t] # "functors" => batch[t] = <<>>)
             /\ pending[t] \in Seq(Functors)
             /\ todo[t] \in Seq(Accesses)
             /\ held[t] \subseteq Clients /\ (at[t] = "poll" => held[t] = {})
  <2>1. Where(t) /\ at[t] \in Places /\ todo[t] \in Shapes /\ held[t] \subseteq Clients
    BY DEF Inv, Types, LoopTypes
  <2>2. todo[t] \in Seq(Accesses)
    BY <2>1, ShapeTypes
  <2>3. at[t] = "poll" => held[t] = {}
    <3>1. SUFFICES ASSUME at[t] = "poll" PROVE Conn(todo[t]) = acceptor
      BY <2>1, ClientsAre DEF Where
    <3>2. Goal(todo[t]) \in {"none", "listen"}
      BY <2>1, <3>1 DEF Where, Goals
    <3>3. QED
      BY <2>1, <3>2, ShapeIs DEF Regular
  <2>4. QED
    BY <2>1, <2>2, <2>3 DEF Inv, Types, LoopTypes, Where, Places
<1>2. QED
  BY <1>1 DEF Inv, Types, ServerTypes, ConnTypes, TypeOK

LEMMA InvPollersAgree == Inv => PollersAgree
BY DoomedAlive DEF Inv, Agreed, Lives, Kept, PollersAgree

LEMMA InvNoDanglingActive == Inv => NoDanglingActive
<1> SUFFICES ASSUME Inv, ~inLoop[0] \/ ~Destruction, NEW t \in Threads,
                    NEW c \in active[t], c # acceptor
             PROVE  c \in InUse
  BY DEF NoDanglingActive
<1>1. c \in Clients
  BY ClientsAre DEF Inv, Types, LoopTypes
<1>2. QED
  BY <1>1, DoomedAlive DEF Inv, Reached, InUse

LEMMA InvInOwnThread == Inv => InOwnThread
<1> SUFFICES ASSUME Inv, Queues, NEW t \in Threads, ~Idle(t)
             PROVE  t = IF Head(todo[t]).op \in {"listen", "insert", "erase"}
                          THEN 0 ELSE LoopOf(Head(todo[t]).conn)
  BY DEF InOwnThread
<1> DEFINE o == Head(todo[t])
<1>1. /\ Regular(todo[t]) /\ TaskPlaced(t) /\ todo[t] # <<>>
      /\ o.op = Op(todo[t]) /\ o.conn = Conn(todo[t])
  <2>1. todo[t] \in Shapes /\ todo[t] # <<>> /\ TaskPlaced(t)
    BY DEF Idle, Inv, Types, LoopTypes, Placed
  <2>2. Regular(todo[t])
    BY <2>1, ShapeIs
  <2>3. o = Call(Op(todo[t]), Conn(todo[t]))
    BY <2>1, <2>2 DEF Regular
  <2>4. QED
    BY <2>1, <2>2, <2>3 DEF Call
<1>2. CASE numThreads_ = 0
  BY <1>2, ThreadsAre DEF LoopOf, Inv, Types
<1>3. CASE \A u \in Threads : ~inLoop[u]
  <2>1. ~inLoop[0] /\ ~inLoop[t]
    BY <1>3, ThreadsAre DEF Inv, Types
  <2>2. PICK s : s = todo[t]
    OBVIOUS
  <2>3. /\ Goal(s) \in {"listen", "insert", "up", "message", "closeCallback", "erase", "remove"}
        /\ IF Op(s) \in {"listen", "insert", "erase"} THEN Goal(s) = Op(s)
             ELSE Goal(s) \in {"up", "message", "closeCallback", "remove"}
    BY <1>1, <2>2 DEF Regular
  <2>4. /\ Goal(s) \in {"listen", "insert", "erase"} => t = 0
        /\ Goal(s) \in {"up", "message", "closeCallback", "remove"} => t = LoopOf(Conn(s))
    BY <1>1, <2>1, <2>2 DEF TaskPlaced, Opener
  <2>5. QED
    BY <1>1, <2>2, <2>3, <2>4
<1>4. QED
  BY <1>2, <1>3 DEF Queues

(* Where each stays in its own thread, a container is one thread's. *)
LEMMA InvNoRace == Inv /\ Queues => ~Undefined
<1> SUFFICES ASSUME Inv, Queues PROVE ~Undefined
  OBVIOUS
<1>1. ASSUME NEW t \in Threads, NEW x \in Containers(t)
      PROVE  (x = <<"connections_", 0>> /\ t = 0) \/ x = <<"channels_", t>>
  <2>1. CASE x = <<"connections_", 0>> /\ t = 0
    BY <2>1
  <2>2. CASE ~(x = <<"connections_", 0>> /\ t = 0)
    <3>1. PICK o : o = Head(todo[t])
      OBVIOUS
    <3>2. ~Idle(t)
      BY <1>1, <2>2 DEF Containers
    <3>3. t = IF o.op \in {"listen", "insert", "erase"} THEN 0 ELSE LoopOf(o.conn)
      BY <3>1, <3>2, InvInOwnThread DEF InOwnThread
    <3>4. /\ o.op \in {"insert", "erase"} => x = <<"connections_", 0>>
          /\ o.op \in {"enableReading", "remove"} => x = <<"channels_", LoopOf(o.conn)>>
          /\ o.op \in {"insert", "erase", "enableReading", "remove"}
      BY <2>2, <3>1, <3>2 DEF Containers
    <3>5. QED
      BY <2>2, <3>3, <3>4
  <2>3. QED
    BY <2>1, <2>2
<1>2. ASSUME NEW t \in Threads, NEW u \in Threads, Containers(t) \cap Containers(u) # {}
      PROVE  t = u
  <2>1. PICK x : x \in Containers(t) /\ x \in Containers(u)
    BY <1>2
  <2>2. /\ (x = <<"connections_", 0>> /\ t = 0) \/ x = <<"channels_", t>>
        /\ (x = <<"connections_", 0>> /\ u = 0) \/ x = <<"channels_", u>>
    BY <1>1, <2>1
  <2>3. QED
    BY <2>2
<1>3. QED
  BY <1>2 DEF Undefined

-----------------------------------------------------------------------------
(* What a step does to the queues.                                          *)

(* All that the invariant says of connection c and queue q holds of r. *)
KeepsQueue(c, q, r) ==
  /\ \A f : f.conn = c => (f \in Elems(r) <=> f \in Elems(q))
  /\ Before(q, Est(c), Des(c)) => Before(r, Est(c), Des(c))
  /\ Unique(q, Est(c)) => Unique(r, Est(c))

LEMMA FunctorsDiffer ==
  ASSUME NEW c
  PROVE  /\ Est(c).conn = c /\ Des(c).conn = c /\ Rem(c).conn = c
         /\ Est(c).op = "connectEstablished" /\ Des(c).op = "connectDestroyed"
         /\ Rem(c).op = "removeConnectionInLoop"
         /\ Est(c) # Des(c) /\ Est(c) # Rem(c) /\ Des(c) # Rem(c)
BY DEF Est, Des, Rem, Call

LEMMA AppendKeeps ==
  ASSUME NEW c, NEW q \in Seq(Functors), NEW f \in Functors, f.conn # c
  PROVE  KeepsQueue(c, q, Append(q, f))
<1>1. Elems(Append(q, f)) = Elems(q) \cup {f}
  BY AppendElems
<1>2. f # Est(c) /\ f # Des(c)
  BY FunctorsDiffer
<1>3. Before(q, Est(c), Des(c)) => Before(Append(q, f), Est(c), Des(c))
  BY <1>2, AppendElems
<1>4. Unique(q, Est(c)) => Unique(Append(q, f), Est(c))
  BY <1>2, AppendElems
<1>5. QED
  BY <1>1, <1>3, <1>4 DEF KeepsQueue

LEMMA TailKeeps ==
  ASSUME NEW c, NEW q \in Seq(Functors), q # <<>>, Head(q).conn # c
  PROVE  KeepsQueue(c, q, Tail(q))
<1>1. Elems(q) = Elems(Tail(q)) \cup {Head(q)}
  BY TailElems
<1>2. Head(q) # Est(c)
  BY FunctorsDiffer
<1>3. Before(q, Est(c), Des(c)) => Before(Tail(q), Est(c), Des(c))
  BY <1>2, TailElems
<1>4. Unique(q, Est(c)) => Unique(Tail(q), Est(c))
  BY TailElems
<1>5. QED
  BY <1>1, <1>3, <1>4 DEF KeepsQueue

(* queueInLoop of loop l. *)
LEMMA Appends ==
  ASSUME Types, inLoop' = inLoop, NEW l \in Threads, NEW f \in Functors, batch' = batch,
         pending' = [pending EXCEPT ![l] = Append(@, f)]
  PROVE  /\ pending' \in [Threads -> Seq(Functors)]
         /\ Queue(l)' = Append(Queue(l), f)
         /\ \A u \in Threads : u # l => Queue(u)' = Queue(u)
<1>1. pending \in [Threads -> Seq(Functors)] /\ batch[l] \in Seq(Functors) /\ pending[l] \in Seq(Functors)
  BY DEF Types, LoopTypes
<1>2. Append(pending[l], f) \in Seq(Functors)
  BY <1>1, AppendElems
<1>3. /\ pending'[l] = Append(pending[l], f) /\ pending' \in [Threads -> Seq(Functors)]
      /\ \A u \in Threads : u # l => pending'[u] = pending[u]
  BY <1>1, <1>2
<1>4. batch[l] \o Append(pending[l], f) = Append(batch[l] \o pending[l], f)
  <2>1. \A q \in Seq(Functors) : Append(q, f) = q \o <<f>>
    OBVIOUS
  <2>2. batch[l] \o pending[l] \in Seq(Functors) /\ <<f>> \in Seq(Functors)
    BY <1>1, ConcatElems
  <2>3. \A b, p, x \in Seq(Functors) : (b \o p) \o x = b \o (p \o x)
    BY ConcatAssociative
  <2>4. PICK x \in Seq(Functors) : \A q \in Seq(Functors) : Append(q, f) = q \o x
    BY <2>1, <2>2
  <2>5. \A b, p \in Seq(Functors) : b \o Append(p, f) = Append(b \o p, f)
    <3>1. SUFFICES ASSUME NEW b \in Seq(Functors), NEW p \in Seq(Functors)
                   PROVE  b \o Append(p, f) = Append(b \o p, f)
      OBVIOUS
    <3>2. b \o p \in Seq(Functors)
      BY ConcatElems
    <3>3. Append(p, f) = p \o x /\ Append(b \o p, f) = (b \o p) \o x
      BY <2>4, <3>2
    <3>4. QED
      BY <2>3, <3>3
  <2>6. QED
    BY <1>1, <2>5
<1>5. QED
  BY <1>3, <1>4 DEF Queue

(* The drain takes its next functor. *)
LEMMA Takes ==
  ASSUME Types, inLoop' = inLoop, NEW t \in Threads, batch[t] # <<>>, pending' = pending,
         batch' = [batch EXCEPT ![t] = Tail(@)]
  PROVE  /\ batch' \in [Threads -> Seq(Functors)]
         /\ Elems(batch[t]) = Elems(batch'[t]) \cup {Head(batch[t])}
         /\ Queue(t) # <<>> /\ Head(Queue(t)) = Head(batch[t]) /\ Queue(t)' = Tail(Queue(t))
         /\ Head(batch[t]) \in Functors /\ Head(batch[t]) \in Elems(Queue(t))
         /\ \A u \in Threads : u # t => Queue(u)' = Queue(u)
<1> DEFINE b == batch[t]
           p == pending[t]
<1>1. batch \in [Threads -> Seq(Functors)] /\ b \in Seq(Functors) /\ p \in Seq(Functors) /\ b # <<>>
  BY DEF Types, LoopTypes
<1>2. Tail(b) \in Seq(Functors) /\ Elems(b) = Elems(Tail(b)) \cup {Head(b)} /\ Head(b) \in Functors
  BY <1>1, TailElems
<1>3. /\ batch'[t] = Tail(b) /\ batch' \in [Threads -> Seq(Functors)]
      /\ \A u \in Threads : u # t => batch'[u] = batch[u]
  BY <1>1, <1>2
<1> HIDE DEF b, p
<1>4. b \o p # <<>> /\ Head(b \o p) = Head(b) /\ Tail(b \o p) = Tail(b) \o p
  <2>1. \A q \in Seq(Functors) : q # <<>> => q = <<Head(q)>> \o Tail(q)
    OBVIOUS
  <2>2. <<Head(b)>> \in Seq(Functors)
    BY <1>2
  <2>3. b \o p = <<Head(b)>> \o (Tail(b) \o p)
    <3>1. b = <<Head(b)>> \o Tail(b)
      BY <1>1, <2>1
    <3>2. (<<Head(b)>> \o Tail(b)) \o p = <<Head(b)>> \o (Tail(b) \o p)
      BY <1>1, <1>2, <2>2, ConcatAssociative
    <3>3. QED
      BY <3>1, <3>2
  <2>4. Tail(b) \o p \in Seq(Functors)
    BY <1>1, <1>2, ConcatElems
  <2>5. ASSUME NEW x \in Functors, NEW q \in Seq(Functors)
        PROVE  <<x>> \o q # <<>> /\ Head(<<x>> \o q) = x /\ Tail(<<x>> \o q) = q
    <3> DEFINE r == <<x>> \o q
               n == Len(q)
    <3>1. <<x>> \in Seq(Functors) /\ Len(<<x>>) = 1 /\ <<x>>[1] = x /\ n \in Nat
      BY LenProperties
    <3>2. /\ r \in Seq(Functors) /\ Len(r) = 1 + n
          /\ \A i \in 1..(1 + n) : r[i] = IF i <= 1 THEN x ELSE q[i - 1]
      BY <3>1, ConcatProperties
    <3> HIDE DEF r
    <3>3. r # <<>> /\ Head(r) = x
      BY <3>1, <3>2, EmptySeq
    <3>4. /\ Tail(r) \in Seq(Functors) /\ Len(Tail(r)) = n
          /\ \A i \in 1..n : Tail(r)[i] = r[i + 1]
      BY <3>1, <3>2, <3>3, HeadTailProperties
    <3>5. \A i \in 1..n : i + 1 \in 1..(1 + n) /\ ~(i + 1 <= 1) /\ (i + 1) - 1 = i
      BY <3>1
    <3>6. \A i \in 1..n : Tail(r)[i] = q[i]
      BY <3>2, <3>4, <3>5
    <3>7. Tail(r) = q
      BY <3>4, <3>6, SeqEqual
    <3>8. QED
      BY <3>3, <3>7 DEF r
  <2>6. QED
    BY <1>2, <2>3, <2>4, <2>5
<1>5. Head(b) \in Elems(b \o p)
  BY <1>1, <1>2, ConcatElems
<1>6. QED
  BY <1>2, <1>3, <1>4, <1>5 DEF Queue, b, p

LEMMA SameQueues ==
  ASSUME batch' = batch, pending' = pending
  PROVE  \A u : Queue(u)' = Queue(u)
BY DEF Queue

-----------------------------------------------------------------------------
(* Connections that a step leaves alone.                                    *)

Untouched(c) ==
  /\ state_'[c] = state_[c] /\ channel_'[c] = channel_[c] /\ told'[c] = told[c]
  /\ c \in connections_' <=> c \in connections_
  /\ \A u \in Threads : Conn(todo[u]) = c \/ Conn(todo'[u]) = c => todo'[u] = todo[u]
  /\ \A u \in Threads : KeepsQueue(c, Queue(u), Queue(u)')

(* No step of the program undoes these. *)
Onwards ==
  /\ inLoop' = inLoop
  /\ nextConnId_ \in Nat /\ nextConnId_' \in Nat /\ nextConnId_ <= nextConnId_'
  /\ \A c \in Clients : state_[c] # "kConnecting" => state_'[c] # "kConnecting"

LEMMA UntouchedLives ==
  ASSUME ServerTypes, Onwards, NEW c \in Clients, Untouched(c)
  PROVE  /\ Doomed(c) <=> Doomed(c)'
         /\ Opening(c) <=> Opening(c)'
         /\ Lives(c) => Lives(c)'
<1>1. /\ Threads' = Threads /\ LoopOf(c)' = LoopOf(c) /\ LoopOf(c) \in Threads
  BY ThreadsAre DEF Onwards, Threads, LoopOf, numThreads_
<1> DEFINE l == LoopOf(c)
<1>2. \A u \in Threads :
        /\ Conn(todo'[u]) = c <=> Conn(todo[u]) = c
        /\ Conn(todo[u]) = c => Op(todo'[u]) = Op(todo[u]) /\ Goal(todo'[u]) = Goal(todo[u])
  BY DEF Untouched
<1>3. \A u \in Threads : \A f : f.conn = c => (f \in Elems(Queue(u)') <=> f \in Elems(Queue(u)))
  BY DEF Untouched, KeepsQueue
<1>4. \A u \in Threads : \A f \in {Est(c), Des(c), Rem(c)} :
        f \in Elems(Queue(u)') <=> f \in Elems(Queue(u))
  BY <1>3, FunctorsDiffer
<1>5. /\ Before(Queue(l), Est(c), Des(c)) => Before(Queue(l)', Est(c), Des(c))
      /\ Unique(Queue(l), Est(c)) => Unique(Queue(l)', Est(c))
  BY <1>1 DEF Untouched, KeepsQueue
<1>6. \A u \in Threads : Enabling(u, c)' <=> Enabling(u, c)
  BY <1>2 DEF Enabling
<1>7. Opening(c)' <=> Opening(c)
  BY <1>1, <1>4, <1>6 DEF Opening
<1>8. Doomed(c)' <=> Doomed(c)
  <2>1. \A u \in Threads : Removing(u, c)' <=> Removing(u, c)
    BY <1>2, <1>4 DEF Removing
  <2>2. c \in connections_' <=> c \in connections_
    BY DEF Untouched
  <2>3. QED
    BY <1>1, <2>1, <2>2 DEF Doomed
<1>9. ASSUME Lives(c)
      PROVE  Lives(c)'
  <2>1. Fresh(c)'
    <3>1. SUFFICES ASSUME state_'[c] = "kConnecting"
                   PROVE  /\ channel_'[c] = NewChannel /\ told'[c] = [up |-> 0, message |-> 0, down |-> 0]
                          /\ \A t \in Threads : Conn(todo'[t]) = c => Op(todo'[t]) \in {"insert", "enableReading"}
                          /\ \A t \in Threads : Rem(c) \notin Elems(Queue(t)')
                          /\ c \in connections_' => Opening(c)'
                          /\ Enabling(l, c)' \/ Before(Queue(l)', Est(c), Des(c))
      BY <1>1 DEF Fresh
    <3>2. /\ channel_[c] = NewChannel /\ told[c] = [up |-> 0, message |-> 0, down |-> 0]
          /\ \A t \in Threads : Conn(todo[t]) = c => Op(todo[t]) \in {"insert", "enableReading"}
          /\ \A t \in Threads : Rem(c) \notin Elems(Queue(t))
          /\ c \in connections_ => Opening(c)
          /\ Enabling(l, c) \/ Before(Queue(l), Est(c), Des(c))
      BY <1>9, <3>1 DEF Lives, Fresh, Untouched
    <3>3. Enabling(l, c)' \/ Before(Queue(l)', Est(c), Des(c))
      BY <1>1, <1>5, <1>6, <3>2
    <3>4. QED
      BY <1>2, <1>4, <1>7, <3>2, <3>3 DEF Untouched
  <2>2. Begun(c)'
    <3>1. SUFFICES ASSUME state_'[c] # "kConnecting"
                   PROVE  /\ c < nextConnId_' /\ ~Opening(c)'
                          /\ \A t \in Threads : Conn(todo'[t]) = c => Goal(todo'[t]) # "insert"
      BY <1>1 DEF Begun
    <3>2. /\ c < nextConnId_ /\ ~Opening(c)
          /\ \A t \in Threads : Conn(todo[t]) = c => Goal(todo[t]) # "insert"
      BY <1>9, <3>1 DEF Lives, Begun, Untouched
    <3>3. c < nextConnId_'
      BY <3>2, ClientsAre DEF Onwards
    <3>4. QED
      BY <1>2, <1>7, <3>2, <3>3
  <2>3. Once(c)'
    <3>1. ASSUME NEW t \in Threads, Conn(todo'[t]) = c, Goal(todo'[t]) = "insert"
          PROVE  /\ c \notin connections_'
                 /\ \A u \in Threads : u # t => Conn(todo'[u]) # c
                 /\ \A u \in Threads : \A f \in Elems(Queue(u)') : f.conn # c
      <4>1. /\ c \notin connections_
            /\ \A u \in Threads : u # t => Conn(todo[u]) # c
            /\ \A u \in Threads : \A f \in Elems(Queue(u)) : f.conn # c
        BY <1>2, <1>9, <3>1 DEF Lives, Once
      <4>2. QED
        BY <1>2, <1>3, <4>1 DEF Untouched
    <3>2. \A t \in Threads : Enabling(t, c)' => Est(c) \notin Elems(Queue(l)')
      BY <1>1, <1>4, <1>6, <1>9 DEF Lives, Once
    <3>3. Unique(Queue(l)', Est(c))
      BY <1>5, <1>9 DEF Lives, Once
    <3>4. QED
      BY <1>1, <3>1, <3>2, <3>3 DEF Once
  <2>4. Kept(c)'
    BY <1>7, <1>8, <1>9 DEF Lives, Kept, Untouched
  <2>5. QED
    BY <2>1, <2>2, <2>3, <2>4 DEF Lives
<1>10. QED
  BY <1>7, <1>8, <1>9

(* One that is enabled stays so, whoever goes on about it. *)
LEMMA EnabledLives ==
  ASSUME Inv, Onwards, NEW c \in Clients, state_[c] # "kConnecting",
         \A u \in Threads : Est(c) \in Elems(Queue(u)') => Est(c) \in Elems(Queue(u)),
         \A u \in Threads : Conn(todo'[u]) = c =>
           \/ todo'[u] = todo[u]
           \/ Op(todo'[u]) # "enableReading" /\ Goal(todo'[u]) # "insert",
         channel_'[c].mapped => Doomed(c)'
  PROVE  Lives(c)'
<1>1. /\ Threads' = Threads /\ LoopOf(c)' = LoopOf(c) /\ LoopOf(c) \in Threads
  BY ThreadsAre DEF Inv, Types, Onwards, Threads, LoopOf, numThreads_
<1> DEFINE l == LoopOf(c)
<1>2. /\ c < nextConnId_ /\ ~Opening(c)
      /\ \A t \in Threads : Conn(todo[t]) = c => Goal(todo[t]) # "insert"
  BY DEF Inv, Lives, Begun
<1>3. state_'[c] # "kConnecting" /\ c < nextConnId_'
  BY <1>2, ClientsAre DEF Onwards
<1>4. Est(c) \notin Elems(Queue(l)')
  BY <1>1, <1>2 DEF Opening
<1>5. \A u \in Threads : ~Enabling(u, c)'
  BY <1>2 DEF Opening, Enabling
<1>6. ~Opening(c)'
  BY <1>1, <1>4, <1>5 DEF Opening
<1>7. \A t \in Threads : Conn(todo'[t]) = c => Goal(todo'[t]) # "insert"
  BY <1>2
<1>8. Begun(c)'
  BY <1>1, <1>3, <1>6, <1>7 DEF Begun
<1>9. Once(c)'
  <2>1. Unique(Queue(l)', Est(c))
    BY <1>4 DEF Unique, Elems
  <2>2. QED
    BY <1>1, <1>5, <1>7, <2>1 DEF Once
<1>10. QED
  BY <1>3, <1>6, <1>8, <1>9 DEF Lives, Fresh, Kept

-----------------------------------------------------------------------------
(* A thread goes on with c, and with nothing else.                          *)

LEMMA Continues ==
  ASSUME Types, inLoop' = inLoop, NEW t \in Threads, NEW s \in Shapes,
         NEW refs \in SUBSET Clients, Continue(t, s, refs)
  PROVE  /\ todo' \in [Threads -> Shapes] /\ held' \in [Threads -> SUBSET Clients]
         /\ todo'[t] = s
         /\ held'[t] = IF s = <<>> /\ at[t] # "functors" THEN {} ELSE held[t] \cup refs
         /\ \A u \in Threads : u # t => todo'[u] = todo[u] /\ held'[u] = held[u]
<1>1. todo \in [Threads -> Shapes] /\ held \in [Threads -> SUBSET Clients]
  BY DEF Types, LoopTypes
<1>2. /\ todo' = [todo EXCEPT ![t] = s]
      /\ held' = [held EXCEPT ![t] = IF s = <<>> /\ at[t] # "functors" THEN {} ELSE held[t] \cup refs]
  BY DEF Continue
<1>3. todo' \in [Threads -> Shapes] /\ todo'[t] = s /\ \A u \in Threads : u # t => todo'[u] = todo[u]
  BY <1>1, <1>2
<1>4. (IF s = <<>> /\ at[t] # "functors" THEN {} ELSE held[t] \cup refs) \in SUBSET Clients
  BY <1>1
<1>5. QED
  BY <1>1, <1>2, <1>3, <1>4

LEMMA PlacedOnwards ==
  ASSUME Types, Onwards, NEW t \in Threads
  PROVE  /\ \A f : FunctorPlaced(t, f) => FunctorPlaced(t, f)'
         /\ \A ch \in 0..MaxClients : ChannelPlaced(t, ch) => ChannelPlaced(t, ch)'
         /\ TaskPlaced(t) /\ todo'[t] = todo[t] /\ at'[t] = at[t] => TaskPlaced(t)'
<1>1. \A c : LoopOf(c)' = LoopOf(c) /\ Opener(c)' = Opener(c)
  BY DEF Onwards, Threads, LoopOf, numThreads_, Opener
<1>2. /\ \A c \in Clients : c < nextConnId_ => c < nextConnId_'
      /\ inLoop' = inLoop /\ \A c \in Clients : state_[c] # "kConnecting" => state_'[c] # "kConnecting"
  BY ClientsAre DEF Onwards
<1>3. \A f : FunctorPlaced(t, f) => FunctorPlaced(t, f)'
  BY <1>1, <1>2 DEF FunctorPlaced
<1>4. \A ch \in 0..MaxClients : ChannelPlaced(t, ch) => ChannelPlaced(t, ch)'
  BY <1>1, <1>2, ClientsAre DEF ChannelPlaced
<1>5. ASSUME TaskPlaced(t), todo'[t] = todo[t], at'[t] = at[t]
      PROVE  TaskPlaced(t)'
  BY <1>1, <1>2, <1>5 DEF TaskPlaced
<1>6. QED
  BY <1>3, <1>4, <1>5

(* At most one functor, of c, is queued in a loop or taken by it. *)
QueueStep(c) ==
  \A u \in Threads :
    \/ Queue(u)' = Queue(u)
    \/ \E f \in Functors : f.conn = c /\ Queue(u)' = Append(Queue(u), f)
    \/ Queue(u) # <<>> /\ Head(Queue(u)).conn = c /\ Queue(u)' = Tail(Queue(u))

Alone(c) ==
  \A d \in Clients : d # c =>
    /\ state_'[d] = state_[d] /\ channel_'[d] = channel_[d] /\ told'[d] = told[d]
    /\ d \in connections_' <=> d \in connections_

LEMMA OthersUntouched ==
  ASSUME Types, NEW t \in Threads, NEW c, NEW d \in Clients, d # c, Alone(c), QueueStep(c),
         \A u \in Threads : u # t => todo'[u] = todo[u],
         Conn(todo[t]) \in {c, acceptor}, Conn(todo'[t]) \in {c, acceptor}
  PROVE  Untouched(d)
<1>1. \A u \in Threads : Conn(todo[u]) = d \/ Conn(todo'[u]) = d => todo'[u] = todo[u]
  BY ClientsAre
<1>2. ASSUME NEW u \in Threads
      PROVE  KeepsQueue(d, Queue(u), Queue(u)')
  <2>1. PICK q : q = Queue(u) /\ q \in Seq(Functors)
    BY QueuesAre
  <2>2. CASE Queue(u)' = Queue(u)
    BY <2>2 DEF KeepsQueue
  <2>3. ASSUME NEW f \in Functors, f.conn = c, Queue(u)' = Append(q, f)
        PROVE  KeepsQueue(d, Queue(u), Queue(u)')
    BY <2>1, <2>3, AppendKeeps
  <2>4. CASE q # <<>> /\ Head(q).conn = c /\ Queue(u)' = Tail(q)
    BY <2>1, <2>4, TailKeeps
  <2>5. QED
    BY <2>1, <2>2, <2>3, <2>4 DEF QueueStep
<1>3. QED
  BY <1>1, <1>2 DEF Untouched, Alone

(* Thread t goes on with s, about c. *)
Moves(t, c, s, refs) ==
  /\ Continue(t, s, refs) /\ at' = at /\ events_' = events_
  /\ active' \in [Threads -> SUBSET (0..MaxClients)]
  /\ \A u \in Threads : active'[u] \subseteq active[u]
  /\ batch' \in [Threads -> Seq(Functors)] /\ pending' \in [Threads -> Seq(Functors)]
  /\ \A u \in Threads : \/ batch'[u] = batch[u]
                        \/ at[u] = "functors" /\ Elems(batch'[u]) \subseteq Elems(batch[u])
  /\ Conn(todo[t]) \in {c, acceptor} /\ Conn(s) \in {c, acceptor}
  /\ Goal(s) \in Goals(at[t])
  /\ Conn(s) # acceptor => Conn(s) \in held[t] \cup refs
  /\ at[t] = "functors" \/ s = <<>> \/ held[t] \cup refs \subseteq {Conn(s)}

LEMMA MovesWhere ==
  ASSUME Inv, Onwards, NEW t \in Threads, NEW c, NEW s \in Shapes,
         NEW refs \in SUBSET Clients, Moves(t, c, s, refs), NEW u \in Threads
  PROVE  Where(u)'
<1>1. /\ Where(u) /\ Types /\ inLoop' = inLoop /\ Continue(t, s, refs)
  BY DEF Inv, Onwards, Moves
<1>2. /\ todo'[t] = s
      /\ held'[t] = IF s = <<>> /\ at[t] # "functors" THEN {} ELSE held[t] \cup refs
      /\ \A v \in Threads : v # t => todo'[v] = todo[v] /\ held'[v] = held[v]
  BY <1>1, Continues
<1>3. /\ at[u] \in {"ended", "destroying", "joining", "gone"} => u = 0
      /\ at[0] = "off" => at[u] = "off"
      /\ at[u] \in {"off", "poll", "functors", "ended"} => active[u] = {}
      /\ Goal(todo[u]) \in Goals(at[u])
      /\ Conn(todo[u]) # acceptor => Conn(todo[u]) \in held[u]
      /\ at[u] # "functors" => batch[u] = <<>> /\ held[u] \subseteq {Conn(todo[u])}
      /\ \A f \in Elems(batch[u]) : f.conn # acceptor => f.conn \in held[u]
  BY <1>1 DEF Where
<1>4. /\ at' = at /\ active'[u] \subseteq active[u]
      /\ batch'[u] = batch[u] \/ (at[u] = "functors" /\ Elems(batch'[u]) \subseteq Elems(batch[u]))
      /\ Goal(s) \in Goals(at[t])
      /\ Conn(s) # acceptor => Conn(s) \in held[t] \cup refs
      /\ at[t] = "functors" \/ s = <<>> \/ held[t] \cup refs \subseteq {Conn(s)}
  BY DEF Moves
<1>5. /\ Elems(batch'[u]) \subseteq Elems(batch[u])
      /\ at[u] # "functors" => batch'[u] = <<>>
  BY <1>3, <1>4
<1>6. Elems(<<>>) = {} /\ (s = <<>> => Conn(s) = acceptor)
  BY DEF Elems, Conn
<1>7. CASE u # t
  <2>1. todo'[u] = todo[u] /\ held'[u] = held[u]
    BY <1>2, <1>7
  <2>2. QED
    BY <1>3, <1>4, <1>5, <2>1 DEF Where
<1>8. CASE u = t
  <2>1. Conn(s) # acceptor => Conn(s) \in held'[t]
    BY <1>2, <1>4, <1>6
  <2>2. at[t] # "functors" => batch'[t] = <<>> /\ held'[t] \subseteq {Conn(s)}
    BY <1>2, <1>4, <1>5, <1>8
  <2>3. \A f \in Elems(batch'[t]) : f.conn # acceptor => f.conn \in held'[t]
    <3>1. CASE at[t] = "functors"
      BY <1>2, <1>3, <1>5, <1>8, <3>1
    <3>2. CASE at[t] # "functors"
      BY <1>5, <1>6, <1>8, <3>2
    <3>3. QED
      BY <3>1, <3>2
  <2>4. QED
    BY <1>2, <1>3, <1>4, <1>8, <2>1, <2>2, <2>3 DEF Where
<1>9. QED
  BY <1>7, <1>8

(* What is left to show of such a step. *)
LEMMA StepKeeps ==
  ASSUME Inv, Onwards, NEW t \in Threads, NEW c \in 0..MaxClients, NEW s \in Shapes,
         NEW refs \in SUBSET Clients, Moves(t, c, s, refs), Alone(c), QueueStep(c),
         TaskPlaced(t)',
         \A u \in Threads : \A f \in Elems(Queue(u)') : f \in Elems(Queue(u)) \/ FunctorPlaced(u, f)',
         c # acceptor => Lives(c)',
         ~inLoop[0] \/ ~Destruction =>
           \A u \in Threads : c # acceptor /\ c \in active'[u] => Doomed(c)',
         ServerTypes', ConnTypes', Agreed'
  PROVE  Inv'
<1>1. /\ Types /\ inLoop' = inLoop /\ Threads' = Threads /\ Continue(t, s, refs)
      /\ at' = at /\ events_' = events_ /\ \A u \in Threads : active'[u] \subseteq active[u]
  BY DEF Inv, Onwards, Moves, Threads
<1>2. /\ todo' \in [Threads -> Shapes] /\ held' \in [Threads -> SUBSET Clients] /\ todo'[t] = s
      /\ \A u \in Threads : u # t => todo'[u] = todo[u]
  BY <1>1, Continues
<1>3. Types'
  <2>1. at' \in [Threads -> Places] /\ events_' \in [Threads -> Nat \ {0}]
    BY <1>1 DEF Types, LoopTypes
  <2>2. LoopTypes'
    BY <1>1, <1>2, <2>1 DEF Moves, LoopTypes
  <2>3. QED
    BY <2>2 DEF Types
<1>4. \A u \in Threads : Where(u)'
  BY MovesWhere
<1>5. ASSUME NEW u \in Threads
      PROVE  Placed(u)'
  <2>1. Placed(u) /\ active[u] \subseteq 0..MaxClients
    BY <1>1 DEF Inv, Types, LoopTypes
  <2>2. TaskPlaced(u)'
    <3>1. CASE u = t
      BY <3>1
    <3>2. CASE u # t
      BY <1>1, <1>2, <2>1, <3>2, PlacedOnwards DEF Placed
    <3>3. QED
      BY <3>1, <3>2
  <2>3. \A f \in Elems(Queue(u)') : FunctorPlaced(u, f)'
    BY <1>1, <2>1, PlacedOnwards DEF Placed
  <2>4. \A ch \in active'[u] : ChannelPlaced(u, ch)'
    BY <1>1, <2>1, PlacedOnwards DEF Placed
  <2>5. QED
    BY <2>2, <2>3, <2>4 DEF Placed
<1>6. ASSUME NEW d \in Clients, d # c
      PROVE  Lives(d)' /\ (Doomed(d) => Doomed(d)')
  <2>1. Conn(todo[t]) \in {c, acceptor} /\ Conn(todo'[t]) \in {c, acceptor}
    BY <1>2 DEF Moves
  <2>2. Untouched(d)
    BY <1>1, <1>2, <1>6, <2>1, OthersUntouched
  <2>3. ServerTypes /\ Lives(d)
    BY <1>1 DEF Inv, Types
  <2>4. QED
    BY <2>2, <2>3, UntouchedLives
<1>7. \A d \in Clients : Lives(d)'
  BY <1>6, ClientsAre
<1>8. Reached'
  <2>1. SUFFICES ASSUME ~inLoop[0] \/ ~Destruction, NEW u \in Threads, NEW d \in active'[u],
                        d # acceptor
                 PROVE  Doomed(d)'
    BY <1>1 DEF Reached, Destruction
  <2>2. d \in active[u] /\ d \in Clients
    BY <1>1, <2>1, ClientsAre DEF Types, LoopTypes
  <2>3. Doomed(d)
    BY <2>1, <2>2 DEF Inv, Reached
  <2>4. QED
    BY <1>6, <2>1, <2>2, <2>3
<1>9. QED
  BY <1>1, <1>3, <1>4, <1>5, <1>7, <1>8 DEF Inv

LEMMA DoomedStays ==
  ASSUME ServerTypes, inLoop' = inLoop, NEW t \in Threads, NEW c \in Clients, Doomed(c),
         c \in connections_ => c \in connections_',
         \A u \in Threads : \A f \in Elems(Queue(u)) : f.conn = c => f \in Elems(Queue(u)'),
         \A u \in Threads : u # t => todo'[u] = todo[u],
         Conn(todo[t]) = c /\ Goal(todo[t]) \in {"closeCallback", "erase", "remove"} =>
           \E u \in Threads : Removing(u, c)'
  PROVE  Doomed(c)'
<1>1. Threads' = Threads
  BY DEF Threads
<1>2. ASSUME NEW u \in Threads, Removing(u, c)
      PROVE  \E v \in Threads : Removing(v, c)'
  <2>1. CASE Rem(c) \in Elems(Queue(u)) \/ Des(c) \in Elems(Queue(u))
    BY <2>1, FunctorsDiffer DEF Removing
  <2>2. CASE Conn(todo[u]) = c /\ Goal(todo[u]) \in {"closeCallback", "erase", "remove"}
    BY <2>2 DEF Removing
  <2>3. QED
    BY <1>2, <2>1, <2>2 DEF Removing
<1>3. QED
  BY <1>1, <1>2 DEF Doomed

-----------------------------------------------------------------------------
(* Accesses and callbacks.                                                  *)

LEMMA AccessIs ==
  ASSUME Inv, NEW t \in Threads, NEW op, NEW c, Doing(t, op, c)
  PROVE  /\ todo[t] \in Shapes /\ todo[t] # <<>> /\ Regular(todo[t])
         /\ Op(todo[t]) = op /\ Conn(todo[t]) = c /\ Where(t) /\ TaskPlaced(t)
<1>1. todo[t] \in Shapes /\ todo[t] # <<>> /\ Head(todo[t]) = Call(op, c) /\ Where(t) /\ TaskPlaced(t)
  BY DEF Inv, Types, LoopTypes, Placed, Doing, Idle
<1>2. Regular(todo[t])
  BY <1>1, ShapeIs
<1>3. Head(todo[t]) = Call(Op(todo[t]), Conn(todo[t]))
  BY <1>1, <1>2 DEF Regular
<1>4. QED
  BY <1>1, <1>2, <1>3 DEF Call

LEMMA EmptyTask == Goal(<<>>) = "none" /\ Op(<<>>) = "none" /\ Conn(<<>>) = acceptor /\ <<>> \in Shapes
BY DEF Goal, Op, Conn, Shapes

(* An access is completed. *)
LEMMA DoneMoves ==
  ASSUME Inv, Onwards, NEW t \in Threads, NEW op, NEW c, Doing(t, op, c),
         Continue(t, Tail(todo[t]), {}), UNCHANGED loopVars,
         pending' \in [Threads -> Seq(Functors)]
  PROVE  /\ Tail(todo[t]) \in Shapes /\ Moves(t, c, Tail(todo[t]), {}) /\ TaskPlaced(t)'
         /\ todo'[t] = Tail(todo[t]) /\ \A u \in Threads : u # t => todo'[u] = todo[u]
         /\ Op(todo'[t]) # "enableReading" /\ Goal(todo'[t]) # "insert"
         /\ IF op = Goal(todo[t]) THEN todo'[t] = <<>>
              ELSE Goal(todo'[t]) = Goal(todo[t]) /\ Conn(todo'[t]) = c
<1>1. /\ todo[t] \in Shapes /\ todo[t] # <<>> /\ Regular(todo[t])
      /\ Op(todo[t]) = op /\ Conn(todo[t]) = c /\ Where(t) /\ TaskPlaced(t)
  BY AccessIs
<1> DEFINE r == Tail(todo[t])
           g == Goal(todo[t])
<1>2. r \in Shapes /\ Regular(r)
  BY <1>1, ShapeIs DEF Regular
<1>3. /\ g \in {"listen", "insert", "up", "message", "closeCallback", "erase", "remove"}
      /\ IF op = g THEN r = <<>>
           ELSE /\ r # <<>> /\ Goal(r) = g /\ Conn(r) = c
                /\ g \in {"up", "closeCallback", "remove"} /\ Op(r) \in {"down", g}
  BY <1>1 DEF Regular
<1>4. Types /\ inLoop' = inLoop /\ {} \in SUBSET Clients
  BY DEF Inv, Onwards
<1>5. /\ todo'[t] = r /\ \A u \in Threads : u # t => todo'[u] = todo[u]
  BY <1>2, <1>4, Continues
<1>6. Op(r) # "enableReading" /\ Goal(r) # "insert" /\ Conn(r) \in {c, acceptor}
      /\ (Conn(r) # acceptor => Conn(r) = c)
  BY <1>3, EmptyTask
<1>7. Goal(r) \in Goals(at[t])
  <2>1. g \in Goals(at[t]) /\ "none" \in Goals(at[t])
    BY <1>1 DEF Where, Goals
  <2>2. QED
    BY <1>3, <2>1, EmptyTask
<1>8. Moves(t, c, r, {})
  <2>1. at' = at /\ events_' = events_ /\ active' = active /\ batch' = batch
    BY DEF loopVars
  <2>2. Conn(r) # acceptor => Conn(r) \in held[t] \cup {}
    BY <1>1, <1>6 DEF Where
  <2>3. at[t] = "functors" \/ r = <<>> \/ held[t] \cup {} \subseteq {Conn(r)}
    BY <1>1, <1>3 DEF Where
  <2>4. QED
    BY <1>1, <1>4, <1>6, <1>7, <2>1, <2>2, <2>3 DEF Moves, Types, LoopTypes
<1>9. TaskPlaced(t)'
  <2>1. CASE op = g
    BY <1>3, <1>5, <2>1, EmptyTask DEF TaskPlaced
  <2>2. CASE op # g
    <3>1. g \in {"up", "closeCallback", "remove"} /\ Goal(r) = g /\ Conn(r) = c
      BY <1>3, <2>2
    <3>2. /\ c \in Clients /\ c < nextConnId_
          /\ g = "up" => t = Opener(c)
          /\ g = "closeCallback" => t = LoopOf(c)
          /\ g = "remove" => \/ t = LoopOf(c) /\ at[t] = "functors"
                             \/ t = 0 /\ inLoop[0] /\ at[t] = "destroying"
      BY <1>1, <3>1 DEF TaskPlaced
    <3>3. /\ c < nextConnId_' /\ Opener(c)' = Opener(c) /\ LoopOf(c)' = LoopOf(c)
          /\ inLoop' = inLoop /\ at' = at
      BY <3>2, ClientsAre DEF Onwards, Opener, LoopOf, numThreads_, Threads, loopVars
    <3>4. QED
      BY <1>5, <3>1, <3>2, <3>3 DEF TaskPlaced
  <2>3. QED
    BY <2>1, <2>2
<1>10. QED
  BY <1>2, <1>3, <1>5, <1>6, <1>8, <1>9

LEMMA OnwardsIs ==
  ASSUME Types, inLoop' = inLoop, nextConnId_' = nextConnId_,
         \A c \in Clients : state_[c] # "kConnecting" => state_'[c] # "kConnecting"
  PROVE  Onwards
BY ServerAssumption DEF Types, ServerTypes, Onwards

LEMMA NoQueueStep ==
  ASSUME batch' = batch, pending' = pending, NEW c
  PROVE  /\ QueueStep(c)
         /\ \A u \in Threads : \A f \in Elems(Queue(u)') : f \in Elems(Queue(u)) \/ FunctorPlaced(u, f)'
         /\ \A u \in Threads : \A f \in Elems(Queue(u)) : f \in Elems(Queue(u)')
BY SameQueues DEF QueueStep

(* What comes after the first two of a connection finds it enabled. *)
LEMMA EnabledIs ==
  ASSUME Inv, NEW t \in Threads, NEW op, NEW c \in Clients, Doing(t, op, c),
         op \notin {"insert", "enableReading"}
  PROVE  state_[c] # "kConnecting"
BY AccessIs DEF Inv, Lives, Fresh

LEMMA ListenKeeps == ASSUME Inv, NEW t \in Threads, Listen(t) PROVE Inv'
<1>1. /\ Doing(t, "listen", acceptor) /\ Continue(t, Tail(todo[t]), {}) /\ pending' = pending
      /\ inLoop' = inLoop /\ maxFds' = maxFds /\ UNCHANGED <<clientVars, connVars, serverVars, loopVars>>
      /\ listenning_' = TRUE /\ acceptChannel_' = enableReading(acceptChannel_)
  BY DEF Listen, Done
<1>2. Onwards
  BY <1>1, OnwardsIs DEF Inv, serverVars, connVars
<1>3. pending' \in [Threads -> Seq(Functors)] /\ batch' = batch
  BY <1>1 DEF Inv, Types, LoopTypes, loopVars
<1>4. /\ Tail(todo[t]) \in Shapes /\ Moves(t, acceptor, Tail(todo[t]), {}) /\ TaskPlaced(t)'
  BY <1>1, <1>2, <1>3, DoneMoves
<1>5. ServerTypes' /\ ConnTypes' /\ Agreed'
  <2>1. acceptChannel_' \in ChannelStates /\ Agrees(acceptChannel_')
    BY <1>1, ChannelCalls DEF Inv, Types, ServerTypes, Agreed
  <2>2. ServerTypes'
    BY <1>1, <2>1 DEF Inv, Types, ServerTypes, clientVars, serverVars
  <2>3. ConnTypes' /\ Agreed'
    BY <1>1, <2>1 DEF Inv, Types, ConnTypes, connVars, Agreed
  <2>4. QED
    BY <2>2, <2>3
<1>6. Alone(acceptor)
  BY <1>1 DEF Alone, connVars, serverVars
<1>7. acceptor \in 0..MaxClients /\ {} \in SUBSET Clients
  BY ClientsAre
<1>8. QED
  BY <1>1, <1>2, <1>3, <1>4, <1>5, <1>6, <1>7, NoQueueStep, StepKeeps

LEMMA EnableReadingKeeps ==
  ASSUME Inv, NEW t \in Threads, NEW c \in Clients, EnableReading(t, c) PROVE Inv'
<1>1. /\ Doing(t, "enableReading", c) /\ Continue(t, Tail(todo[t]), {}) /\ pending' = pending
      /\ UNCHANGED <<acceptorVars, clientVars, told, serverVars, loopVars>>
      /\ state_' = [state_ EXCEPT ![c] = "kConnected"]
      /\ channel_' = [channel_ EXCEPT ![c] = enableReading(@)]
  BY DEF EnableReading, Done
<1>2. /\ todo[t] \in Shapes /\ Regular(todo[t]) /\ Op(todo[t]) = "enableReading"
      /\ Conn(todo[t]) = c /\ TaskPlaced(t)
  BY <1>1, AccessIs
<1>3. Goal(todo[t]) = "up" /\ t = Opener(c) /\ c < nextConnId_
  BY <1>2 DEF Regular, TaskPlaced
<1>4. channel_[c] \in ChannelStates /\ Agrees(channel_[c])
  BY DEF Inv, Types, ConnTypes, Agreed
<1>5. /\ state_' \in [Clients -> {"kConnecting", "kConnected", "kDisconnected"}]
      /\ channel_' \in [Clients -> ChannelStates] /\ state_'[c] # "kConnecting"
      /\ \A d \in Clients : d # c => state_'[d] = state_[d] /\ channel_'[d] = channel_[d]
      /\ \A d \in Clients : Agrees(channel_'[d])
  <2>1. enableReading(channel_[c]) \in ChannelStates /\ Agrees(enableReading(channel_[c]))
    BY <1>4, ChannelCalls
  <2>2. QED
    BY <1>1, <2>1 DEF Inv, Types, ConnTypes, Agreed
<1>6. Onwards
  BY <1>1, <1>5, OnwardsIs DEF Inv, acceptorVars, serverVars
<1>7. pending' \in [Threads -> Seq(Functors)] /\ batch' = batch
  BY <1>1 DEF Inv, Types, LoopTypes, loopVars
<1>8. /\ Tail(todo[t]) \in Shapes /\ Moves(t, c, Tail(todo[t]), {}) /\ TaskPlaced(t)'
      /\ \A u \in Threads : u # t => todo'[u] = todo[u]
      /\ Op(todo'[t]) # "enableReading" /\ Goal(todo'[t]) # "insert"
  BY <1>1, <1>6, <1>7, DoneMoves
<1>9. /\ \A u \in Threads : Queue(u)' = Queue(u)
      /\ Threads' = Threads /\ LoopOf(c)' = LoopOf(c) /\ LoopOf(c) \in Threads
  BY <1>1, <1>6, <1>7, SameQueues, ThreadsAre DEF Inv, Types, Onwards, Threads, LoopOf, numThreads_
<1>10. Once(c) /\ Enabling(t, c) /\ Opening(c)
  BY <1>2 DEF Inv, Lives, Enabling, Opening
<1>11. /\ Est(c) \notin Elems(Queue(LoopOf(c))) /\ Unique(Queue(LoopOf(c)), Est(c))
       /\ \A u \in Threads : Conn(todo[u]) = c => Goal(todo[u]) # "insert"
  <2>1. \A u \in Threads : Conn(todo[u]) = c /\ Goal(todo[u]) = "insert" => u = t
    BY <1>2, <1>10 DEF Once
  <2>2. QED
    BY <1>3, <1>10, <2>1 DEF Once
<1>12. \A u \in Threads : ~Enabling(u, c)'
  <2>1. SUFFICES ASSUME NEW u \in Threads, u # t, Enabling(u, c) PROVE FALSE
    BY <1>8 DEF Enabling
  <2>2. TaskPlaced(u) /\ Regular(todo[u])
    BY ShapeIs DEF Inv, Placed, Types, LoopTypes
  <2>3. QED
    BY <1>3, <2>1, <2>2 DEF Regular, TaskPlaced, Enabling
<1>13. Doomed(c)'
  <2>1. Doomed(c)
    BY <1>10 DEF Inv, Lives, Kept
  <2>2. ServerTypes /\ inLoop' = inLoop /\ connections_' = connections_
    BY <1>1 DEF Inv, Types, acceptorVars, serverVars
  <2>3. QED
    BY <1>3, <1>8, <1>9, <2>1, <2>2, DoomedStays
<1>14. Lives(c)'
  <2>1. ~Opening(c)'
    BY <1>9, <1>11, <1>12 DEF Opening
  <2>2. \A u \in Threads : Conn(todo'[u]) = c => Goal(todo'[u]) # "insert"
    BY <1>8, <1>11
  <2>3. Begun(c)'
    BY <1>1, <1>3, <1>9, <2>1, <2>2 DEF Begun, serverVars
  <2>4. Once(c)'
    BY <1>9, <1>11, <1>12, <2>2 DEF Once
  <2>5. QED
    BY <1>5, <1>13, <2>3, <2>4 DEF Lives, Fresh, Kept
<1>15. ServerTypes' /\ ConnTypes' /\ Agreed'
  <2>1. ServerTypes'
    BY <1>1 DEF Inv, Types, ServerTypes, acceptorVars, clientVars, serverVars
  <2>2. ConnTypes' /\ Agreed'
    BY <1>1, <1>5 DEF Inv, Types, ConnTypes, acceptorVars, Agreed
  <2>3. QED
    BY <2>1, <2>2
<1>16. Alone(c)
  BY <1>1, <1>5 DEF Alone, serverVars
<1>17. c \in 0..MaxClients /\ {} \in SUBSET Clients
  BY ClientsAre
<1>18. QED
  BY <1>1, <1>6, <1>7, <1>8, <1>13, <1>14, <1>15, <1>16, <1>17, NoQueueStep, StepKeeps

(* An access to an enabled connection only. *)
LEMMA DoneKeeps ==
  ASSUME Inv, NEW t \in Threads, NEW op, NEW c \in Clients, Done(t, op, c),
         op \notin {"insert", "enableReading"},
         UNCHANGED <<acceptorVars, clientVars, serverVars, loopVars>>, ConnTypes',
         \A d \in Clients : d # c =>
           state_'[d] = state_[d] /\ channel_'[d] = channel_[d] /\ told'[d] = told[d],
         state_'[c] # "kConnecting", Agrees(channel_'[c]),
         channel_'[c].mapped => Doomed(c)',
         ~inLoop[0] \/ ~Destruction => \A u \in Threads : c \in active[u] => Doomed(c)'
  PROVE  Inv'
<1>1. Doing(t, op, c) /\ Continue(t, Tail(todo[t]), {}) /\ pending' = pending
  BY DEF Done
<1>2. state_[c] # "kConnecting"
  BY <1>1, EnabledIs
<1>3. Onwards
  <2>1. \A d \in Clients : state_[d] # "kConnecting" => state_'[d] # "kConnecting"
    BY <1>2
  <2>2. QED
    BY <2>1, OnwardsIs DEF Inv, acceptorVars, serverVars
<1>4. pending' \in [Threads -> Seq(Functors)] /\ batch' = batch /\ active' = active
  BY <1>1 DEF Inv, Types, LoopTypes, loopVars
<1>5. /\ Tail(todo[t]) \in Shapes /\ Moves(t, c, Tail(todo[t]), {}) /\ TaskPlaced(t)'
      /\ \A u \in Threads : u # t => todo'[u] = todo[u]
      /\ Op(todo'[t]) # "enableReading" /\ Goal(todo'[t]) # "insert"
  BY <1>1, <1>3, <1>4, DoneMoves
<1>6. Lives(c)'
  <2>1. \A u : Queue(u)' = Queue(u)
    BY <1>1, <1>4, SameQueues
  <2>2. \A u \in Threads : Conn(todo'[u]) = c =>
          todo'[u] = todo[u] \/ (Op(todo'[u]) # "enableReading" /\ Goal(todo'[u]) # "insert")
    BY <1>5
  <2>3. \A u \in Threads : Est(c) \in Elems(Queue(u)') => Est(c) \in Elems(Queue(u))
    BY <2>1
  <2>4. channel_'[c].mapped => Doomed(c)'
    OBVIOUS
  <2>5. QED
    BY <1>2, <1>3, <2>2, <2>3, <2>4, EnabledLives
<1>7. ServerTypes' /\ Agreed'
  <2>1. ServerTypes'
    BY DEF Inv, Types, ServerTypes, acceptorVars, clientVars, serverVars
  <2>2. Agreed'
    BY DEF Inv, acceptorVars, Agreed
  <2>3. QED
    BY <2>1, <2>2
<1>8. Alone(c)
  BY DEF Alone, serverVars
<1>9. c \in 0..MaxClients /\ {} \in SUBSET Clients
  BY ClientsAre
<1>10. QED
  BY <1>1, <1>3, <1>4, <1>5, <1>6, <1>7, <1>8, <1>9, NoQueueStep, StepKeeps

LEMMA DisableAllKeeps ==
  ASSUME Inv, NEW t \in Threads, NEW c \in Clients, DisableAll(t, c) PROVE Inv'
<1>1. /\ Done(t, "disableAll", c) /\ Doing(t, "disableAll", c)
      /\ Continue(t, Tail(todo[t]), {}) /\ pending' = pending
      /\ UNCHANGED <<acceptorVars, clientVars, told, serverVars, loopVars>>
      /\ state_' = [state_ EXCEPT ![c] = "kDisconnected"]
      /\ channel_' = [channel_ EXCEPT ![c] = disableAll(@)]
  BY DEF DisableAll, Done
<1>2. /\ state_' \in [Clients -> {"kConnecting", "kConnected", "kDisconnected"}]
      /\ channel_' \in [Clients -> ChannelStates] /\ state_'[c] # "kConnecting"
      /\ \A d \in Clients : d # c => state_'[d] = state_[d] /\ channel_'[d] = channel_[d]
      /\ Agrees(channel_'[c])
  <2>1. disableAll(channel_[c]) \in ChannelStates /\ Agrees(disableAll(channel_[c]))
    BY ChannelCalls DEF Inv, Types, ConnTypes, Agreed
  <2>2. QED
    BY <1>1, <2>1 DEF Inv, Types, ConnTypes
<1>3. ConnTypes'
  <2>1. ConnTypes
    BY DEF Inv, Types
  <2>2. QED
    BY <1>1, <1>2, <2>1 DEF ConnTypes
<1>4. Doomed(c)'
  <2>1. Goal(todo[t]) \in {"closeCallback", "remove"}
    <3>1. Regular(todo[t]) /\ Op(todo[t]) = "disableAll"
      BY <1>1, AccessIs
    <3>2. QED
      BY <3>1 DEF Regular
  <2>2. inLoop' = inLoop /\ Onwards
    <3>1. \A d \in Clients : state_[d] # "kConnecting" => state_'[d] # "kConnecting"
      BY <1>2
    <3>2. QED
      BY <1>1, <3>1, OnwardsIs DEF Inv, acceptorVars, serverVars
  <2>3. pending' \in [Threads -> Seq(Functors)]
    BY <1>1 DEF Inv, Types, LoopTypes
  <2>4. Goal(todo'[t]) = Goal(todo[t]) /\ Conn(todo'[t]) = c
    BY <1>1, <2>1, <2>2, <2>3, DoneMoves
  <2>5. QED
    BY <2>1, <2>2, <2>4 DEF Doomed, Removing, Threads
<1>5. QED
  BY <1>1, <1>2, <1>3, <1>4, DoneKeeps

LEMMA RemoveKeeps ==
  ASSUME Inv, NEW t \in Threads, NEW c \in Clients, Remove(t, c) PROVE Inv'
<1>1. /\ Done(t, "remove", c) /\ Doing(t, "remove", c)
      /\ UNCHANGED <<acceptorVars, clientVars, state_, told, serverVars, loopVars>>
      /\ channel_' = [channel_ EXCEPT ![c] = removeChannel(@)]
  BY DEF Remove, Done
<1>2. /\ channel_' \in [Clients -> ChannelStates]
      /\ \A d \in Clients : d # c => channel_'[d] = channel_[d]
      /\ Agrees(channel_'[c]) /\ ~channel_'[c].mapped
  <2>1. /\ removeChannel(channel_[c]) \in ChannelStates /\ Agrees(removeChannel(channel_[c]))
        /\ removeChannel(channel_[c]).index = "kNew"
    BY ChannelCalls DEF Inv, Types, ConnTypes, Agreed
  <2>2. QED
    BY <1>1, <2>1 DEF Inv, Types, ConnTypes, Agrees
<1>3. state_'[c] # "kConnecting"
  BY <1>1, EnabledIs
<1>4. ConnTypes'
  <2>1. ConnTypes
    BY DEF Inv, Types
  <2>2. QED
    BY <1>1, <1>2, <2>1 DEF ConnTypes
<1>5. ASSUME ~inLoop[0] \/ ~Destruction, NEW u \in Threads, c \in active[u]
      PROVE  FALSE
  <2>1. Goal(todo[t]) = "remove" /\ Conn(todo[t]) = c /\ Where(t) /\ TaskPlaced(t)
    <3>1. /\ Regular(todo[t]) /\ Op(todo[t]) = "remove" /\ Conn(todo[t]) = c
          /\ Where(t) /\ TaskPlaced(t)
      BY <1>1, AccessIs
    <3>2. QED
      BY <3>1 DEF Regular
  <2>2. u = LoopOf(c)
    BY <1>5, ClientsAre DEF Inv, Placed, ChannelPlaced
  <2>3. CASE t = LoopOf(c) /\ at[t] = "functors"
    BY <1>5, <2>1, <2>2, <2>3 DEF Where
  <2>4. CASE t = 0 /\ inLoop[0] /\ at[t] = "destroying"
    BY <1>5, <2>4 DEF Destruction
  <2>5. QED
    BY <2>1, <2>3, <2>4 DEF TaskPlaced
<1>6. QED
  BY <1>1, <1>2, <1>3, <1>4, <1>5, DoneKeeps

LEMMA CallbackKeeps ==
  ASSUME Inv, NEW t \in Threads, NEW c \in Clients, Callback(t, c) PROVE Inv'
<1>1. PICK op \in {"up", "message", "down"} :
        Done(t, op, c) /\ told' = [told EXCEPT ![c][op] = @ + 1]
  BY DEF Callback
<1>2. /\ Doing(t, op, c) /\ Continue(t, Tail(todo[t]), {}) /\ pending' = pending
      /\ UNCHANGED <<acceptorVars, clientVars, state_, channel_, serverVars, loopVars>>
  BY <1>1 DEF Callback, Done
<1>3. told' \in [Clients -> [up : Nat, message : Nat, down : Nat]]
      /\ \A d \in Clients : d # c => told'[d] = told[d]
  <2>1. told \in [Clients -> [up : Nat, message : Nat, down : Nat]]
    BY DEF Inv, Types, ConnTypes
  <2>2. [told[c] EXCEPT ![op] = @ + 1] \in [up : Nat, message : Nat, down : Nat]
    BY <2>1
  <2>3. told' = [told EXCEPT ![c] = [told[c] EXCEPT ![op] = @ + 1]]
    BY <1>1, <2>1
  <2>4. QED
    BY <2>1, <2>2, <2>3
<1>4. state_'[c] # "kConnecting"
  BY <1>2, EnabledIs
<1>5. ConnTypes' /\ Agrees(channel_'[c])
  BY <1>2, <1>3 DEF Inv, Types, ConnTypes, Agreed
<1>6. Onwards /\ inLoop' = inLoop /\ ServerTypes
  BY <1>2, OnwardsIs DEF Inv, Types, acceptorVars, serverVars
<1>7. Doomed(c) => Doomed(c)'
  <2>1. Regular(todo[t]) /\ Op(todo[t]) = op /\ Conn(todo[t]) = c
    BY <1>2, AccessIs
  <2>2. pending' \in [Threads -> Seq(Functors)] /\ batch' = batch
    BY <1>2 DEF Inv, Types, LoopTypes, loopVars
  <2>3. /\ \A u \in Threads : u # t => todo'[u] = todo[u]
        /\ op # Goal(todo[t]) => Goal(todo'[t]) = Goal(todo[t]) /\ Conn(todo'[t]) = c
    BY <1>2, <1>6, <2>2, DoneMoves
  <2>4. Goal(todo[t]) \in {"closeCallback", "erase", "remove"} => Removing(t, c)'
    BY <2>1, <2>3 DEF Regular, Removing
  <2>5. \A u \in Threads : \A f \in Elems(Queue(u)) : f \in Elems(Queue(u)')
    BY <1>2, <2>2, NoQueueStep
  <2>6. connections_' = connections_
    BY <1>2 DEF serverVars
  <2>7. QED
    BY <1>6, <2>3, <2>4, <2>5, <2>6, DoomedStays
<1>8. channel_'[c].mapped => Doomed(c)'
  BY <1>2, <1>7 DEF Inv, Lives, Kept
<1>9. ~inLoop[0] \/ ~Destruction => \A u \in Threads : c \in active[u] => Doomed(c)'
  BY <1>7, ClientsAre DEF Inv, Reached
<1>10. QED
  BY <1>1, <1>2, <1>3, <1>4, <1>5, <1>8, <1>9, DoneKeeps

(* A functor of c is queued in loop l. *)
LEMMA AppendStep ==
  ASSUME Types, inLoop' = inLoop, NEW l \in Threads, NEW f \in Functors, batch' = batch,
         pending' = [pending EXCEPT ![l] = Append(@, f)]
  PROVE  /\ pending' \in [Threads -> Seq(Functors)] /\ QueueStep(f.conn)
         /\ f \in Elems(Queue(l)')
         /\ \A u \in Threads : \A g \in Elems(Queue(u)) : g \in Elems(Queue(u)')
         /\ \A u \in Threads : \A g \in Elems(Queue(u)') : g \in Elems(Queue(u)) \/ (u = l /\ g = f)
<1>1. /\ pending' \in [Threads -> Seq(Functors)] /\ Queue(l)' = Append(Queue(l), f)
      /\ \A u \in Threads : u # l => Queue(u)' = Queue(u)
  BY Appends
<1>2. PICK q \in Seq(Functors) : q = Queue(l)
  BY QueuesAre
<1>3. Elems(Append(q, f)) = Elems(q) \cup {f}
  BY AppendElems
<1>4. Elems(Queue(l)') = Elems(Queue(l)) \cup {f}
  BY <1>1, <1>2, <1>3
<1>5. QueueStep(f.conn)
  BY <1>1 DEF QueueStep
<1>6. QED
  BY <1>1, <1>4, <1>5

LEMMA FunctorsAre ==
  ASSUME NEW c \in Clients
  PROVE  /\ Est(c) \in Functors /\ Des(c) \in Functors /\ Rem(c) \in Functors
         /\ Call("listen", acceptor) \in Functors
BY ClientsAre DEF Est, Des, Rem, Call, Functors, acceptor

LEMMA EraseKeeps ==
  ASSUME Inv, NEW t \in Threads, NEW c \in Clients, Erase(t, c) PROVE Inv'
<1>1. /\ Doing(t, "erase", c) /\ connections_' = connections_ \ {c}
      /\ pending' = [pending EXCEPT ![LoopOf(c)] = Append(@, Des(c))]
      /\ Continue(t, Tail(todo[t]), {})
      /\ UNCHANGED <<acceptorVars, clientVars, connVars, nextConnId_, loopVars>>
  BY DEF Erase, Des
<1>2. Types /\ inLoop' = inLoop /\ batch' = batch /\ active' = active /\ Threads' = Threads
  BY <1>1 DEF Inv, acceptorVars, loopVars, Threads
<1>3. PICK l \in Threads : l = LoopOf(c)
  BY <1>2, ThreadsAre DEF Types
<1>4. /\ pending' \in [Threads -> Seq(Functors)] /\ QueueStep(c)
      /\ Des(c) \in Elems(Queue(l)')
      /\ \A u \in Threads : \A g \in Elems(Queue(u)') : g \in Elems(Queue(u)) \/ (u = l /\ g = Des(c))
  <2>1. PICK f \in Functors : f = Des(c) /\ f.conn = c
    BY FunctorsAre, FunctorsDiffer
  <2>2. pending' = [pending EXCEPT ![l] = Append(@, f)]
    BY <1>1, <1>3, <2>1
  <2>3. QED
    BY <1>2, <2>1, <2>2, AppendStep
<1>5. state_[c] # "kConnecting"
  BY <1>1, EnabledIs
<1>6. Onwards
  BY <1>1, <1>2, OnwardsIs DEF connVars
<1>7. /\ Tail(todo[t]) \in Shapes /\ Moves(t, c, Tail(todo[t]), {}) /\ TaskPlaced(t)'
      /\ \A u \in Threads : u # t => todo'[u] = todo[u]
      /\ Op(todo'[t]) # "enableReading" /\ Goal(todo'[t]) # "insert"
  BY <1>1, <1>4, <1>6, DoneMoves
<1>8. Goal(todo[t]) = "erase" /\ c < nextConnId_
  <2>1. Regular(todo[t]) /\ Op(todo[t]) = "erase" /\ Conn(todo[t]) = c /\ TaskPlaced(t)
    BY <1>1, AccessIs
  <2>2. Goal(todo[t]) = "erase"
    BY <2>1 DEF Regular
  <2>3. QED
    BY <2>1, <2>2 DEF TaskPlaced
<1>9. \A u \in Threads : \A f \in Elems(Queue(u)') : f \in Elems(Queue(u)) \/ FunctorPlaced(u, f)'
  <2>1. FunctorPlaced(l, Des(c))
    BY <1>3, <1>8, FunctorsDiffer DEF FunctorPlaced
  <2>2. FunctorPlaced(l, Des(c))'
    BY <1>2, <1>6, <2>1, PlacedOnwards
  <2>3. QED
    BY <1>4, <2>2
<1>10. Doomed(c)'
  BY <1>2, <1>4 DEF Doomed, Removing
<1>11. Lives(c)'
  <2>1. \A u \in Threads : Est(c) \in Elems(Queue(u)') => Est(c) \in Elems(Queue(u))
    BY <1>4, FunctorsDiffer
  <2>2. \A u \in Threads : Conn(todo'[u]) = c =>
          todo'[u] = todo[u] \/ (Op(todo'[u]) # "enableReading" /\ Goal(todo'[u]) # "insert")
    BY <1>7
  <2>3. QED
    BY <1>5, <1>6, <1>10, <2>1, <2>2, EnabledLives
<1>12. ServerTypes' /\ ConnTypes' /\ Agreed'
  <2>1. ServerTypes'
    BY <1>1 DEF Inv, Types, ServerTypes, acceptorVars, clientVars
  <2>2. ConnTypes' /\ Agreed'
    BY <1>1 DEF Inv, Types, ConnTypes, Agreed, acceptorVars, connVars
  <2>3. QED
    BY <2>1, <2>2
<1>13. Alone(c)
  BY <1>1 DEF Alone, connVars
<1>14. c \in 0..MaxClients /\ {} \in SUBSET Clients
  BY ClientsAre
<1>15. QED
  BY <1>4, <1>6, <1>7, <1>9, <1>10, <1>11, <1>12, <1>13, <1>14, StepKeeps

LEMMA CloseCallbackKeeps ==
  ASSUME Inv, NEW t \in Threads, NEW c \in Clients, CloseCallback(t, c) PROVE Inv'
<1>1. /\ Doing(t, "closeCallback", c)
      /\ RunInLoop(t, 0, Rem(c), Tail(todo[t]), {})
      /\ UNCHANGED <<acceptorVars, clientVars, connVars, serverVars, loopVars>>
  BY DEF CloseCallback, Rem
<1>2. Types /\ inLoop' = inLoop /\ batch' = batch /\ active' = active /\ Threads' = Threads /\ 0 \in Threads
  BY <1>1, ThreadsAre DEF Inv, Types, acceptorVars, loopVars, Threads
<1>3. /\ todo[t] \in Shapes /\ Regular(todo[t]) /\ Op(todo[t]) = "closeCallback" /\ Conn(todo[t]) = c
      /\ Where(t) /\ TaskPlaced(t)
  BY <1>1, AccessIs
<1>4. Goal(todo[t]) = "closeCallback" /\ Tail(todo[t]) = <<>> /\ c < nextConnId_
  BY <1>3, EmptyTask DEF Regular, TaskPlaced
<1>5. state_[c] # "kConnecting"
  BY <1>1, EnabledIs
<1>6. Onwards
  BY <1>1, <1>2, OnwardsIs DEF connVars, serverVars
<1>7. ServerTypes' /\ ConnTypes' /\ Agreed' /\ Alone(c)
  <2>1. ServerTypes'
    BY <1>1 DEF Inv, Types, ServerTypes, acceptorVars, clientVars, serverVars
  <2>2. ConnTypes' /\ Agreed'
    BY <1>1 DEF Inv, Types, ConnTypes, Agreed, acceptorVars, connVars
  <2>3. QED
    BY <1>1, <2>1, <2>2 DEF Alone, connVars, serverVars
<1>8. c \in 0..MaxClients /\ {} \in SUBSET Clients
  BY ClientsAre
<1>9. CASE inLoop[t]
  <2>1. PICK s \in Shapes : s = <<Call("erase", c)>>
    BY DEF Shapes, Tasks
  <2>2. Op(s) = "erase" /\ Goal(s) = "erase" /\ Conn(s) = c /\ s # <<>>
    BY <2>1, LastCall
  <2>3. Continue(t, s, {}) /\ pending' = pending
    <3>1. Body(Rem(c)) = <<Call("erase", c)>>
      BY FunctorsDiffer DEF Body
    <3>2. <<Call("erase", c)>> \o <<>> = <<Call("erase", c)>>
      OBVIOUS
    <3>3. QED
      BY <1>1, <1>4, <1>9, <2>1, <3>1, <3>2 DEF RunInLoop
  <2>4. todo'[t] = s /\ \A u \in Threads : u # t => todo'[u] = todo[u]
    BY <1>2, <1>8, <2>3, Continues
  <2>5. at[t] = "event" /\ held[t] \subseteq {c} /\ c \in held[t]
    BY <1>3, <1>4, <1>8, ClientsAre DEF Where, Goals
  <2>6. Moves(t, c, s, {})
    BY <1>1, <1>2, <1>3, <2>2, <2>3, <2>5 DEF Moves, Types, LoopTypes, loopVars, Goals
  <2>7. TaskPlaced(t)'
    BY <1>2, <1>4, <1>6, <1>9, <2>2, <2>4, ClientsAre DEF TaskPlaced, Onwards
  <2>8. Doomed(c)'
    BY <1>2, <2>2, <2>4 DEF Doomed, Removing
  <2>9. \A u : Queue(u)' = Queue(u)
    BY <1>2, <2>3, SameQueues
  <2>10. Lives(c)'
    <3>1. \A u \in Threads : Conn(todo'[u]) = c =>
            todo'[u] = todo[u] \/ (Op(todo'[u]) # "enableReading" /\ Goal(todo'[u]) # "insert")
      BY <2>2, <2>4
    <3>2. QED
      BY <1>5, <1>6, <2>8, <2>9, <3>1, EnabledLives
  <2>11. QED
    BY <1>2, <1>6, <1>7, <1>8, <2>3, <2>6, <2>7, <2>8, <2>10, NoQueueStep, StepKeeps
<1>10. CASE ~inLoop[t]
  <2>1. Continue(t, Tail(todo[t]), {}) /\ pending' = [pending EXCEPT ![0] = Append(@, Rem(c))]
    BY <1>1, <1>10 DEF RunInLoop
  <2>2. /\ pending' \in [Threads -> Seq(Functors)] /\ QueueStep(c)
        /\ Rem(c) \in Elems(Queue(0)')
        /\ \A u \in Threads : \A g \in Elems(Queue(u)') : g \in Elems(Queue(u)) \/ (u = 0 /\ g = Rem(c))
    <3>1. PICK f \in Functors : f = Rem(c) /\ f.conn = c
      BY FunctorsAre, FunctorsDiffer
    <3>2. pending' = [pending EXCEPT ![0] = Append(@, f)]
      BY <2>1, <3>1
    <3>3. QED
      BY <1>2, <3>1, <3>2, AppendStep
  <2>3. /\ Tail(todo[t]) \in Shapes /\ Moves(t, c, Tail(todo[t]), {}) /\ TaskPlaced(t)'
        /\ \A u \in Threads : u # t => todo'[u] = todo[u]
        /\ Op(todo'[t]) # "enableReading" /\ Goal(todo'[t]) # "insert"
    BY <1>1, <1>6, <2>1, <2>2, DoneMoves
  <2>4. \A u \in Threads : \A f \in Elems(Queue(u)') : f \in Elems(Queue(u)) \/ FunctorPlaced(u, f)'
    <3>1. FunctorPlaced(0, Rem(c))
      BY <1>4, FunctorsDiffer DEF FunctorPlaced
    <3>2. FunctorPlaced(0, Rem(c))'
      BY <1>2, <1>6, <3>1, PlacedOnwards
    <3>3. QED
      BY <2>2, <3>2
  <2>5. Doomed(c)'
    BY <1>2, <2>2 DEF Doomed, Removing
  <2>6. Lives(c)'
    <3>1. \A u \in Threads : Est(c) \in Elems(Queue(u)') => Est(c) \in Elems(Queue(u))
      BY <2>2, FunctorsDiffer
    <3>2. \A u \in Threads : Conn(todo'[u]) = c =>
            todo'[u] = todo[u] \/ (Op(todo'[u]) # "enableReading" /\ Goal(todo'[u]) # "insert")
      BY <2>3
    <3>3. QED
      BY <1>5, <1>6, <2>5, <3>1, <3>2, EnabledLives
  <2>7. QED
    BY <1>6, <1>7, <1>8, <2>2, <2>3, <2>4, <2>5, <2>6, StepKeeps
<1>11. QED
  BY <1>9, <1>10

(* Nobody has to do with a connection whose insertion is in hand.           *)
LEMMA InsertIs ==
  ASSUME Inv, NEW t \in Threads, NEW c \in Clients, Doing(t, "insert", c)
  PROVE  /\ t = 0 /\ at[t] = "event" /\ held[t] = {c} /\ Tail(todo[t]) = <<>> /\ c < nextConnId_
         /\ state_[c] = "kConnecting" /\ channel_[c] = NewChannel
         /\ told[c] = [up |-> 0, message |-> 0, down |-> 0]
         /\ c \notin connections_ /\ \A u \in Threads : u # t => Conn(todo[u]) # c
         /\ \A u \in Threads : \A f \in Elems(Queue(u)) : f.conn # c
<1>1. /\ todo[t] \in Shapes /\ Regular(todo[t]) /\ Op(todo[t]) = "insert" /\ Conn(todo[t]) = c
      /\ Where(t) /\ TaskPlaced(t)
  BY AccessIs
<1>2. Goal(todo[t]) = "insert" /\ Tail(todo[t]) = <<>>
  BY <1>1, EmptyTask DEF Regular
<1>3. t = 0 /\ c < nextConnId_
  BY <1>1, <1>2 DEF TaskPlaced
<1>4. at[t] = "event"
  BY <1>1, <1>2 DEF Where, Goals
<1>5. held[t] = {c}
  BY <1>1, <1>4, ClientsAre DEF Where
<1>6. /\ c \notin connections_ /\ \A u \in Threads : u # t => Conn(todo[u]) # c
      /\ \A u \in Threads : \A f \in Elems(Queue(u)) : f.conn # c
  BY <1>1, <1>2 DEF Inv, Lives, Once
<1>7. state_[c] = "kConnecting"
  BY <1>1, <1>2 DEF Inv, Lives, Begun
<1>8. channel_[c] = NewChannel /\ told[c] = [up |-> 0, message |-> 0, down |-> 0]
  BY <1>7 DEF Inv, Lives, Fresh
<1>9. QED
  BY <1>2, <1>3, <1>4, <1>5, <1>6, <1>7, <1>8

LEMMA NoneBefore ==
  ASSUME NEW q, NEW f, NEW g, g \notin Elems(q)
  PROVE  Before(q, f, g) /\ Unique(q, g)
BY DEF Before, Unique, Elems

LEMMA InsertKeeps ==
  ASSUME Inv, NEW t \in Threads, NEW c \in Clients, Insert(t, c) PROVE Inv'
<1>1. /\ Doing(t, "insert", c) /\ connections_' = connections_ \cup {c}
      /\ RunInLoop(t, LoopOf(c), Est(c), Tail(todo[t]), {})
      /\ UNCHANGED <<acceptorVars, clientVars, connVars, nextConnId_, loopVars>>
  BY DEF Insert, Est
<1>2. Types /\ inLoop' = inLoop /\ batch' = batch /\ active' = active /\ at' = at
      /\ events_' = events_ /\ Threads' = Threads
      /\ nextConnId_' = nextConnId_ /\ state_' = state_ /\ channel_' = channel_ /\ told' = told
  BY <1>1 DEF Inv, acceptorVars, loopVars, connVars, Threads
<1>3. /\ t = 0 /\ at[t] = "event" /\ held[t] = {c} /\ Tail(todo[t]) = <<>> /\ c < nextConnId_
      /\ state_[c] = "kConnecting" /\ channel_[c] = NewChannel
      /\ told[c] = [up |-> 0, message |-> 0, down |-> 0]
      /\ c \notin connections_ /\ \A u \in Threads : u # t => Conn(todo[u]) # c
      /\ \A u \in Threads : \A f \in Elems(Queue(u)) : f.conn # c
  BY <1>1, InsertIs
<1>4. PICK l \in Threads : l = LoopOf(c) /\ l = LoopOf(c)'
  BY <1>2, ThreadsAre DEF Types, LoopOf, numThreads_, Threads
<1>5. Onwards
  BY <1>2, OnwardsIs
<1>6. ServerTypes' /\ ConnTypes' /\ Agreed' /\ Alone(c)
  <2>1. ServerTypes'
    BY <1>1, <1>3 DEF Inv, Types, ServerTypes, acceptorVars, clientVars
  <2>2. ConnTypes' /\ Agreed'
    BY <1>1 DEF Inv, Types, ConnTypes, Agreed, acceptorVars, connVars
  <2>3. QED
    BY <1>1, <2>1, <2>2 DEF Alone, connVars
<1>7. c \in 0..MaxClients /\ {} \in SUBSET Clients /\ c # acceptor
  BY ClientsAre
<1>8. Conn(todo[t]) = c /\ c \in connections_'
  BY <1>1, AccessIs
<1>9. Doomed(c)'
  BY <1>8 DEF Doomed
<1>10. CASE inLoop[t]
  <2>1. PICK s \in Shapes : s = <<Call("enableReading", c), Call("up", c)>>
    BY DEF Shapes, Tasks
  <2>2. Op(s) = "enableReading" /\ Goal(s) = "up" /\ Conn(s) = c /\ s # <<>>
    BY <2>1, TwoCalls
  <2>3. Continue(t, s, {}) /\ pending' = pending
    <3>1. Body(Est(c)) = <<Call("enableReading", c), Call("up", c)>>
      BY FunctorsDiffer DEF Body
    <3>2. \A x, y : <<x, y>> \o <<>> = <<x, y>>
      OBVIOUS
    <3>3. QED
      BY <1>1, <1>3, <1>10, <2>1, <3>1, <3>2 DEF RunInLoop
  <2>4. todo'[t] = s /\ \A u \in Threads : u # t => todo'[u] = todo[u]
    BY <1>2, <1>7, <2>3, Continues
  <2>5. Moves(t, c, s, {})
    BY <1>2, <1>3, <1>8, <2>2, <2>3 DEF Moves, Types, LoopTypes, Goals
  <2>6. TaskPlaced(t)'
    BY <1>2, <1>3, <1>10, <2>2, <2>4 DEF TaskPlaced, Opener
  <2>7. \A u : Queue(u)' = Queue(u)
    BY <1>2, <2>3, SameQueues
  <2>8. \A u \in Threads : Est(c) \notin Elems(Queue(u)') /\ Des(c) \notin Elems(Queue(u)')
                           /\ Rem(c) \notin Elems(Queue(u)')
    BY <1>3, <2>7, FunctorsDiffer
  <2>9. \A u \in Threads : Conn(todo'[u]) = c => u = t
    BY <1>3, <2>4
  <2>10. Lives(c)'
    <3>1. Opening(c)'
      BY <1>2, <2>2, <2>4 DEF Opening, Enabling
    <3>2. Before(Queue(l)', Est(c), Des(c)) /\ Unique(Queue(l)', Est(c))
      BY <2>8, NoneBefore
    <3>3. Fresh(c)'
      BY <1>2, <1>3, <1>4, <2>2, <2>4, <2>8, <2>9, <3>1, <3>2 DEF Fresh
    <3>4. Begun(c)'
      BY <1>2, <1>3 DEF Begun
    <3>5. Once(c)'
      BY <1>2, <1>4, <2>2, <2>4, <2>8, <2>9, <3>2 DEF Once
    <3>6. QED
      BY <1>9, <3>3, <3>4, <3>5 DEF Lives, Kept
  <2>11. QED
    BY <1>2, <1>5, <1>6, <1>7, <1>9, <2>3, <2>5, <2>6, <2>10, NoQueueStep, StepKeeps
<1>11. CASE ~inLoop[t]
  <2>1. Continue(t, Tail(todo[t]), {}) /\ pending' = [pending EXCEPT ![l] = Append(@, Est(c))]
    BY <1>1, <1>4, <1>11 DEF RunInLoop
  <2>2. /\ pending' \in [Threads -> Seq(Functors)] /\ QueueStep(c)
        /\ Est(c) \in Elems(Queue(l)')
        /\ \A u \in Threads : \A g \in Elems(Queue(u)') : g \in Elems(Queue(u)) \/ (u = l /\ g = Est(c))
        /\ Queue(l)' = Append(Queue(l), Est(c))
    <3>1. PICK f \in Functors : f = Est(c) /\ f.conn = c
      BY FunctorsAre, FunctorsDiffer
    <3>2. pending' = [pending EXCEPT ![l] = Append(@, f)]
      BY <2>1, <3>1
    <3>3. QED
      BY <1>2, <3>1, <3>2, AppendStep, Appends
  <2>3. /\ Tail(todo[t]) \in Shapes /\ Moves(t, c, Tail(todo[t]), {}) /\ TaskPlaced(t)'
        /\ todo'[t] = <<>> /\ \A u \in Threads : u # t => todo'[u] = todo[u]
    BY <1>1, <1>3, <1>5, <2>1, <2>2, DoneMoves
  <2>4. \A u \in Threads : \A f \in Elems(Queue(u)') : f \in Elems(Queue(u)) \/ FunctorPlaced(u, f)'
    <3>1. FunctorPlaced(l, Est(c))
      BY <1>3, <1>4, <1>11, FunctorsDiffer DEF FunctorPlaced
    <3>2. FunctorPlaced(l, Est(c))'
      BY <1>2, <1>5, <3>1, PlacedOnwards
    <3>3. QED
      BY <2>2, <3>2
  <2>5. \A u \in Threads : Des(c) \notin Elems(Queue(u)') /\ Rem(c) \notin Elems(Queue(u)')
    BY <1>3, <2>2, FunctorsDiffer
  <2>6. \A u \in Threads : Conn(todo'[u]) # c
    BY <1>3, <1>7, <2>3, EmptyTask
  <2>7. Unique(Queue(l)', Est(c))
    <3>1. PICK q \in Seq(Functors) : q = Queue(l)
      BY <1>2, QueuesAre
    <3>2. Est(c) \notin Elems(q) /\ Est(c) \in Functors
      BY <1>3, <3>1, FunctorsDiffer, FunctorsAre
    <3>3. Unique(Append(q, Est(c)), Est(c))
      BY <3>2, NoneBefore, AppendElems
    <3>4. QED
      BY <2>2, <3>1, <3>3
  <2>8. Lives(c)'
    <3>1. Opening(c)'
      BY <1>4, <2>2 DEF Opening
    <3>2. Before(Queue(l)', Est(c), Des(c))
      BY <2>5, NoneBefore
    <3>3. Fresh(c)'
      BY <1>2, <1>3, <1>4, <2>5, <2>6, <3>1, <3>2 DEF Fresh
    <3>4. Begun(c)'
      BY <1>2, <1>3 DEF Begun
    <3>5. Once(c)'
      BY <1>2, <1>4, <2>6, <2>7 DEF Once, Enabling
    <3>6. QED
      BY <1>9, <3>3, <3>4, <3>5 DEF Lives, Kept
  <2>9. QED
    BY <1>5, <1>6, <1>7, <1>9, <2>2, <2>3, <2>4, <2>8, StepKeeps
<1>12. QED
  BY <1>10, <1>11

LEMMA AccessKeeps == ASSUME Inv, NEW t \in Threads, Access(t) PROVE Inv'
BY ListenKeeps, InsertKeeps, EnableReadingKeeps, DisableAllKeeps, RemoveKeeps, CallbackKeeps,
   CloseCallbackKeeps, EraseKeeps DEF Access

-----------------------------------------------------------------------------
(* An iteration of a loop.                                                  *)

SameAt(u) ==
  /\ at'[u] = at[u] /\ active'[u] = active[u] /\ batch'[u] = batch[u] /\ held'[u] = held[u]
  /\ todo'[u] = todo[u]

LEMMA SameWhere ==
  ASSUME NEW u, Where(u), SameAt(u), at'[0] = "off" => at[0] = "off"
  PROVE  Where(u)'
BY DEF Where, SameAt

LEMMA IdleIs ==
  ASSUME Inv, NEW t \in Threads, Idle(t)
  PROVE  /\ todo[t] = <<>> /\ Goal(todo[t]) = "none" /\ Op(todo[t]) = "none"
         /\ Conn(todo[t]) = acceptor /\ Where(t) /\ Placed(t)
         /\ at[t] # "functors" => held[t] = {} /\ batch[t] = <<>>
<1>1. todo[t] = <<>> /\ Where(t) /\ Placed(t) /\ held[t] \subseteq Clients
  BY DEF Idle, Inv, Types, LoopTypes
<1>2. at[t] # "functors" => held[t] = {} /\ batch[t] = <<>>
  BY <1>1, EmptyTask, ClientsAre DEF Where
<1>3. QED
  BY <1>1, <1>2, EmptyTask

(* A step that touches no connection: it moves a thread that has nothing in *)
(* hand, fills or empties its active list, or is one of the clients'.       *)
LEMMA QuietKeeps ==
  ASSUME Inv, NEW t \in Threads, UNCHANGED <<inLoop, serverVars, connVars, todo>>,
         Idle(t) \/ at'[t] = at[t], \A u \in Threads : u # t => SameAt(u),
         at'[0] = "off" => at[0] = "off", Where(t)',
         \A u \in Threads : Queue(u)' = Queue(u),
         LoopTypes', ServerTypes', Agrees(acceptChannel_'),
         \A ch \in active'[t] : ChannelPlaced(t, ch),
         ~inLoop[0] \/ ~Destruction' =>
           /\ ~inLoop[0] \/ ~Destruction
           /\ \A c \in active'[t] : c # acceptor => Doomed(c)
  PROVE  Inv'
<1>1. /\ inLoop' = inLoop /\ Threads' = Threads /\ todo' = todo
      /\ nextConnId_' = nextConnId_ /\ connections_' = connections_
      /\ state_' = state_ /\ channel_' = channel_ /\ told' = told
  BY DEF serverVars, connVars, Threads
<1>2. Types /\ ServerTypes /\ Onwards
  BY <1>1, OnwardsIs DEF Inv, Types
<1>3. ConnTypes' /\ Agreed' /\ Types'
  BY <1>1 DEF Inv, Types, ConnTypes, Agreed
<1>4. \A u \in Threads : Where(u)'
  BY SameWhere DEF Inv
<1>5. ASSUME NEW u \in Threads
      PROVE  Placed(u)'
  <2>1. Placed(u) /\ (u # t => active'[u] = active[u] /\ at'[u] = at[u])
    BY DEF Inv, SameAt
  <2>2. TaskPlaced(u)'
    <3>1. CASE at'[u] = at[u]
      BY <1>1, <1>2, <2>1, <3>1, PlacedOnwards DEF Placed
    <3>2. CASE u = t /\ Idle(t)
      BY <1>1, <3>2, IdleIs DEF TaskPlaced
    <3>3. QED
      BY <2>1, <3>1, <3>2
  <2>3. \A f \in Elems(Queue(u)') : FunctorPlaced(u, f)'
    BY <1>2, <2>1, PlacedOnwards DEF Placed
  <2>4. \A ch \in active'[u] : ChannelPlaced(u, ch)
    BY <2>1 DEF Placed
  <2>5. active'[u] \subseteq 0..MaxClients
    BY <1>1 DEF LoopTypes
  <2>6. \A ch \in active'[u] : ChannelPlaced(u, ch)'
    BY <1>2, <2>4, <2>5, PlacedOnwards
  <2>7. QED
    BY <2>2, <2>3, <2>6 DEF Placed
<1>6. ASSUME NEW c \in Clients
      PROVE  Lives(c)' /\ (Doomed(c) => Doomed(c)')
  <2>1. Untouched(c)
    BY <1>1 DEF Untouched, KeepsQueue
  <2>2. QED
    BY <1>2, <2>1, UntouchedLives DEF Inv
<1>7. Reached'
  <2>1. SUFFICES ASSUME ~inLoop[0] \/ ~Destruction', NEW u \in Threads, NEW c \in active'[u],
                        c # acceptor
                 PROVE  Doomed(c)'
    BY <1>1 DEF Reached
  <2>2. Doomed(c)
    BY <2>1 DEF Inv, Reached, SameAt
  <2>3. c \in Clients
    BY <1>1, <2>1, ClientsAre DEF LoopTypes
  <2>4. QED
    BY <1>6, <2>2, <2>3
<1>8. QED
  BY <1>1, <1>3, <1>4, <1>5, <1>6, <1>7 DEF Inv

(* A channel that epoll reports is one of an enabled connection. *)
LEMMA ReadyIs ==
  ASSUME Inv, NEW t \in Threads, NEW ch \in Ready(t)
  PROVE  ch \in 0..MaxClients /\ ChannelPlaced(t, ch) /\ (ch # acceptor => Doomed(ch))
<1>1. CASE ch = acceptor
  BY <1>1, ClientsAre DEF Ready, ChannelPlaced, InUse
<1>2. CASE ch # acceptor
  <2>1. ch \in Clients /\ Alive(ch) /\ LoopOf(ch) = t /\ "in" \in channel_[ch].interest
    BY <1>2 DEF Ready, InUse
  <2>2. state_[ch] # "kConnecting"
    <3>1. channel_[ch] # NewChannel
      BY <2>1 DEF NewChannel
    <3>2. QED
      BY <2>1, <3>1 DEF Inv, Lives, Fresh
  <2>3. channel_[ch].mapped
    BY <2>1 DEF Inv, Agreed, Agrees
  <2>4. Doomed(ch)
    BY <2>1, <2>3 DEF Inv, Lives, Kept
  <2>5. QED
    BY <1>2, <2>1, <2>2, <2>4, ClientsAre DEF ChannelPlaced, Alive
<1>3. QED
  BY <1>1, <1>2

LEMMA PollKeeps == ASSUME Inv, NEW t \in Threads, Poll(t) PROVE Inv'
<1>1. /\ at[t] = "poll" /\ Idle(t) /\ at' = [at EXCEPT ![t] = "event"]
      /\ UNCHANGED <<acceptorVars, clientVars, connVars, serverVars, batch, threadVars>>
  BY DEF Poll
<1>2. PICK chs \in SUBSET Ready(t) :
        /\ active' = [active EXCEPT ![t] = chs]
        /\ events_' = [events_ EXCEPT ![t] =
             IF Cardinality(chs) = @ /\ @ <= MaxClients THEN 2 * @ ELSE @]
  BY DEF Poll
<1>3. /\ LoopTypes /\ inLoop' = inLoop /\ Threads' = Threads /\ todo' = todo /\ held' = held
      /\ pending' = pending /\ batch' = batch
  BY <1>1 DEF Inv, Types, acceptorVars, threadVars, Threads
<1>4. /\ at'[t] = "event" /\ active'[t] = chs
      /\ \A u \in Threads : u # t => at'[u] = at[u] /\ active'[u] = active[u]
  BY <1>1, <1>2, <1>3 DEF LoopTypes
<1>5. \A ch \in chs : ch \in 0..MaxClients /\ ChannelPlaced(t, ch) /\ (ch # acceptor => Doomed(ch))
  BY ReadyIs
<1>6. LoopTypes'
  <2>1. chs \in SUBSET (0..MaxClients)
    BY <1>5
  <2>2. active' \in [Threads -> SUBSET (0..MaxClients)]
    BY <1>2, <1>3, <2>1 DEF LoopTypes
  <2>3. events_' \in [Threads -> Nat \ {0}]
    BY <1>2, <1>3 DEF LoopTypes
  <2>4. at' \in [Threads -> Places]
    BY <1>1, <1>3 DEF LoopTypes, Places
  <2>5. QED
    BY <1>3, <2>2, <2>3, <2>4 DEF LoopTypes
<1>7. 0 \in Threads
  BY ThreadsAre DEF Inv, Types
<1>8. at'[0] = "off" => at[0] = "off"
  BY <1>4, <1>7
<1>9. \A u \in Threads : u # t => SameAt(u)
  BY <1>3, <1>4 DEF SameAt
<1>10. Where(t)'
  BY <1>1, <1>3, <1>4, <1>8, IdleIs DEF Where, Goals
<1>11. Destruction' <=> Destruction
  BY <1>1, <1>4, <1>7 DEF Destruction
<1>12. \A u \in Threads : Queue(u)' = Queue(u)
  BY <1>3, SameQueues
<1>13. ServerTypes' /\ Agrees(acceptChannel_')
  BY <1>1 DEF Inv, Types, ServerTypes, Agreed, acceptorVars, clientVars, serverVars
<1>14. UNCHANGED <<inLoop, serverVars, connVars, todo>>
  BY <1>1, <1>3
<1>15. \A c \in active'[t] : ChannelPlaced(t, c) /\ (c # acceptor => Doomed(c))
  BY <1>4, <1>5
<1>16. ~inLoop[0] \/ ~Destruction' => ~inLoop[0] \/ ~Destruction
  BY <1>11
<1>17. QED
  BY <1>1, <1>6, <1>8, <1>9, <1>10, <1>12, <1>13, <1>14, <1>15, <1>16, QuietKeeps

LEMMA EventDoneKeeps == ASSUME Inv, NEW t \in Threads, EventDone(t) PROVE Inv'
<1>1. /\ at[t] = "event" /\ Idle(t) /\ active[t] = {}
      /\ at' = [at EXCEPT ![t] = "functors"]
      /\ batch' = [batch EXCEPT ![t] = pending[t]] /\ pending' = [pending EXCEPT ![t] = <<>>]
      /\ held' = [held EXCEPT ![t] = {pending[t][i].conn : i \in DOMAIN pending[t]} \ {acceptor}]
      /\ UNCHANGED <<acceptorVars, clientVars, connVars, serverVars, active, events_, todo>>
  BY DEF EventDone
<1>2. /\ LoopTypes /\ Types /\ inLoop' = inLoop /\ Threads' = Threads /\ todo' = todo
      /\ active' = active /\ events_' = events_
  BY <1>1 DEF Inv, Types, acceptorVars, Threads
<1>3. PICK p \in Seq(Functors) : p = pending[t]
  BY <1>2 DEF LoopTypes
<1> DEFINE H == {p[i].conn : i \in DOMAIN p} \ {acceptor}
<1>4. H \in SUBSET Clients
  <2>1. \A i \in DOMAIN p : p[i] \in Elems(p)
    BY DEF Elems
  <2>2. \A f \in Elems(p) : FunctorPlaced(t, f)
    BY <1>2, <1>3, QueuesAre DEF Inv, Placed
  <2>3. \A i \in DOMAIN p : p[i].conn \in Clients \cup {acceptor}
    BY <2>1, <2>2 DEF FunctorPlaced
  <2>4. QED
    BY <2>3
<1>5. /\ at'[t] = "functors" /\ batch'[t] = p /\ pending'[t] = <<>> /\ held'[t] = H
      /\ \A u \in Threads : u # t => at'[u] = at[u] /\ batch'[u] = batch[u]
                                     /\ pending'[u] = pending[u] /\ held'[u] = held[u]
  BY <1>1, <1>2, <1>3 DEF LoopTypes
<1>6. LoopTypes'
  <2>1. at' \in [Threads -> Places]
    BY <1>1, <1>2 DEF LoopTypes, Places
  <2>2. batch' \in [Threads -> Seq(Functors)] /\ pending' \in [Threads -> Seq(Functors)]
    BY <1>1, <1>2, EmptySeq DEF LoopTypes
  <2>3. held' \in [Threads -> SUBSET Clients]
    BY <1>1, <1>2, <1>3, <1>4 DEF LoopTypes
  <2>4. QED
    BY <1>2, <2>1, <2>2, <2>3 DEF LoopTypes
<1>7. /\ todo[t] = <<>> /\ Goal(todo[t]) = "none" /\ Conn(todo[t]) = acceptor /\ Where(t)
      /\ batch[t] = <<>>
  BY <1>1, IdleIs
<1>8. 0 \in Threads
  BY <1>2, ThreadsAre DEF Types
<1>9. at'[0] = "off" => at[0] = "off"
  BY <1>5, <1>8
<1>10. Where(t)'
  <2>1. \A f \in Elems(p) : f.conn # acceptor => f.conn \in H
    BY DEF Elems
  <2>2. at[0] # "off"
    BY <1>1, <1>7 DEF Where
  <2>3. QED
    BY <1>1, <1>2, <1>5, <1>7, <1>9, <2>1, <2>2 DEF Where, Goals
<1>11. \A u \in Threads : Queue(u)' = Queue(u)
  <2>1. p \o <<>> = p /\ <<>> \o p = p
    BY ConcatEmptySeq
  <2>2. QED
    BY <1>3, <1>5, <1>7, <2>1 DEF Queue
<1>12. Destruction' <=> Destruction
  BY <1>1, <1>5, <1>8 DEF Destruction
<1>13. ServerTypes' /\ Agrees(acceptChannel_')
  BY <1>1 DEF Inv, Types, ServerTypes, Agreed, acceptorVars, clientVars, serverVars
<1>14. UNCHANGED <<inLoop, serverVars, connVars, todo>>
  BY <1>1, <1>2
<1>15. \A u \in Threads : u # t => SameAt(u)
  BY <1>2, <1>5 DEF SameAt
<1>16. \A ch \in active'[t] : FALSE
  BY <1>1, <1>2
<1>17. ~inLoop[0] \/ ~Destruction' => ~inLoop[0] \/ ~Destruction
  BY <1>12
<1>18. QED
  BY <1>1, <1>6, <1>9, <1>10, <1>11, <1>13, <1>14, <1>15, <1>16, <1>17, QuietKeeps

LEMMA FunctorsDoneKeeps == ASSUME Inv, NEW t \in Threads, FunctorsDone(t) PROVE Inv'
<1>1. /\ at[t] = "functors" /\ Idle(t) /\ batch[t] = <<>>
      /\ at' = [at EXCEPT ![t] = "poll"] /\ held' = [held EXCEPT ![t] = {}]
      /\ UNCHANGED <<acceptorVars, clientVars, connVars, serverVars, active, events_, batch, todo, pending>>
  BY DEF FunctorsDone
<1>2. /\ LoopTypes /\ Types /\ inLoop' = inLoop /\ Threads' = Threads /\ todo' = todo
      /\ active' = active /\ events_' = events_ /\ batch' = batch /\ pending' = pending
  BY <1>1 DEF Inv, Types, acceptorVars, Threads
<1>3. /\ at'[t] = "poll" /\ held'[t] = {}
      /\ \A u \in Threads : u # t => at'[u] = at[u] /\ held'[u] = held[u]
  BY <1>1, <1>2 DEF LoopTypes
<1>4. LoopTypes'
  <2>1. at' \in [Threads -> Places] /\ held' \in [Threads -> SUBSET Clients]
    BY <1>1, <1>2 DEF LoopTypes, Places
  <2>2. QED
    BY <1>2, <2>1 DEF LoopTypes
<1>5. /\ todo[t] = <<>> /\ Goal(todo[t]) = "none" /\ Conn(todo[t]) = acceptor /\ Where(t)
      /\ active[t] = {} /\ at[0] # "off"
  BY <1>1, IdleIs DEF Where
<1>6. 0 \in Threads
  BY <1>2, ThreadsAre DEF Types
<1>7. at'[0] # "off"
  BY <1>3, <1>5, <1>6
<1>8. Where(t)'
  BY <1>1, <1>2, <1>3, <1>5, <1>7 DEF Where, Goals, Elems
<1>9. \A u \in Threads : Queue(u)' = Queue(u)
  BY <1>2, SameQueues
<1>10. Destruction' <=> Destruction
  BY <1>1, <1>3, <1>6 DEF Destruction
<1>11. ServerTypes' /\ Agrees(acceptChannel_')
  BY <1>1 DEF Inv, Types, ServerTypes, Agreed, acceptorVars, clientVars, serverVars
<1>12. UNCHANGED <<inLoop, serverVars, connVars, todo>>
  BY <1>1, <1>2
<1>13. \A u \in Threads : u # t => SameAt(u)
  BY <1>2, <1>3 DEF SameAt
<1>14. \A ch \in active'[t] : FALSE
  BY <1>2, <1>5
<1>15. ~inLoop[0] \/ ~Destruction' => ~inLoop[0] \/ ~Destruction
  BY <1>10
<1>16. QED
  BY <1>1, <1>4, <1>7, <1>8, <1>9, <1>11, <1>12, <1>13, <1>14, <1>15, QuietKeeps

LEMMA PeersKeep == ASSUME Inv, Peers PROVE Inv'
<1>1. UNCHANGED <<acceptorVars, connVars, serverVars, loopVars, threadVars>>
  BY DEF Peers
<1>2. /\ LoopTypes /\ Types /\ inLoop' = inLoop /\ Threads' = Threads
      /\ todo' = todo /\ at' = at /\ active' = active /\ events_' = events_ /\ batch' = batch
      /\ pending' = pending /\ held' = held
  BY <1>1 DEF Inv, Types, acceptorVars, loopVars, threadVars, Threads
<1>3. LoopTypes' /\ \A u \in Threads : SameAt(u)
  BY <1>2 DEF LoopTypes, SameAt
<1>4. arrived' \in 0..MaxClients /\ arrived <= arrived'
      /\ peer' \in [Clients -> [sent : BOOLEAN, data : BOOLEAN, fin : BOOLEAN]]
  <2>1. /\ arrived \in 0..MaxClients
        /\ peer \in [Clients -> [sent : BOOLEAN, data : BOOLEAN, fin : BOOLEAN]]
    BY <1>2 DEF Types, ServerTypes
  <2>2. CASE Arrive
    BY <2>1, <2>2, ServerAssumption DEF Arrive
  <2>3. ASSUME NEW c \in Clients, PeerSends(c) \/ PeerCloses(c)
        PROVE  /\ arrived' = arrived
               /\ peer' \in [Clients -> [sent : BOOLEAN, data : BOOLEAN, fin : BOOLEAN]]
    BY <2>1, <2>3 DEF PeerSends, PeerCloses
  <2>4. QED
    BY <2>1, <2>2, <2>3, ServerAssumption DEF Peers
<1>5. ServerTypes' /\ Agrees(acceptChannel_')
  <2>1. nextConnId_ \in 1..(arrived' + 1)
    <3>1. nextConnId_ \in 1..(arrived + 1) /\ arrived \in Nat /\ arrived' \in Nat /\ arrived <= arrived'
      BY <1>2, <1>4, ServerAssumption DEF Types, ServerTypes
    <3>2. \A a, b \in Nat : \A n \in 1..(a + 1) : a <= b => n \in 1..(b + 1)
      OBVIOUS
    <3>3. QED
      BY <3>1, <3>2
  <2>2. QED
    BY <1>1, <1>4, <2>1 DEF Inv, Types, ServerTypes, Agreed, acceptorVars, serverVars
<1>6. 0 \in Threads
  BY <1>2, ThreadsAre DEF Types
<1>7. Where(0)' /\ (at'[0] = "off" => at[0] = "off") /\ at'[0] = at[0]
  BY <1>2, <1>3, <1>6, SameWhere DEF Inv
<1>8. \A u \in Threads : Queue(u)' = Queue(u)
  BY <1>2, SameQueues
<1>9. \A ch \in active'[0] : ChannelPlaced(0, ch)
  BY <1>2, <1>6 DEF Inv, Placed
<1>10. ~inLoop[0] \/ ~Destruction' =>
         /\ ~inLoop[0] \/ ~Destruction
         /\ \A c \in active'[0] : c # acceptor => Doomed(c)
  BY <1>2, <1>6 DEF Inv, Reached, Destruction
<1>11. UNCHANGED <<inLoop, serverVars, connVars, todo>>
  BY <1>1, <1>2
<1>12. QED
  BY <1>3, <1>5, <1>6, <1>7, <1>8, <1>9, <1>10, <1>11, QuietKeeps

(* The user's steps that only move the base loop's thread. *)
LEMMA BaseKeeps ==
  ASSUME Inv, Idle(0), NEW place \in {"ended", "destroying", "joining", "gone"},
         at[0] \in {"poll", "ended", "event", "destroying"}, at' = [at EXCEPT ![0] = place],
         place = "ended" => at[0] = "poll",
         at[0] = "destroying" => place \in {"joining", "gone"},
         Agrees(acceptChannel_'), acceptChannel_' \in ChannelStates,
         UNCHANGED <<inLoop, maxFds, listenning_, clientVars, connVars, serverVars, active,
                     events_, batch, threadVars>>
  PROVE  Inv'
<1>1. /\ LoopTypes /\ Types /\ inLoop' = inLoop /\ Threads' = Threads
      /\ todo' = todo /\ active' = active /\ events_' = events_ /\ batch' = batch
      /\ pending' = pending /\ held' = held /\ 0 \in Threads
  BY ThreadsAre DEF Inv, Types, threadVars, Threads
<1>2. at'[0] = place /\ \A u \in Threads : u # 0 => at'[u] = at[u]
  BY <1>1 DEF LoopTypes
<1>3. LoopTypes'
  <2>1. at' \in [Threads -> Places]
    BY <1>1 DEF LoopTypes, Places
  <2>2. QED
    BY <1>1, <2>1 DEF LoopTypes
<1>4. /\ todo[0] = <<>> /\ Goal(todo[0]) = "none" /\ Conn(todo[0]) = acceptor /\ Where(0) /\ Placed(0)
      /\ held[0] = {} /\ batch[0] = <<>>
  BY <1>1, IdleIs
<1>5. Where(0)'
  BY <1>1, <1>2, <1>4 DEF Where, Goals, Elems
<1>6. \A u \in Threads : Queue(u)' = Queue(u)
  BY <1>1, SameQueues
<1>7. ServerTypes'
  BY DEF Inv, Types, ServerTypes, clientVars, serverVars
<1>8. \A u \in Threads : u # 0 => SameAt(u)
  BY <1>1, <1>2 DEF SameAt
<1>9. \A ch \in active'[0] : ChannelPlaced(0, ch)
  BY <1>1, <1>4 DEF Placed
<1>10. ~inLoop[0] \/ ~Destruction' => ~inLoop[0] \/ ~Destruction
  BY <1>2 DEF Destruction
<1>11. ~inLoop[0] \/ ~Destruction' => \A c \in active'[0] : c # acceptor => Doomed(c)
  BY <1>1, <1>10 DEF Inv, Reached
<1>12. UNCHANGED <<inLoop, serverVars, connVars, todo>> /\ at'[0] # "off"
  BY <1>1, <1>2
<1>13. QED
  BY <1>1, <1>3, <1>5, <1>6, <1>7, <1>8, <1>9, <1>10, <1>11, <1>12, QuietKeeps

LEMMA LoopReturnKeeps == ASSUME Inv, LoopReturn PROVE Inv'
BY BaseKeeps DEF LoopReturn, Inv, Agreed, Types, ServerTypes, acceptorVars

LEMMA DestroyKeeps == ASSUME Inv, Destroy PROVE Inv'
BY BaseKeeps DEF Destroy, Inv, Agreed, Types, ServerTypes, acceptorVars

LEMMA DestroyedKeeps == ASSUME Inv, Destroyed PROVE Inv'
<1>1. /\ at[0] = "destroying" /\ Idle(0)
      /\ UNCHANGED <<inLoop, maxFds, listenning_, clientVars, connVars, serverVars, active,
                     events_, batch, threadVars>>
  BY DEF Destroyed
<1>2. acceptChannel_ \in ChannelStates /\ Agrees(acceptChannel_)
  BY DEF Inv, Agreed, Types, ServerTypes
<1>3. CASE at' = [at EXCEPT ![0] = "joining"] /\ UNCHANGED acceptChannel_
  BY <1>1, <1>2, <1>3, BaseKeeps
<1>4. CASE at' = [at EXCEPT ![0] = "gone"] /\ acceptChannel_' = removeChannel(disableAll(acceptChannel_))
  <2>1. PICK d \in ChannelStates : d = disableAll(acceptChannel_) /\ Agrees(d)
    BY <1>2, ChannelCalls
  <2>2. removeChannel(d) \in ChannelStates /\ Agrees(removeChannel(d))
    BY <2>1, ChannelCalls
  <2>3. QED
    BY <1>1, <1>4, <2>1, <2>2, BaseKeeps
<1>5. QED
  BY <1>3, <1>4 DEF Destroyed

(* Nobody has to do with the connection that comes next. *)
LEMMA NextIs ==
  ASSUME Inv, nextConnId_ \in Clients
  PROVE  /\ nextConnId_ \notin connections_
         /\ \A u \in Threads : /\ Conn(todo[u]) # nextConnId_ /\ nextConnId_ \notin active[u]
                               /\ \A f \in Elems(Queue(u)) : f.conn # nextConnId_
         /\ state_[nextConnId_] = "kConnecting" /\ channel_[nextConnId_] = NewChannel
         /\ told[nextConnId_] = [up |-> 0, message |-> 0, down |-> 0]
<1>1. PICK c \in Clients : c = nextConnId_ /\ ~(c < c) /\ c # acceptor
  BY ClientsAre
<1>2. c \notin connections_
  BY <1>1 DEF Inv, Types, ServerTypes
<1>3. ASSUME NEW u \in Threads
      PROVE  /\ Conn(todo[u]) # c /\ c \notin active[u]
             /\ \A f \in Elems(Queue(u)) : f.conn # c
  <2>1. Placed(u) /\ Regular(todo[u])
    BY ShapeIs DEF Inv, Types, LoopTypes
  <2>2. Conn(todo[u]) # c
    BY <1>1, <2>1 DEF Placed, TaskPlaced, Regular
  <2>3. c \notin active[u]
    BY <1>1, <2>1 DEF Placed, ChannelPlaced
  <2>4. \A f \in Elems(Queue(u)) : f.conn # c
    BY <1>1, <2>1 DEF Placed, FunctorPlaced
  <2>5. QED
    BY <2>2, <2>3, <2>4
<1>4. state_[c] = "kConnecting"
  BY <1>1 DEF Inv, Lives, Begun
<1>5. channel_[c] = NewChannel /\ told[c] = [up |-> 0, message |-> 0, down |-> 0]
  BY <1>4 DEF Inv, Lives, Fresh
<1>6. QED
  BY <1>1, <1>2, <1>3, <1>4, <1>5

LEMMA HandlingIs ==
  ASSUME Inv, NEW t \in Threads, NEW ch, Handling(t, ch)
  PROVE  /\ active' \in [Threads -> SUBSET (0..MaxClients)]
         /\ \A u \in Threads : active'[u] \subseteq active[u]
         /\ \A u \in Threads : u # t => active'[u] = active[u]
         /\ at[t] = "event" /\ todo[t] = <<>> /\ held[t] = {} /\ Conn(todo[t]) = acceptor
         /\ Goal(todo[t]) = "none" /\ ChannelPlaced(t, ch) /\ ch \in 0..MaxClients
<1>1. /\ at[t] = "event" /\ Idle(t) /\ ch \in active[t]
      /\ active' = [active EXCEPT ![t] = @ \ {ch}]
  BY DEF Handling
<1>2. active \in [Threads -> SUBSET (0..MaxClients)]
  BY DEF Inv, Types, LoopTypes
<1>3. /\ active' \in [Threads -> SUBSET (0..MaxClients)]
      /\ \A u \in Threads : active'[u] \subseteq active[u]
      /\ \A u \in Threads : u # t => active'[u] = active[u]
  BY <1>1, <1>2
<1>4. ChannelPlaced(t, ch) /\ ch \in 0..MaxClients
  BY <1>1, <1>2 DEF Inv, Placed
<1>5. QED
  BY <1>1, <1>3, <1>4, IdleIs

LEMMA HandleAcceptKeeps == ASSUME Inv, NEW t \in Threads, HandleAccept(t) PROVE Inv'
<1>1. /\ Handling(t, acceptor)
      /\ UNCHANGED <<acceptorVars, clientVars, connVars, connections_, at, events_, batch, pending>>
  BY DEF HandleAccept
<1>2. /\ active' \in [Threads -> SUBSET (0..MaxClients)]
      /\ \A u \in Threads : active'[u] \subseteq active[u]
      /\ \A u \in Threads : u # t => active'[u] = active[u]
      /\ at[t] = "event" /\ todo[t] = <<>> /\ held[t] = {} /\ Conn(todo[t]) = acceptor
      /\ Goal(todo[t]) = "none" /\ t = 0
  BY <1>1, HandlingIs DEF ChannelPlaced
<1>3. /\ LoopTypes /\ Types /\ inLoop' = inLoop /\ Threads' = Threads /\ at' = at
      /\ events_' = events_ /\ batch' = batch /\ pending' = pending
      /\ state_' = state_ /\ channel_' = channel_ /\ told' = told /\ connections_' = connections_
      /\ arrived' = arrived /\ peer' = peer
  BY <1>1 DEF Inv, Types, acceptorVars, connVars, clientVars, Threads
<1>4. \A u \in Threads : Queue(u)' = Queue(u)
  BY <1>3, SameQueues
<1>5. Agrees(acceptChannel_') /\ Agreed' /\ ConnTypes'
  BY <1>1, <1>3 DEF Inv, Types, ConnTypes, Agreed, acceptorVars
<1>6. CASE arrived >= nextConnId_ /\ Cardinality(InUse) < maxFds
  <2>1. /\ nextConnId_' = nextConnId_ + 1
        /\ Continue(t, <<Call("insert", nextConnId_)>>, {nextConnId_})
    BY <1>6 DEF HandleAccept, NewConnection
  <2>2. nextConnId_ \in Clients /\ nextConnId_ \in Nat /\ nextConnId_ + 1 \in 1..(arrived + 1)
    <3>1. nextConnId_ \in 1..(arrived + 1) /\ arrived \in 0..MaxClients
      BY <1>3 DEF Types, ServerTypes
    <3>2. QED
      BY <1>6, <3>1, ServerAssumption DEF Clients
  <2>3. PICK c \in Clients : c = nextConnId_ /\ c # acceptor /\ c \in Nat /\ c \in 0..MaxClients
    BY <2>2, ClientsAre
  <2>4. nextConnId_' = c + 1 /\ c < c + 1 /\ \A n \in Nat : n < c => n < c + 1
    BY <2>1, <2>3
  <2>5. Onwards
    BY <1>3, <2>2, <2>3, <2>4 DEF Onwards
  <2>6. PICK s \in Shapes : s = <<Call("insert", c)>>
    BY DEF Shapes, Tasks
  <2>7. Op(s) = "insert" /\ Goal(s) = "insert" /\ Conn(s) = c /\ s # <<>>
    BY <2>6, LastCall
  <2>8. Continue(t, s, {c}) /\ {c} \in SUBSET Clients
    BY <2>1, <2>3, <2>6
  <2>9. todo'[t] = s /\ \A u \in Threads : u # t => todo'[u] = todo[u]
    BY <1>3, <2>8, Continues
  <2>10. Moves(t, c, s, {c})
    BY <1>2, <1>3, <2>7, <2>8 DEF Moves, LoopTypes, Goals
  <2>11. TaskPlaced(t)'
    BY <1>2, <2>3, <2>4, <2>7, <2>9 DEF TaskPlaced
  <2>12. /\ c \notin connections_
         /\ \A u \in Threads : /\ Conn(todo[u]) # c /\ c \notin active[u]
                               /\ \A f \in Elems(Queue(u)) : f.conn # c
         /\ state_[c] = "kConnecting" /\ channel_[c] = NewChannel
         /\ told[c] = [up |-> 0, message |-> 0, down |-> 0]
    BY <2>2, <2>3, NextIs
  <2>13. PICK l \in Threads : l = LoopOf(c) /\ l = LoopOf(c)'
    BY <1>3, ThreadsAre DEF Types, LoopOf, numThreads_, Threads
  <2>14. /\ \A u \in Threads : Conn(todo'[u]) = c => u = t
         /\ \A u \in Threads : ~Enabling(u, c)'
         /\ \A u \in Threads : \A f \in Elems(Queue(u)') : f.conn # c
         /\ \A u \in Threads : /\ Est(c) \notin Elems(Queue(u)') /\ Des(c) \notin Elems(Queue(u)')
                               /\ Rem(c) \notin Elems(Queue(u)')
    BY <1>4, <2>7, <2>9, <2>12, FunctorsDiffer DEF Enabling
  <2>15. Lives(c)'
    <3>1. ~Opening(c)'
      BY <1>3, <2>13, <2>14 DEF Opening
    <3>2. Before(Queue(l)', Est(c), Des(c)) /\ Unique(Queue(l)', Est(c))
      BY <2>14, NoneBefore
    <3>3. Fresh(c)'
      BY <1>3, <2>7, <2>9, <2>12, <2>13, <2>14, <3>2 DEF Fresh
    <3>4. Begun(c)'
      BY <1>3, <2>12 DEF Begun
    <3>5. Once(c)'
      BY <1>3, <2>12, <2>13, <2>14, <3>2 DEF Once
    <3>6. Kept(c)'
      BY <1>3, <2>12, <3>1 DEF Kept, NewChannel
    <3>7. QED
      BY <3>3, <3>4, <3>5, <3>6 DEF Lives
  <2>16. ServerTypes'
    <3>1. \A d \in connections_' : d < nextConnId_'
      BY <1>3, <2>3, <2>4, ClientsAre DEF Types, ServerTypes
    <3>2. nextConnId_' \in 1..(arrived' + 1)
      BY <1>3, <2>1, <2>2
    <3>3. QED
      BY <1>1, <1>3, <3>1, <3>2 DEF Types, ServerTypes, acceptorVars
  <2>17. Alone(c)
    BY <1>3 DEF Alone
  <2>18. \A u \in Threads : c \notin active'[u]
    BY <1>2, <2>12
  <2>19. QED
    BY <1>3, <1>5, <2>3, <2>5, <2>8, <2>10, <2>11, <2>15, <2>16, <2>17, <2>18, NoQueueStep, StepKeeps
<1>7. CASE ~(arrived >= nextConnId_ /\ Cardinality(InUse) < maxFds)
  <2>1. nextConnId_' = nextConnId_ /\ todo' = todo /\ held' = held
    BY <1>7 DEF HandleAccept
  <2>2. LoopTypes' /\ ServerTypes'
    BY <1>1, <1>2, <1>3, <2>1 DEF LoopTypes, Types, ServerTypes, acceptorVars
  <2>3. \A u \in Threads : u # t => SameAt(u)
    BY <1>2, <1>3, <2>1 DEF SameAt
  <2>4. Where(t)'
    BY <1>2, <1>3, <2>1 DEF Inv, Where
  <2>5. \A ch \in active'[t] : ChannelPlaced(t, ch)
    BY <1>2 DEF Inv, Placed
  <2>6. ~inLoop[0] \/ ~Destruction' =>
          /\ ~inLoop[0] \/ ~Destruction
          /\ \A c \in active'[t] : c # acceptor => Doomed(c)
    BY <1>2, <1>3 DEF Inv, Reached, Destruction
  <2>7. UNCHANGED <<inLoop, serverVars, connVars, todo>> /\ at' = at
    BY <1>1, <1>3, <2>1 DEF serverVars, connVars
  <2>8. QED
    BY <1>4, <1>5, <2>2, <2>3, <2>4, <2>5, <2>6, <2>7, QuietKeeps
<1>8. QED
  BY <1>6, <1>7

LEMMA HandleReadKeeps ==
  ASSUME Inv, NEW t \in Threads, NEW c \in Clients, HandleRead(t, c) PROVE Inv'
<1>1. /\ Handling(t, c)
      /\ UNCHANGED <<acceptorVars, arrived, connVars, serverVars, at, events_, batch, pending>>
  BY DEF HandleRead
<1>2. /\ active' \in [Threads -> SUBSET (0..MaxClients)]
      /\ \A u \in Threads : active'[u] \subseteq active[u]
      /\ at[t] = "event" /\ todo[t] = <<>> /\ held[t] = {} /\ Conn(todo[t]) = acceptor
      /\ Goal(todo[t]) = "none" /\ ChannelPlaced(t, c)
  BY <1>1, HandlingIs
<1>3. /\ LoopTypes /\ Types /\ ServerTypes /\ inLoop' = inLoop /\ Threads' = Threads /\ at' = at
      /\ events_' = events_ /\ batch' = batch /\ pending' = pending
      /\ nextConnId_' = nextConnId_ /\ state_' = state_ /\ channel_' = channel_
      /\ told' = told /\ connections_' = connections_
  BY <1>1 DEF Inv, Types, acceptorVars, connVars, serverVars, Threads
<1>4. c \in 0..MaxClients /\ c # acceptor /\ {c} \in SUBSET Clients
  BY ClientsAre
<1>5. t = LoopOf(c) /\ t = LoopOf(c)' /\ c < nextConnId_ /\ state_[c] # "kConnecting"
  BY <1>2, <1>3, <1>4 DEF ChannelPlaced, LoopOf, numThreads_, Threads
<1>6. Onwards
  BY <1>3, OnwardsIs
<1>7. PICK s \in Shapes :
        /\ Continue(t, s, {c})
        /\ s = <<Call("message", c)>>
             \/ s = <<Call("disableAll", c), Call("down", c), Call("closeCallback", c)>>
  <2>1. /\ <<Call("message", c)>> \in Shapes
        /\ <<Call("disableAll", c), Call("down", c), Call("closeCallback", c)>> \in Shapes
    BY DEF Shapes, Tasks
  <2>2. [i \in 1..3 |-> Call(<<"disableAll", "down", "closeCallback">>[i], c)]
          = <<Call("disableAll", c), Call("down", c), Call("closeCallback", c)>>
    OBVIOUS
  <2>3. \/ Continue(t, <<Call("message", c)>>, {c})
        \/ Continue(t, [i \in 1..3 |-> Call(<<"disableAll", "down", "closeCallback">>[i], c)], {c})
    BY DEF HandleRead
  <2>4. QED
    BY <2>1, <2>2, <2>3
<1>8. /\ Op(s) # "enableReading" /\ Goal(s) \in {"message", "closeCallback"} /\ Conn(s) = c
      /\ s # <<>>
  BY <1>7, LastCall, ThreeCalls
<1>9. todo'[t] = s /\ \A u \in Threads : u # t => todo'[u] = todo[u]
  BY <1>3, <1>4, <1>7, Continues
<1>10. Moves(t, c, s, {c})
  BY <1>2, <1>3, <1>7, <1>8 DEF Moves, LoopTypes, Goals
<1>11. TaskPlaced(t)'
  BY <1>3, <1>5, <1>8, <1>9 DEF TaskPlaced
<1>12. \A u \in Threads : Queue(u)' = Queue(u)
  BY <1>3, SameQueues
<1>13. Doomed(c) => Doomed(c)'
  BY <1>2, <1>3, <1>9, <1>12, DoomedStays
<1>14. Lives(c)'
  <2>1. channel_'[c].mapped => Doomed(c)'
    BY <1>3, <1>13 DEF Inv, Lives, Kept
  <2>2. \A u \in Threads : Conn(todo'[u]) = c =>
          todo'[u] = todo[u] \/ (Op(todo'[u]) # "enableReading" /\ Goal(todo'[u]) # "insert")
    BY <1>8, <1>9
  <2>3. QED
    BY <1>5, <1>6, <1>12, <2>1, <2>2, EnabledLives
<1>15. ~inLoop[0] \/ ~Destruction => \A u \in Threads : c \in active'[u] => Doomed(c)'
  BY <1>2, <1>4, <1>13 DEF Inv, Reached
<1>16. ServerTypes' /\ ConnTypes' /\ Agreed' /\ Alone(c)
  <2>1. peer' \in [Clients -> [sent : BOOLEAN, data : BOOLEAN, fin : BOOLEAN]]
    BY <1>3 DEF HandleRead, ServerTypes
  <2>2. ServerTypes'
    BY <1>1, <1>3, <2>1 DEF ServerTypes, acceptorVars
  <2>3. ConnTypes' /\ Agreed' /\ Alone(c)
    BY <1>1, <1>3 DEF Inv, Types, ConnTypes, Agreed, Alone, acceptorVars
  <2>4. QED
    BY <2>2, <2>3
<1>17. QED
  BY <1>3, <1>4, <1>6, <1>7, <1>10, <1>11, <1>14, <1>15, <1>16, NoQueueStep, StepKeeps

(* A functor of an enabled connection begins. *)
LEMMA ToldBody ==
  ASSUME NEW c \in Clients, NEW f \in {Rem(c), Des(c)}
  PROVE  \E s \in Shapes :
           /\ s = Body(f) /\ s # <<>> /\ Conn(s) = c /\ Op(s) # "enableReading"
           /\ Goal(s) = IF f = Rem(c) THEN "erase" ELSE "remove"
<1>1. CASE f = Rem(c)
  <2>1. PICK s \in Shapes : s = <<Call("erase", c)>>
    <3>1. <<Call("erase", c)>> \in Tasks(c)
      BY DEF Tasks
    <3>2. QED
      BY <3>1 DEF Shapes
  <2>2. Body(f) = s
    BY <1>1, <2>1, FunctorsDiffer DEF Body
  <2>3. QED
    BY <1>1, <2>1, <2>2, LastCall
<1>2. CASE f = Des(c) /\ state_[c] = "kConnected"
  <2>1. PICK s \in Shapes : s = <<Call("disableAll", c), Call("down", c), Call("remove", c)>>
    <3>1. <<Call("disableAll", c), Call("down", c), Call("remove", c)>> \in Tasks(c)
      BY DEF Tasks
    <3>2. QED
      BY <3>1 DEF Shapes
  <2>2. Body(f) = s
    BY <1>2, <2>1, FunctorsDiffer DEF Body
  <2>3. QED
    BY <1>2, <2>1, <2>2, ThreeCalls, FunctorsDiffer
<1>3. CASE f = Des(c) /\ state_[c] # "kConnected"
  <2>1. PICK s \in Shapes : s = <<Call("remove", c)>>
    <3>1. <<Call("remove", c)>> \in Tasks(c)
      BY DEF Tasks
    <3>2. QED
      BY <3>1 DEF Shapes
  <2>2. Body(f) = s
    BY <1>3, <2>1, FunctorsDiffer DEF Body
  <2>3. QED
    BY <1>3, <2>1, <2>2, LastCall, FunctorsDiffer
<1>4. QED
  BY <1>1, <1>2, <1>3

LEMMA RunFunctorKeeps == ASSUME Inv, NEW t \in Threads, RunFunctor(t) PROVE Inv'
<1>1. /\ at[t] = "functors" /\ Idle(t) /\ batch[t] # <<>>
      /\ batch' = [batch EXCEPT ![t] = Tail(@)] /\ Continue(t, Body(Head(batch[t])), {})
      /\ UNCHANGED <<acceptorVars, clientVars, connVars, serverVars, at, active, events_, pending>>
  BY DEF RunFunctor
<1>2. /\ LoopTypes /\ Types /\ ServerTypes /\ inLoop' = inLoop /\ Threads' = Threads /\ at' = at
      /\ events_' = events_ /\ active' = active /\ pending' = pending
      /\ nextConnId_' = nextConnId_ /\ state_' = state_ /\ channel_' = channel_
      /\ told' = told /\ connections_' = connections_
  BY <1>1 DEF Inv, Types, acceptorVars, connVars, serverVars, Threads
<1>3. PICK f : f = Head(batch[t])
  OBVIOUS
<1>4. /\ batch' \in [Threads -> Seq(Functors)]
      /\ Elems(batch[t]) = Elems(batch'[t]) \cup {f}
      /\ Queue(t) # <<>> /\ Head(Queue(t)) = f /\ Queue(t)' = Tail(Queue(t))
      /\ f \in Functors /\ f \in Elems(Queue(t))
      /\ \A u \in Threads : u # t => Queue(u)' = Queue(u)
  BY <1>1, <1>2, <1>3, Takes
<1>5. PICK q \in Seq(Functors) : q = Queue(t)
  BY <1>2, QueuesAre
<1>6. /\ q # <<>> /\ Head(q) = f /\ Queue(t)' = Tail(q) /\ Elems(q) = Elems(Tail(q)) \cup {f}
      /\ \A u \in Threads : \A g \in Elems(Queue(u)') : g \in Elems(Queue(u))
      /\ \A u \in Threads : \A g \in Elems(Queue(u)) : g = f \/ g \in Elems(Queue(u)')
  <2>1. q # <<>> /\ Head(q) = f /\ Queue(t)' = Tail(q)
    BY <1>4, <1>5
  <2>2. Elems(q) = Elems(Tail(q)) \cup {f}
    BY <2>1, TailElems
  <2>3. Elems(Queue(t)) = Elems(Queue(t)') \cup {f}
    BY <1>5, <2>1, <2>2
  <2>4. ASSUME NEW u \in Threads
        PROVE  /\ \A g \in Elems(Queue(u)') : g \in Elems(Queue(u))
               /\ \A g \in Elems(Queue(u)) : g = f \/ g \in Elems(Queue(u)')
    <3>1. CASE u = t
      BY <2>3, <3>1
    <3>2. CASE u # t
      BY <1>4, <3>2
    <3>3. QED
      BY <3>1, <3>2
  <2>5. QED
    BY <2>1, <2>2, <2>4
<1>7. /\ todo[t] = <<>> /\ Goal(todo[t]) = "none" /\ Op(todo[t]) = "none"
      /\ Conn(todo[t]) = acceptor /\ Where(t) /\ Placed(t)
  BY <1>1, IdleIs
<1>8. PICK c \in 0..MaxClients : c = f.conn
  BY <1>4 DEF Functors
<1>9. /\ FunctorPlaced(t, f) /\ f = Call(f.op, c)
      /\ f.op \in {"listen", "connectEstablished", "removeConnectionInLoop", "connectDestroyed"}
  BY <1>4, <1>7, <1>8 DEF Placed, Functors, Call
<1>10. f.op # "listen" => c \in Clients /\ c < nextConnId_ /\ c # acceptor
  BY <1>8, <1>9, ClientsAre DEF FunctorPlaced
<1>11. Onwards
  BY <1>2, OnwardsIs
<1>12. QueueStep(c)
  BY <1>4, <1>8 DEF QueueStep
<1>13. ServerTypes' /\ ConnTypes' /\ Agreed' /\ Alone(c)
  <2>1. ServerTypes'
    BY <1>1, <1>2 DEF ServerTypes, acceptorVars, clientVars
  <2>2. ConnTypes' /\ Agreed' /\ Alone(c)
    BY <1>1, <1>2 DEF Inv, Types, ConnTypes, Agreed, Alone, acceptorVars
  <2>3. QED
    BY <2>1, <2>2
<1>14. {} \in SUBSET Clients
  OBVIOUS
<1>15. ASSUME NEW s \in Shapes, s = Body(f), Conn(s) = c, Goal(s) \in {"listen", "up", "erase", "remove"}
       PROVE  /\ Continue(t, s, {}) /\ Moves(t, c, s, {})
              /\ todo'[t] = s /\ \A u \in Threads : u # t => todo'[u] = todo[u]
  <2>1. Continue(t, s, {})
    BY <1>1, <1>3, <1>15
  <2>2. Conn(s) # acceptor => Conn(s) \in held[t] \cup {}
    BY <1>4, <1>7, <1>8, <1>15 DEF Where
  <2>3. \A u \in Threads : batch'[u] = batch[u]
                             \/ (at[u] = "functors" /\ Elems(batch'[u]) \subseteq Elems(batch[u]))
    <3>1. \A u \in Threads : u # t => batch'[u] = batch[u]
      BY <1>1, <1>2 DEF LoopTypes
    <3>2. QED
      BY <1>1, <1>4, <3>1
  <2>4. Moves(t, c, s, {})
    BY <1>1, <1>2, <1>4, <1>7, <1>15, <2>1, <2>2, <2>3 DEF Moves, LoopTypes, Goals
  <2>5. QED
    BY <1>2, <1>14, <2>1, <2>4, Continues
<1>16. CASE f.op = "listen"
  <2>1. PICK s \in Shapes : s = <<Call("listen", acceptor)>>
    BY DEF Shapes
  <2>2. t = 0 /\ c = acceptor /\ s = Body(f)
    BY <1>8, <1>9, <1>16, <2>1 DEF FunctorPlaced, Body
  <2>3. Goal(s) = "listen" /\ Conn(s) = acceptor
    BY <2>1, LastCall
  <2>4. Moves(t, c, s, {}) /\ todo'[t] = s
    BY <1>15, <2>2, <2>3
  <2>5. TaskPlaced(t)'
    BY <2>2, <2>3, <2>4 DEF TaskPlaced
  <2>6. QED
    BY <1>2, <1>6, <1>11, <1>12, <1>13, <1>14, <2>2, <2>4, <2>5, StepKeeps
<1>17. CASE f.op = "connectEstablished"
  <2>1. c \in Clients /\ c < nextConnId_ /\ c # acceptor /\ f = Est(c) /\ t = LoopOf(c) /\ ~inLoop[0]
    <3>1. f = Est(c)
      BY <1>9, <1>17 DEF Est
    <3>2. t = LoopOf(f.conn) /\ ~inLoop[0]
      BY <1>9, <1>17 DEF FunctorPlaced
    <3>3. QED
      BY <1>8, <1>10, <1>17, <3>1, <3>2
  <2>2. PICK s \in Shapes : s = <<Call("enableReading", c), Call("up", c)>>
    <3>1. c \in Clients
      BY <2>1
    <3>2. <<Call("enableReading", c), Call("up", c)>> \in Tasks(c)
      BY DEF Tasks
    <3>3. QED
      BY <3>1, <3>2 DEF Shapes
  <2>3. s = Body(f)
    BY <1>8, <1>17, <2>2 DEF Body
  <2>4. Goal(s) = "up" /\ Conn(s) = c /\ Op(s) = "enableReading"
    BY <2>2, TwoCalls
  <2>5. Moves(t, c, s, {}) /\ todo'[t] = s /\ \A u \in Threads : u # t => todo'[u] = todo[u]
    BY <1>15, <2>3, <2>4
  <2>6. t = LoopOf(c)'
    BY <1>2, <2>1 DEF LoopOf, numThreads_, Threads
  <2>7. TaskPlaced(t)'
    BY <1>2, <2>1, <2>4, <2>5, <2>6 DEF TaskPlaced, Opener
  <2>8. Lives(c) /\ Opening(c) /\ Est(c) \in Elems(Queue(t))
    BY <1>4, <2>1 DEF Inv, Opening
  <2>9. state_[c] = "kConnecting"
    BY <2>8 DEF Lives, Begun
  <2>10. /\ channel_[c] = NewChannel /\ told[c] = [up |-> 0, message |-> 0, down |-> 0]
         /\ \A u \in Threads : Conn(todo[u]) = c => Op(todo[u]) \in {"insert", "enableReading"}
         /\ \A u \in Threads : Rem(c) \notin Elems(Queue(u))
    BY <2>8, <2>9 DEF Lives, Fresh
  <2>11. /\ Unique(q, Est(c)) /\ \A u \in Threads : ~Enabling(u, c)
         /\ \A u \in Threads : Conn(todo[u]) = c => Goal(todo[u]) # "insert"
    <3>1. Once(c) /\ Est(c).conn = c
      BY <2>8, FunctorsDiffer DEF Lives
    <3>2. \A u \in Threads : ~Enabling(u, c)
      BY <2>1, <2>8, <3>1 DEF Once
    <3>3. \A u \in Threads : Conn(todo[u]) = c => Goal(todo[u]) # "insert"
      BY <2>8, <3>1 DEF Once
    <3>4. QED
      BY <1>5, <2>1, <3>1, <3>2, <3>3 DEF Once
  <2>12. Est(c) \notin Elems(Tail(q)) /\ Unique(Tail(q), Est(c))
    BY <1>6, <2>1, <2>11, TailElems
  <2>13. \A u \in Threads : Enabling(u, c)' <=> u = t
    BY <2>4, <2>5, <2>11 DEF Enabling
  <2>14. Opening(c)'
    BY <1>2, <2>13 DEF Opening
  <2>15. Fresh(c)'
    <3>1. \A u \in Threads : Conn(todo'[u]) = c => Op(todo'[u]) \in {"insert", "enableReading"}
      BY <2>4, <2>5, <2>10
    <3>2. \A u \in Threads : Rem(c) \notin Elems(Queue(u)')
      BY <1>6, <2>10
    <3>3. Enabling(LoopOf(c), c)'
      BY <2>6, <2>13
    <3>4. QED
      BY <1>2, <2>10, <2>14, <3>1, <3>2, <3>3 DEF Fresh
  <2>16. Begun(c)'
    BY <1>2, <2>9 DEF Begun
  <2>17. Once(c)'
    <3>1. \A u \in Threads : Conn(todo'[u]) = c => Goal(todo'[u]) # "insert"
      BY <2>4, <2>5, <2>11
    <3>2. QED
      BY <1>2, <1>6, <2>6, <2>12, <3>1 DEF Once
  <2>18. Doomed(c)'
    <3>1. Doomed(c)
      BY <2>8 DEF Lives, Kept
    <3>2. CASE c \in connections_
      BY <1>2, <3>2 DEF Doomed
    <3>3. ASSUME NEW u \in Threads, Removing(u, c) PROVE Removing(u, c)'
      <4>1. /\ Rem(c) \in Elems(Queue(u)) => Rem(c) \in Elems(Queue(u)')
            /\ Des(c) \in Elems(Queue(u)) => Des(c) \in Elems(Queue(u)')
        BY <1>6, <2>1, FunctorsDiffer
      <4>2. Conn(todo[u]) = c => todo'[u] = todo[u]
        BY <1>7, <2>1, <2>5
      <4>3. QED
        BY <3>3, <4>1, <4>2 DEF Removing
    <3>4. QED
      BY <1>2, <3>1, <3>2, <3>3 DEF Doomed
  <2>19. Lives(c)'
    BY <2>15, <2>16, <2>17, <2>18 DEF Lives, Kept
  <2>20. QED
    BY <1>2, <1>6, <1>11, <1>12, <1>13, <1>14, <2>5, <2>7, <2>18, <2>19, StepKeeps
<1>18. CASE f.op \in {"removeConnectionInLoop", "connectDestroyed"}
  <2>1. c \in Clients /\ c < nextConnId_ /\ c # acceptor /\ f \in {Rem(c), Des(c)}
    BY <1>9, <1>10, <1>18 DEF Rem, Des
  <2>2. /\ f = Rem(c) => t = 0
        /\ f = Des(c) => t = LoopOf(c)
    BY <1>8, <1>9, FunctorsDiffer DEF FunctorPlaced
  <2>3. PICK s \in Shapes : /\ s = Body(f) /\ s # <<>> /\ Conn(s) = c /\ Op(s) # "enableReading"
                            /\ Goal(s) = IF f = Rem(c) THEN "erase" ELSE "remove"
    BY <2>1, ToldBody
  <2>4. Moves(t, c, s, {}) /\ todo'[t] = s /\ \A u \in Threads : u # t => todo'[u] = todo[u]
    BY <1>15, <2>3
  <2>5. LoopOf(c)' = LoopOf(c)
    BY <1>2 DEF LoopOf, numThreads_, Threads
  <2>6. TaskPlaced(t)'
    BY <1>1, <1>2, <2>1, <2>2, <2>3, <2>4, <2>5 DEF TaskPlaced
  <2>7. state_[c] # "kConnecting"
    <3>1. SUFFICES ASSUME state_[c] = "kConnecting" PROVE FALSE
      OBVIOUS
    <3>2. /\ \A u \in Threads : Rem(c) \notin Elems(Queue(u))
          /\ Enabling(LoopOf(c), c) \/ Before(Queue(LoopOf(c)), Est(c), Des(c))
      BY <2>1, <3>1 DEF Inv, Lives, Fresh
    <3>3. f = Des(c) /\ t = LoopOf(c)
      BY <1>4, <2>1, <2>2, <3>2
    <3>4. Before(q, Est(c), Des(c))
      BY <1>5, <1>7, <3>2, <3>3 DEF Enabling
    <3>5. QED
      BY <1>6, <3>3, <3>4, FunctorsDiffer, TailElems
  <2>8. Doomed(c)'
    BY <1>2, <2>1, <2>3, <2>4 DEF Doomed, Removing
  <2>9. Lives(c)'
    <3>1. \A u \in Threads : Est(c) \in Elems(Queue(u)') => Est(c) \in Elems(Queue(u))
      BY <1>6
    <3>2. \A u \in Threads : Conn(todo'[u]) = c =>
            todo'[u] = todo[u] \/ (Op(todo'[u]) # "enableReading" /\ Goal(todo'[u]) # "insert")
      BY <2>3, <2>4
    <3>3. QED
      BY <1>11, <2>1, <2>7, <2>8, <3>1, <3>2, EnabledLives
  <2>10. QED
    BY <1>2, <1>6, <1>11, <1>12, <1>13, <1>14, <2>3, <2>4, <2>6, <2>8, <2>9, StepKeeps
<1>19. QED
  BY <1>9, <1>16, <1>17, <1>18

-----------------------------------------------------------------------------
(* The server's user.                                                       *)

LEMMA StartKeeps == ASSUME Inv, Start PROVE Inv'
<1>1. /\ at[0] = "off" /\ at' = [t \in Threads |-> "poll"]
      /\ RunInLoop(0, 0, Call("listen", acceptor), <<>>, {})
      /\ UNCHANGED <<acceptorVars, clientVars, connVars, serverVars, active, events_, batch>>
  BY DEF Start
<1>2. /\ LoopTypes /\ Types /\ ServerTypes /\ inLoop' = inLoop /\ Threads' = Threads
      /\ events_' = events_ /\ active' = active /\ batch' = batch
      /\ nextConnId_' = nextConnId_ /\ state_' = state_ /\ channel_' = channel_
      /\ told' = told /\ connections_' = connections_ /\ 0 \in Threads
  BY <1>1, ThreadsAre DEF Inv, Types, acceptorVars, connVars, serverVars, Threads
<1>3. ASSUME NEW u \in Threads
      PROVE  /\ todo[u] = <<>> /\ active[u] = {} /\ batch[u] = <<>> /\ held[u] = {}
             /\ Conn(todo[u]) = acceptor /\ Goal(todo[u]) = "none" /\ Placed(u)
  <2>1. at[u] = "off" /\ Where(u) /\ Placed(u) /\ Regular(todo[u]) /\ held[u] \subseteq Clients
    BY <1>1, <1>2, ShapeIs DEF Inv, Where, LoopTypes
  <2>2. todo[u] = <<>>
    BY <2>1 DEF Where, Goals, Regular
  <2>3. held[u] = {}
    BY <2>1, <2>2, EmptyTask, ClientsAre DEF Where
  <2>4. QED
    BY <2>1, <2>2, <2>3, EmptyTask DEF Where
<1>4. Onwards
  BY <1>2, OnwardsIs
<1>5. PICK s \in Shapes :
        /\ Continue(0, s, {}) /\ s \in {<<>>, <<Call("listen", acceptor)>>}
        /\ \/ pending' = pending
           \/ pending' = [pending EXCEPT ![0] = Append(@, Call("listen", acceptor))]
  <2>1. <<>> \in Shapes /\ <<Call("listen", acceptor)>> \in Shapes
    BY DEF Shapes
  <2>2. Body(Call("listen", acceptor)) \o <<>> = <<Call("listen", acceptor)>>
    <3>1. Body(Call("listen", acceptor)) = <<Call("listen", acceptor)>>
      BY DEF Body, Call
    <3>2. \A x : <<x>> \o <<>> = <<x>>
      OBVIOUS
    <3>3. QED
      BY <3>1, <3>2
  <2>3. QED
    BY <1>1, <2>1, <2>2 DEF RunInLoop
<1>6. Goal(s) \in {"none", "listen"} /\ Conn(s) = acceptor
  <2>1. CASE s = <<>>
    BY <2>1, EmptyTask
  <2>2. CASE s = <<Call("listen", acceptor)>>
    BY <2>2, LastCall
  <2>3. QED
    BY <1>5, <2>1, <2>2
<1>7. /\ todo' \in [Threads -> Shapes] /\ held' \in [Threads -> SUBSET Clients] /\ todo'[0] = s
      /\ held'[0] = {} /\ \A u \in Threads : u # 0 => todo'[u] = todo[u] /\ held'[u] = held[u]
  <2>1. {} \in SUBSET Clients /\ held[0] = {} /\ held[0] \cup {} = {}
    BY <1>2, <1>3
  <2>2. /\ todo' \in [Threads -> Shapes] /\ held' \in [Threads -> SUBSET Clients] /\ todo'[0] = s
        /\ held'[0] = IF s = <<>> /\ at[0] # "functors" THEN {} ELSE held[0] \cup {}
        /\ \A u \in Threads : u # 0 => todo'[u] = todo[u] /\ held'[u] = held[u]
    BY <1>2, <1>5, <2>1, Continues
  <2>3. QED
    BY <2>1, <2>2
<1>8. /\ pending' \in [Threads -> Seq(Functors)] /\ QueueStep(acceptor)
      /\ \A u \in Threads : \A g \in Elems(Queue(u)') :
           g \in Elems(Queue(u)) \/ (u = 0 /\ g = Call("listen", acceptor))
  <2>1. CASE pending' = pending
    <3>1. \A u : Queue(u)' = Queue(u)
      BY <1>2, <2>1, SameQueues
    <3>2. pending' \in [Threads -> Seq(Functors)]
      BY <1>2, <2>1 DEF LoopTypes
    <3>3. QED
      BY <3>1, <3>2 DEF QueueStep
  <2>2. CASE pending' = [pending EXCEPT ![0] = Append(@, Call("listen", acceptor))]
    <3>1. acceptor \in 0..MaxClients
      BY ClientsAre
    <3>2. PICK f \in Functors : f = Call("listen", acceptor) /\ f.conn = acceptor
      <4>1. Call("listen", acceptor) \in Functors /\ Call("listen", acceptor).conn = acceptor
        BY <3>1 DEF Call, Functors
      <4>2. QED
        BY <4>1
    <3>3. pending' = [pending EXCEPT ![0] = Append(@, f)]
      BY <2>2, <3>2
    <3>4. QED
      BY <1>2, <3>2, <3>3, AppendStep
  <2>3. QED
    BY <1>5, <2>1, <2>2
<1>9. Types'
  <2>1. ServerTypes' /\ ConnTypes'
    BY <1>1, <1>2 DEF Types, ServerTypes, ConnTypes, acceptorVars, clientVars
  <2>2. at' \in [Threads -> Places]
    BY <1>1 DEF Places
  <2>3. LoopTypes'
    BY <1>2, <1>7, <1>8, <2>2 DEF LoopTypes
  <2>4. QED
    BY <2>1, <2>3 DEF Types
<1>10. ASSUME NEW u \in Threads
       PROVE  Where(u)' /\ Placed(u)'
  <2>1. /\ at'[u] = "poll" /\ at'[0] = "poll" /\ active'[u] = {} /\ batch'[u] = <<>> /\ held'[u] = {}
        /\ Goal(todo'[u]) \in {"none", "listen"} /\ Conn(todo'[u]) = acceptor
    BY <1>1, <1>2, <1>3, <1>6, <1>7
  <2>2. Where(u)'
    BY <2>1 DEF Where, Goals, Elems
  <2>3. Goal(todo'[u]) = "listen" => u = 0
    BY <1>3, <1>7
  <2>4. TaskPlaced(u)'
    BY <2>1, <2>3 DEF TaskPlaced
  <2>5. FunctorPlaced(0, Call("listen", acceptor))'
    BY DEF FunctorPlaced, Call
  <2>6. \A f \in Elems(Queue(u)') : FunctorPlaced(u, f)'
    BY <1>2, <1>3, <1>4, <1>8, <2>5, PlacedOnwards DEF Placed
  <2>7. QED
    BY <2>1, <2>2, <2>4, <2>6 DEF Placed
<1>11. ASSUME NEW c \in Clients
       PROVE  Lives(c)'
  <2>1. Alone(acceptor) /\ c # acceptor
    BY <1>2, ClientsAre DEF Alone
  <2>2. /\ Conn(todo[0]) \in {acceptor, acceptor} /\ Conn(todo'[0]) \in {acceptor, acceptor}
        /\ \A u \in Threads : u # 0 => todo'[u] = todo[u]
    BY <1>2, <1>3, <1>6, <1>7
  <2>3. Untouched(c)
    BY <1>2, <1>8, <2>1, <2>2, OthersUntouched
  <2>4. QED
    BY <1>2, <1>4, <2>3, UntouchedLives DEF Inv
<1>12. Agreed'
  BY <1>1, <1>2 DEF Inv, Agreed, acceptorVars
<1>13. Reached'
  BY <1>2, <1>3 DEF Reached
<1>14. QED
  BY <1>2, <1>9, <1>10, <1>11, <1>12, <1>13 DEF Inv

LEMMA DestroyNextKeeps == ASSUME Inv, NEW c \in Clients, DestroyNext(c) PROVE Inv'
<1>1. /\ at[0] = "destroying" /\ Idle(0) /\ c \in connections_
      /\ connections_' = connections_ \ {c}
      /\ RunInLoop(0, LoopOf(c), Des(c), <<>>, {c})
      /\ UNCHANGED <<acceptorVars, clientVars, connVars, nextConnId_, loopVars>>
  BY DEF DestroyNext, Des
<1>2. /\ LoopTypes /\ Types /\ ServerTypes /\ inLoop' = inLoop /\ Threads' = Threads /\ at' = at
      /\ events_' = events_ /\ active' = active /\ batch' = batch
      /\ nextConnId_' = nextConnId_ /\ state_' = state_ /\ channel_' = channel_
      /\ told' = told /\ 0 \in Threads
  BY <1>1, ThreadsAre DEF Inv, Types, acceptorVars, connVars, loopVars, Threads
<1>3. PICK l \in Threads : l = LoopOf(c) /\ l = LoopOf(c)'
  BY <1>2, ThreadsAre DEF LoopOf, numThreads_, Threads
<1>4. /\ todo[0] = <<>> /\ Goal(todo[0]) = "none" /\ Op(todo[0]) = "none"
      /\ Conn(todo[0]) = acceptor /\ held[0] = {} /\ batch[0] = <<>>
  BY <1>1, <1>2, IdleIs
<1>5. c < nextConnId_ /\ c \in 0..MaxClients /\ c # acceptor /\ {c} \in SUBSET Clients
  BY <1>1, <1>2, ClientsAre DEF ServerTypes
<1>6. Onwards
  BY <1>2, OnwardsIs
<1>7. ServerTypes' /\ ConnTypes' /\ Agreed' /\ Alone(c)
  <2>1. ServerTypes'
    BY <1>1, <1>2 DEF ServerTypes, acceptorVars, clientVars
  <2>2. ConnTypes' /\ Agreed' /\ Alone(c)
    BY <1>1, <1>2 DEF Inv, Types, ConnTypes, Agreed, Alone, acceptorVars
  <2>3. QED
    BY <2>1, <2>2
<1>8. CASE inLoop[0]
  <2>1. PICK s \in Shapes : /\ s = Body(Des(c)) /\ s # <<>> /\ Conn(s) = c
                            /\ Op(s) # "enableReading" /\ Goal(s) = "remove"
    <3>1. PICK f \in {Rem(c), Des(c)} : f = Des(c) /\ f # Rem(c)
      BY FunctorsDiffer
    <3>2. QED
      BY <3>1, ToldBody
  <2>2. Continue(0, s, {c}) /\ pending' = pending
    <3>1. s \o <<>> = s
      BY ShapeTypes, ConcatEmptySeq
    <3>2. QED
      BY <1>1, <1>8, <2>1, <3>1 DEF RunInLoop
  <2>3. todo'[0] = s /\ \A u \in Threads : u # 0 => todo'[u] = todo[u]
    BY <1>2, <1>5, <2>2, Continues
  <2>4. Moves(0, c, s, {c})
    BY <1>1, <1>2, <1>4, <2>1, <2>2 DEF Moves, LoopTypes, Goals
  <2>5. TaskPlaced(0)'
    BY <1>1, <1>2, <1>5, <1>8, <2>1, <2>3 DEF TaskPlaced
  <2>6. state_[c] # "kConnecting"
    <3>1. SUFFICES ASSUME state_[c] = "kConnecting" PROVE FALSE
      OBVIOUS
    <3>2. Opening(c)
      BY <1>1, <3>1 DEF Inv, Lives, Fresh
    <3>3. Est(c) \notin Elems(Queue(l))
      BY <1>8, FunctorsDiffer DEF Inv, Placed, FunctorPlaced
    <3>4. PICK u \in Threads : Enabling(u, c)
      BY <1>3, <3>2, <3>3 DEF Opening
    <3>5. Regular(todo[u]) /\ TaskPlaced(u) /\ Op(todo[u]) = "enableReading"
      BY <1>2, <3>4, ShapeIs DEF Inv, Placed, LoopTypes, Enabling
    <3>6. Goal(todo[u]) = "up"
      BY <3>5 DEF Regular
    <3>7. u = 0
      BY <1>8, <3>5, <3>6 DEF TaskPlaced, Opener
    <3>8. QED
      BY <1>4, <3>5, <3>7
  <2>7. Doomed(c)'
    BY <1>2, <2>1, <2>3 DEF Doomed, Removing
  <2>8. Lives(c)'
    <3>1. \A u \in Threads : Queue(u)' = Queue(u)
      BY <1>2, <2>2, SameQueues
    <3>2. \A u \in Threads : Conn(todo'[u]) = c =>
            todo'[u] = todo[u] \/ (Op(todo'[u]) # "enableReading" /\ Goal(todo'[u]) # "insert")
      BY <2>1, <2>3
    <3>3. QED
      BY <1>6, <2>6, <2>7, <3>1, <3>2, EnabledLives
  <2>9. QED
    BY <1>2, <1>5, <1>6, <1>7, <2>2, <2>4, <2>5, <2>7, <2>8, NoQueueStep, StepKeeps
<1>9. CASE ~inLoop[0]
  <2>1. Continue(0, <<>>, {c}) /\ pending' = [pending EXCEPT ![l] = Append(@, Des(c))]
    BY <1>1, <1>3, <1>9 DEF RunInLoop
  <2> DEFINE s == <<>>
  <2>2. PICK q \in Seq(Functors) : q = Queue(l)
    BY <1>2, QueuesAre
  <2>3. PICK f \in Functors : f = Des(c) /\ f.conn = c /\ f # Est(c) /\ f # Rem(c)
    BY FunctorsAre, FunctorsDiffer
  <2>4. /\ pending' \in [Threads -> Seq(Functors)] /\ QueueStep(c) /\ f \in Elems(Queue(l)')
        /\ \A u \in Threads : \A g \in Elems(Queue(u)') : g \in Elems(Queue(u)) \/ (u = l /\ g = f)
        /\ \A u \in Threads : \A g \in Elems(Queue(u)) : g \in Elems(Queue(u)')
        /\ Queue(l)' = Append(q, f)
    <3>1. pending' = [pending EXCEPT ![l] = Append(@, f)]
      BY <2>1, <2>3
    <3>2. QED
      BY <1>2, <2>2, <2>3, <3>1, AppendStep, Appends
  <2>5. s \in Shapes /\ Goal(s) = "none" /\ Conn(s) = acceptor /\ s = <<>> /\ Continue(0, s, {c})
    BY <2>1, EmptyTask
  <2> HIDE DEF s
  <2>6. todo'[0] = s /\ \A u \in Threads : todo'[u] = todo[u]
    BY <1>2, <1>4, <1>5, <2>5, Continues
  <2>7. Moves(0, c, s, {c})
    BY <1>1, <1>2, <1>4, <2>1, <2>4, <2>5 DEF Moves, LoopTypes, Goals
  <2>8. TaskPlaced(0)'
    BY <2>5, <2>6 DEF TaskPlaced
  <2>9. \A u \in Threads : \A g \in Elems(Queue(u)') : g \in Elems(Queue(u)) \/ FunctorPlaced(u, g)'
    <3>1. FunctorPlaced(l, f)
      BY <1>3, <1>5, <2>3, FunctorsDiffer DEF FunctorPlaced
    <3>2. FunctorPlaced(l, f)'
      BY <1>2, <1>6, <3>1, PlacedOnwards
    <3>3. QED
      BY <2>4, <3>2
  <2>10. Doomed(c)'
    BY <1>2, <2>3, <2>4 DEF Doomed, Removing
  <2>11. CASE state_[c] # "kConnecting"
    <3>1. \A u \in Threads : Est(c) \in Elems(Queue(u)') => Est(c) \in Elems(Queue(u))
      BY <2>3, <2>4
    <3>2. Lives(c)'
      BY <1>6, <2>6, <2>10, <2>11, <3>1, EnabledLives
    <3>3. QED
      BY <1>2, <1>5, <1>6, <1>7, <2>4, <2>5, <2>7, <2>8, <2>9, <2>10, <3>2, StepKeeps
  <2>12. CASE state_[c] = "kConnecting"
    <3>1. /\ channel_[c] = NewChannel /\ told[c] = [up |-> 0, message |-> 0, down |-> 0]
          /\ \A u \in Threads : Conn(todo[u]) = c => Op(todo[u]) \in {"insert", "enableReading"}
          /\ \A u \in Threads : Rem(c) \notin Elems(Queue(u))
          /\ Opening(c) /\ (Enabling(l, c) \/ Before(q, Est(c), Des(c)))
      BY <1>1, <1>3, <2>2, <2>12 DEF Inv, Lives, Fresh
    <3>2. \A u \in Threads : Enabling(u, c)' <=> Enabling(u, c)
      BY <2>6 DEF Enabling
    <3>3. Opening(c)'
      BY <1>2, <1>3, <2>4, <3>1, <3>2 DEF Opening
    <3>4. Enabling(l, c) \/ Before(Append(q, f), Est(c), Des(c))
      <4>1. CASE Est(c) \in Elems(q)
        BY <2>3, <3>1, <4>1, AppendElems
      <4>2. CASE Est(c) \notin Elems(q)
        <5>1. PICK u \in Threads : Enabling(u, c)
          BY <1>3, <2>2, <3>1, <4>2 DEF Opening
        <5>2. Regular(todo[u]) /\ TaskPlaced(u) /\ Op(todo[u]) = "enableReading" /\ Conn(todo[u]) = c
          BY <1>2, <5>1, ShapeIs DEF Inv, Placed, LoopTypes, Enabling
        <5>3. Goal(todo[u]) = "up"
          BY <5>2 DEF Regular
        <5>4. u = l
          BY <1>3, <1>9, <5>2, <5>3 DEF TaskPlaced, Opener
        <5>5. QED
          BY <5>1, <5>4
      <4>3. QED
        BY <4>1, <4>2
    <3>5. Fresh(c)'
      <4>1. \A u \in Threads : Rem(c) \notin Elems(Queue(u)')
        BY <2>3, <2>4, <3>1
      <4>2. \A u \in Threads : Conn(todo'[u]) = c => Op(todo'[u]) \in {"insert", "enableReading"}
        BY <2>6, <3>1
      <4>3. Enabling(l, c)' \/ Before(Queue(l)', Est(c), Des(c))
        BY <2>4, <3>2, <3>4
      <4>4. QED
        BY <1>2, <1>3, <3>1, <3>3, <4>1, <4>2, <4>3 DEF Fresh
    <3>6. Begun(c)'
      BY <1>2, <2>12 DEF Begun
    <3>7. Once(c)'
      <4>1. Once(c)
        BY DEF Inv, Lives
      <4>2. \A u \in Threads : ~(Conn(todo'[u]) = c /\ Goal(todo'[u]) = "insert")
        BY <1>1, <2>6, <4>1 DEF Once
      <4>3. Unique(q, Est(c)) /\ \A u \in Threads : Enabling(u, c) => Est(c) \notin Elems(q)
        BY <1>3, <2>2, <4>1 DEF Once
      <4>4. Unique(Append(q, f), Est(c))
        BY <2>3, <4>3, AppendElems
      <4>5. \A u \in Threads : Enabling(u, c)' => Est(c) \notin Elems(Queue(l)')
        BY <2>2, <2>3, <2>4, <3>2, <4>3
      <4>6. QED
        BY <1>2, <1>3, <2>4, <4>2, <4>4, <4>5 DEF Once
    <3>8. Lives(c)'
      BY <2>10, <3>5, <3>6, <3>7 DEF Lives, Kept
    <3>9. QED
      BY <1>2, <1>5, <1>6, <1>7, <2>4, <2>5, <2>7, <2>8, <2>9, <2>10, <3>8, StepKeeps
  <2>13. QED
    BY <2>11, <2>12
<1>10. QED
  BY <1>8, <1>9

-----------------------------------------------------------------------------
(* The theorems.                                                            *)

LEMMA InitInv == Init => Inv
<1> SUFFICES ASSUME Init PROVE Inv
  OBVIOUS
<1>1. PICK n \in 0..MaxThreads : inLoop \in [0..n -> BOOLEAN]
  BY DEF Init
<1>2. n \in Nat
  BY ServerAssumption
<1>3. Threads = 0..n /\ 0 \in Threads
  BY <1>1, <1>2, Loops
<1>4. NewChannel \in ChannelStates /\ Agrees(NewChannel) /\ ~NewChannel.mapped
  BY DEF NewChannel, ChannelStates, Agrees, Indices
<1>5. ServerTypes
  <2>1. peer \in [Clients -> [sent : BOOLEAN, data : BOOLEAN, fin : BOOLEAN]]
    BY DEF Init
  <2>2. arrived \in 0..MaxClients /\ nextConnId_ \in 1..(arrived + 1)
    BY ServerAssumption DEF Init
  <2>3. QED
    BY <1>1, <1>4, <2>1, <2>2 DEF Init, AcceptorInit, ServerTypes
<1>6. ConnTypes /\ Agreed
  BY <1>4 DEF Init, ConnectionsInit, AcceptorInit, ConnTypes, Agreed
<1>7. ASSUME NEW t \in Threads
      PROVE  /\ at[t] = "off" /\ active[t] = {} /\ todo[t] = <<>> /\ held[t] = {}
             /\ batch[t] = <<>> /\ pending[t] = <<>>
  BY DEF Init, LoopsInit
<1>8. LoopTypes
  BY EmptySeq, EmptyTask, ServerAssumption DEF Init, LoopsInit, LoopTypes, Places
<1>9. Types
  BY <1>5, <1>6, <1>8 DEF Types
<1>10. \A t \in Threads : Elems(Queue(t)) = {}
  <2>1. <<>> \o <<>> = <<>> /\ Elems(<<>>) = {}
    BY DEF Elems
  <2>2. \A t \in Threads : Queue(t) = <<>>
    BY <1>7, <2>1 DEF Queue
  <2>3. QED
    BY <2>1, <2>2
<1>11. ASSUME NEW t \in Threads
       PROVE  Where(t) /\ Placed(t)
  <2>1. Where(t)
    BY <1>3, <1>7, EmptyTask DEF Where, Goals, Elems
  <2>2. Placed(t)
    BY <1>7, <1>10, EmptyTask DEF Placed, TaskPlaced
  <2>3. QED
    BY <2>1, <2>2
<1>12. ASSUME NEW c \in Clients
       PROVE  Lives(c)
  <2>1. /\ state_[c] = "kConnecting" /\ channel_[c] = NewChannel
        /\ told[c] = [up |-> 0, message |-> 0, down |-> 0] /\ connections_ = {}
    BY DEF Init, ConnectionsInit
  <2>2. LoopOf(c) \in Threads /\ c # acceptor
    BY <1>5, ThreadsAre, ClientsAre
  <2>3. \A t \in Threads : Conn(todo[t]) # c /\ ~Enabling(t, c)
    BY <1>7, <2>2, EmptyTask DEF Enabling
  <2>4. ~Opening(c)
    BY <1>10, <2>2, <2>3 DEF Opening
  <2>5. Before(Queue(LoopOf(c)), Est(c), Des(c)) /\ Unique(Queue(LoopOf(c)), Est(c))
    BY <1>10, <2>2, NoneBefore
  <2>6. Fresh(c)
    BY <1>10, <2>1, <2>3, <2>5 DEF Fresh
  <2>7. Begun(c) /\ Kept(c)
    BY <1>4, <2>1, <2>4 DEF Begun, Kept
  <2>8. Once(c)
    BY <2>3, <2>5 DEF Once
  <2>9. QED
    BY <2>6, <2>7, <2>8 DEF Lives
<1>13. Reached
  BY <1>7 DEF Reached
<1>14. QED
  BY <1>6, <1>9, <1>11, <1>12, <1>13 DEF Inv

LEMMA NextInv == Inv /\ [Next]_vars => Inv'
<1> SUFFICES ASSUME Inv, [Next]_vars PROVE Inv'
  OBVIOUS
<1>1. ASSUME NEW t \in Threads, Loop(t)
      PROVE  Inv'
  BY <1>1, AccessKeeps, PollKeeps, HandleAcceptKeeps, HandleReadKeeps, EventDoneKeeps,
     RunFunctorKeeps, FunctorsDoneKeeps DEF Loop
<1>2. CASE User
  BY <1>2, StartKeeps, LoopReturnKeeps, DestroyKeeps, DestroyNextKeeps, DestroyedKeeps DEF User
<1>3. CASE Peers
  BY <1>3, PeersKeep
<1>4. CASE UNCHANGED vars
  <2>1. Threads' = Threads /\ \A u \in Threads : SameAt(u)
    BY <1>4 DEF vars, acceptorVars, loopVars, threadVars, SameAt, Threads
  <2>2. /\ UNCHANGED <<acceptorVars, connVars, serverVars, loopVars, threadVars>>
        /\ UNCHANGED <<arrived, peer>>
    BY <1>4 DEF vars, clientVars
  <2>3. 0 \in Threads /\ Where(0) /\ Placed(0) /\ Types
    BY ThreadsAre DEF Inv, Types
  <2>4. Where(0)' /\ at' = at /\ (at'[0] = "off" => at[0] = "off")
    BY <2>1, <2>2, <2>3, SameWhere DEF loopVars
  <2>5. LoopTypes' /\ ServerTypes' /\ Agrees(acceptChannel_')
    BY <2>1, <2>2 DEF Inv, Types, LoopTypes, ServerTypes, Agreed, acceptorVars, serverVars,
                      loopVars, threadVars
  <2>6. \A u \in Threads : Queue(u)' = Queue(u)
    BY <2>2, SameQueues DEF loopVars, threadVars
  <2>7. \A ch \in active'[0] : ChannelPlaced(0, ch)
    BY <2>2, <2>3 DEF Placed, loopVars
  <2>8. ~inLoop[0] \/ ~Destruction' =>
          /\ ~inLoop[0] \/ ~Destruction
          /\ \A c \in active'[0] : c # acceptor => Doomed(c)
    BY <2>2, <2>3, <2>4 DEF Inv, Reached, Destruction, loopVars
  <2>9. UNCHANGED <<inLoop, serverVars, connVars, todo>>
    BY <2>2 DEF acceptorVars, threadVars
  <2>10. QED
    BY <2>1, <2>3, <2>4, <2>5, <2>6, <2>7, <2>8, <2>9, QuietKeeps
<1>5. QED
  BY <1>1, <1>2, <1>3, <1>4 DEF Next

(* The invariant of the server, from which the theorems below follow. *)
THEOREM InvHolds == Spec => []Inv
<1>1. Init => Inv
  BY InitInv
<1>2. Inv /\ [Next]_vars => Inv'
  BY NextInv
<1>3. QED
  BY <1>1, <1>2, PTL DEF Spec

(* The variables keep their types: among them, that a loop which polls has  *)
(* nothing in hand, and that functors are in a batch only while they are    *)
(* called.                                                                  *)
THEOREM TypeCorrect == Spec => []TypeOK
BY InvHolds, InvTypeOK, PTL

(* No loop has the channel of a freed connection in its active list while   *)
(* the server is there, or when its destructor queues what it destroys.     *)
THEOREM NoFreedChannelActive == Spec => []NoDanglingActive
BY InvHolds, InvNoDanglingActive, PTL

(* A connection that is freed has left its loop's poller, and the poller    *)
(* and the kernel agree about every channel: EPollPoller.cc refuses nothing *)
(* and leaks nothing, whichever of the two ways a connection ends.          *)
THEOREM FreedHasLeftPoller == Spec => []PollersAgree
BY InvHolds, InvPollersAgree, PTL

(* Without a isInLoopThread() that is true elsewhere, what is done about a  *)
(* connection is done in the thread of its loop, and what is done about the *)
(* server's map and its acceptor in the base loop's: no lock is missing.    *)
THEOREM EverythingInItsThread == Spec => []InOwnThread
BY InvHolds, InvInOwnThread, PTL

(* ... and no two threads are ever in connections_, or in the channels_ of  *)
(* one poller, at a time: no data race on them, ~TcpServer included.        *)
THEOREM NoContainerIsShared == Spec => [](Queues => ~Undefined)
BY InvHolds, InvNoRace, PTL
=============================================================================

------------------------ MODULE EventLoopThreadPool ------------------------
(***************************************************************************)
(* A pool of loop threads and the thread that starts, uses and destroys    *)
(* it: EventLoopThreadPool.cc, EventLoopThread.cc and Thread.cc.           *)
(*                                                                         *)
(* Of the loops only what these files touch is here: whether loop() runs,  *)
(* its quit_, and that the EventLoop is a local variable of threadFunc, so *)
(* that a pointer to it is good only while threadFunc runs.  The rest is   *)
(* in EventLoop.tla.                                                       *)
(*                                                                         *)
(* MakeLoopLate, PublishSilently, GetNextLoopStill, GetNextLoopPast,       *)
(* DestructorNoJoin and ClearAwaited are seeded faults, each of the action *)
(* that follows it.                                                        *)
(***************************************************************************)
EXTENDS Naturals, Sequences

CONSTANTS
  MaxThreads,   (* bound: threads of a pool *)
  MaxNext       (* bound: calls of getNextLoop *)

ASSUME MaxAssumption == MaxThreads \in Nat /\ MaxNext \in Nat

Threads == 1..MaxThreads

VARIABLES
  numThreads_,
  callback,     (* whether start() is given a ThreadInitCallback *)
  main,         (* where the pool's user is, see Points *)
  cur,          (* the thread it is starting or destroying *)
  worker,       (* where each thread is, see WorkerPoints *)
  inited,       (* history: threads whose callback has run, 0 for baseLoop_ *)
  loop_,        (* EventLoopThread::loop_, TRUE when it is not nullptr *)
  quit_,        (* EventLoop::quit_ of each thread's loop *)
  loops_,       (* the pool's loops, by thread *)
  next_,
  given         (* history: how often getNextLoop returned each *)

poolVars == <<numThreads_, callback>>
mainVars == <<main, cur, loops_, next_, given>>
vars == <<poolVars, mainVars, worker, inited, loop_, quit_>>

(* "new": before start(); "start": in its for loop; "sem": in              *)
(* Thread::start, waiting for the new thread's id; "lock": in startLoop,    *)
(* about to take mutex_; "asleep": in cond_.wait; "ready": start() has      *)
(* returned; "destroy": destroying threads_; "join": in thread_.join();     *)
(* "gone": the pool is destroyed.                                           *)
Points == {"new", "start", "sem", "lock", "asleep", "ready", "destroy", "join", "gone"}

(* "none": not created; "born": id not yet stored; "func": entering         *)
(* threadFunc; "publish": the loop exists and the callback has run;         *)
(* "enter": loop_ published; "looping": in loop(); "ended": loop() has      *)
(* returned; "cleared": loop_ reset, mutex_ held; "done": finished.         *)
WorkerPoints ==
  {"none", "born", "func", "publish", "enter", "looping", "ended", "cleared", "done"}

Ended == {"ended", "cleared", "done"}

Init ==
  /\ numThreads_ = 0
  /\ callback = FALSE
  /\ main = "new"
  /\ cur = 0
  /\ worker = [i \in Threads |-> "none"]
  /\ inited = {}
  /\ loop_ = [i \in Threads |-> FALSE]
  /\ quit_ = [i \in Threads |-> FALSE]
  /\ loops_ = <<>>
  /\ next_ = 0
  /\ given = [i \in 0..MaxThreads |-> 0]

-----------------------------------------------------------------------------
(* The new thread.                                                          *)

At(i, here, there) ==
  /\ worker[i] = here
  /\ worker' = [worker EXCEPT ![i] = there]

(* The thread's lambda: tid_ is stored and the semaphore posted. *)
Born(i) ==
  /\ At(i, "born", "func")
  /\ UNCHANGED <<poolVars, mainVars, inited, loop_, quit_>>

MakeLoopLate(i) ==
  /\ At(i, "func", "publish")
  /\ UNCHANGED <<poolVars, mainVars, inited, loop_, quit_>>

(* threadFunc: the loop is constructed and the callback, if any, is called. *)
MakeLoop(i) ==
  /\ At(i, "func", "publish")
  /\ inited' = IF callback THEN inited \cup {i} ELSE inited
  /\ UNCHANGED <<poolVars, mainVars, loop_, quit_>>

PublishSilently(i) ==
  /\ At(i, "publish", "enter")
  /\ loop_' = [loop_ EXCEPT ![i] = TRUE]
  /\ UNCHANGED <<poolVars, mainVars, inited, quit_>>

(* loop_ = &loop and notify_one, under mutex_. *)
Publish(i) ==
  /\ At(i, "publish", "enter")
  /\ loop_' = [loop_ EXCEPT ![i] = TRUE]
  /\ main' = IF main = "asleep" /\ cur = i THEN "lock" ELSE main
  /\ UNCHANGED <<poolVars, cur, loops_, next_, given, inited, quit_>>

(* loop() starts by resetting quit_. *)
EnterLoop(i) ==
  /\ At(i, "enter", "looping")
  /\ quit_' = [quit_ EXCEPT ![i] = FALSE]
  /\ UNCHANGED <<poolVars, mainVars, inited, loop_>>

(* loop() finds quit_ set and returns. *)
LoopReturn(i) ==
  /\ quit_[i]
  /\ At(i, "looping", "ended")
  /\ UNCHANGED <<poolVars, mainVars, inited, loop_, quit_>>

ClearAwaited(i) ==
  /\ loop_[i]
  /\ At(i, "ended", "cleared")
  /\ loop_' = [loop_ EXCEPT ![i] = FALSE]
  /\ UNCHANGED <<poolVars, mainVars, inited, quit_>>

(* mutex_ is taken and loop_ reset. *)
Clear(i) ==
  /\ At(i, "ended", "cleared")
  /\ loop_' = [loop_ EXCEPT ![i] = FALSE]
  /\ UNCHANGED <<poolVars, mainVars, inited, quit_>>

(* mutex_ is released, the loop destroyed, and the thread is over. *)
End(i) ==
  /\ At(i, "cleared", "done")
  /\ UNCHANGED <<poolVars, mainVars, inited, loop_, quit_>>

Worker(i) ==
  \/ Born(i) \/ MakeLoop(i) \/ Publish(i) \/ EnterLoop(i)
  \/ LoopReturn(i) \/ Clear(i) \/ End(i)

(* Whoever holds a pointer to the loop may call quit: the callback was given *)
(* one, and the pool's users get theirs once start() has returned.          *)
Quit(i) ==
  /\ worker[i] \in {"publish", "enter", "looping"}
  /\ callback \/ main \notin {"start", "sem", "lock", "asleep"}
  /\ quit_' = [quit_ EXCEPT ![i] = TRUE]
  /\ UNCHANGED <<poolVars, mainVars, worker, inited, loop_>>

-----------------------------------------------------------------------------
(* setThreadNum(), which anybody may call who is not inside the pool; after *)
(* start() it has no effect on the threads that there are.                  *)
SetThreadNum(n) ==
  /\ main \in {"new", "ready"}
  /\ numThreads_' = n
  /\ UNCHANGED <<callback, mainVars, worker, inited, loop_, quit_>>

(* start(), which TcpServer::start calls once. *)
Start ==
  /\ main = "new"
  /\ callback' \in BOOLEAN
  /\ main' = "start"
  /\ UNCHANGED <<numThreads_, cur, loops_, next_, given, worker, inited, loop_, quit_>>

(* The next EventLoopThread is made and its startLoop starts a thread. *)
StartNext ==
  /\ main = "start"
  /\ cur < numThreads_
  /\ cur' = cur + 1
  /\ worker' = [worker EXCEPT ![cur + 1] = "born"]
  /\ main' = "sem"
  /\ UNCHANGED <<poolVars, loops_, next_, given, inited, loop_, quit_>>

SemWait ==
  /\ main = "sem"
  /\ worker[cur] # "born"
  /\ main' = "lock"
  /\ UNCHANGED <<poolVars, cur, loops_, next_, given, worker, inited, loop_, quit_>>

(* while(loop_ == nullptr) cond_.wait(lock); then the loop joins loops_. *)
StartLoop ==
  /\ main = "lock"
  /\ worker[cur] # "cleared"
  /\ IF loop_[cur]
       THEN main' = "start" /\ loops_' = Append(loops_, cur)
       ELSE main' = "asleep" /\ UNCHANGED loops_
  /\ UNCHANGED <<poolVars, cur, next_, given, worker, inited, loop_, quit_>>

(* cond_.wait may return without a notification. *)
SpuriousWakeup ==
  /\ main = "asleep"
  /\ main' = "lock"
  /\ UNCHANGED <<poolVars, cur, loops_, next_, given, worker, inited, loop_, quit_>>

(* All are started.  Without any, the callback is called for baseLoop_. *)
StartDone ==
  /\ main = "start"
  /\ cur = numThreads_
  /\ main' = "ready"
  /\ inited' = IF numThreads_ = 0 /\ callback THEN inited \cup {0} ELSE inited
  /\ UNCHANGED <<poolVars, cur, loops_, next_, given, worker, loop_, quit_>>

-----------------------------------------------------------------------------
(* Use.                                                                     *)

(* The loop getNextLoop returns now, 0 for baseLoop_. *)
NextLoop == IF loops_ = <<>> THEN 0 ELSE loops_[next_ + 1]

GetNextLoopStill ==
  /\ main = "ready"
  /\ given[NextLoop] < MaxNext
  /\ given' = [given EXCEPT ![NextLoop] = @ + 1]
  /\ UNCHANGED <<poolVars, main, cur, loops_, next_, worker, inited, loop_, quit_>>

GetNextLoopPast ==
  /\ main = "ready"
  /\ given[NextLoop] < MaxNext
  /\ given' = [given EXCEPT ![NextLoop] = @ + 1]
  /\ next_' = IF next_ + 1 > Len(loops_) THEN 0 ELSE next_ + 1
  /\ UNCHANGED <<poolVars, main, cur, loops_, worker, inited, loop_, quit_>>

GetNextLoop ==
  /\ main = "ready"
  /\ given[NextLoop] < MaxNext
  /\ given' = [given EXCEPT ![NextLoop] = @ + 1]
  /\ next_' = IF next_ + 1 >= Len(loops_) THEN 0 ELSE next_ + 1
  /\ UNCHANGED <<poolVars, main, cur, loops_, worker, inited, loop_, quit_>>

-----------------------------------------------------------------------------
(* ~EventLoopThreadPool, which destroys the threads one after the other.    *)
(* threads_ has as many as loops_.                                          *)

Destroy ==
  /\ main = "ready"
  /\ main' = "destroy"
  /\ cur' = 1
  /\ UNCHANGED <<poolVars, loops_, next_, given, worker, inited, loop_, quit_>>

DestructorNoJoin ==
  /\ main = "destroy"
  /\ cur <= Len(loops_)
  /\ loop_' = [loop_ EXCEPT ![cur] = FALSE]
  /\ cur' = cur + 1
  /\ UNCHANGED <<poolVars, main, loops_, next_, given, worker, inited, quit_>>

(* ~EventLoopThread: a thread whose loop_ is set is joined, another one is  *)
(* detached by ~Thread.  loop_ is read and written without mutex_.          *)
Destructor ==
  /\ main = "destroy"
  /\ cur <= Len(loops_)
  /\ IF loop_[cur]
       THEN /\ loop_' = [loop_ EXCEPT ![cur] = FALSE]
            /\ main' = "join"
            /\ UNCHANGED cur
       ELSE /\ cur' = cur + 1
            /\ UNCHANGED <<loop_, main>>
  /\ UNCHANGED <<poolVars, loops_, next_, given, worker, inited, quit_>>

Join ==
  /\ main = "join"
  /\ worker[cur] = "done"
  /\ main' = "destroy"
  /\ cur' = cur + 1
  /\ UNCHANGED <<poolVars, loops_, next_, given, worker, inited, loop_, quit_>>

Destroyed ==
  /\ main = "destroy"
  /\ cur > Len(loops_)
  /\ main' = "gone"
  /\ UNCHANGED <<poolVars, cur, loops_, next_, given, worker, inited, loop_, quit_>>

-----------------------------------------------------------------------------
(* The steps of the pool's user inside start() and inside the destructor. *)
InStart == StartNext \/ SemWait \/ StartLoop \/ StartDone
InDestructor == Destructor \/ Join \/ Destroyed

Next ==
  \/ (\E n \in 0..MaxThreads : SetThreadNum(n)) \/ Start
  \/ InStart \/ SpuriousWakeup \/ GetNextLoop \/ Destroy \/ InDestructor
  \/ \E i \in Threads : Worker(i) \/ Quit(i)

(* The scheduler runs every thread that can run.  Nobody has to use the     *)
(* pool, destroy it or quit a loop, and no wake-up is spurious on demand.   *)
Fairness ==
  /\ WF_vars(InStart)
  /\ WF_vars(InDestructor)
  /\ \A i \in Threads : WF_vars(Worker(i))

Spec == Init /\ [][Next]_vars /\ Fairness

-----------------------------------------------------------------------------
TypeOK ==
  /\ numThreads_ \in 0..MaxThreads
  /\ callback \in BOOLEAN
  /\ main \in Points
  /\ cur \in 0..(MaxThreads + 1)
  /\ worker \in [Threads -> WorkerPoints]
  /\ inited \subseteq 0..MaxThreads
  /\ loop_ \in [Threads -> BOOLEAN]
  /\ quit_ \in [Threads -> BOOLEAN]
  /\ loops_ \in Seq(Threads)
  /\ next_ \in Nat
  /\ next_ = 0 \/ next_ < Len(loops_)
  /\ given \in [0..MaxThreads -> 0..MaxNext]

(* A loop is handed to the pool only when it is complete: its thread has    *)
(* constructed it and called the callback, and the pool holds the loops in  *)
(* the order of their threads.                                              *)
LoopsAreComplete ==
  \A k \in DOMAIN loops_ :
    /\ loops_[k] = k
    /\ worker[k] \notin {"none", "born", "func", "publish"}
    /\ callback => k \in inited

(* getNextLoop hands the loops out in turn: no loop is more than one ahead  *)
(* of another, and the earlier ones are those that are ahead.               *)
RoundRobin ==
  \A j, k \in DOMAIN loops_ :
    j < k => given[j] - given[k] \in {0, 1}

(* No EventLoopThread is destroyed under a running loop(): one that the     *)
(* destructor has passed has a thread that is at least about to finish.     *)
Passed(i) == main \in {"destroy", "join", "gone"} /\ i < cur

DestroyedAfterLoop ==
  \A i \in Threads : Passed(i) => worker[i] \in {"none", "cleared", "done"}

(* start() returns, or waits for a loop that was quit before startLoop saw  *)
(* it.                                                                      *)
Starting == main \in {"start", "sem", "lock", "asleep"}

MissedLoop == Starting /\ \E i \in Threads : i > Len(loops_) /\ worker[i] \in Ended

StartReturns ==
  Starting ~> (main = "ready" \/ MissedLoop)

(* Once every loop has been told to quit while it ran, a destruction of the *)
(* pool that has begun ends: every thread it joins finishes.                *)
Quitting(i) == worker[i] \in Ended \/ (worker[i] = "looping" /\ quit_[i])

DestroyEnds ==
  (main \in {"destroy", "join"} /\ \A i \in DOMAIN loops_ : Quitting(i)) ~> main = "gone"
=============================================================================

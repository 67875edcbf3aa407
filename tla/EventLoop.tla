------------------------------ MODULE EventLoop ------------------------------
(***************************************************************************)
(* One EventLoop, the thread that owns it and the threads that hand it     *)
(* functors: EventLoop.cc, with epoll_wait reduced to what the loop does   *)
(* with its result.                                                        *)
(*                                                                         *)
(* EventLoop::isInLoopThread() has no return statement.  The library that  *)
(* is committed in lib/ (GCC 7.3.1, -g, no optimisation, as build/ has it) *)
(* leaves the result of CurrentThread::tid() in the return register and    *)
(* compares nothing, so a caller sees the low byte of its own thread id    *)
(* whatever loop it asks: an `if(isInLoopThread())' tests that byte        *)
(* against 0, an `if(!isInLoopThread())' flips its lowest bit first, and   *)
(* so tests it against 1.  Thread ids are chosen in Init and never change. *)
(*                                                                         *)
(* A functor is named by the thread that handed it over and the number of  *)
(* the call that did.                                                      *)
(*                                                                         *)
(* QueueInLoopTestNoCalling, QuitTestSwapped, LoopTestOnLooping,           *)
(* SwapFunctorsCopied and DrainDoneFlagLeft are seeded faults, each of the *)
(* action that follows it.                                                 *)
(***************************************************************************)
EXTENDS Naturals, Sequences

CONSTANTS
  Threads,    (* every thread that calls into the loop *)
  Owner,      (* the one that constructed it and runs loop() *)
  Tids,       (* the thread ids the kernel may hand out *)
  MaxCalls,   (* bound: calls each thread makes *)
  None        (* no functor *)

ASSUME OwnerAssumption == Owner \in Threads
ASSUME TidsAssumption == Tids \subseteq Nat
ASSUME MaxCallsAssumption == MaxCalls \in Nat

Functor == Threads \X (1..MaxCalls)

ASSUME NoneAssumption == None \notin Functor

VARIABLES
  tid,                    (* thread ids *)
  at,                     (* where Owner is in loop(), see Points *)
  active,                 (* activeChannels_ still to be handled *)
  quit_,
  pendingFunctors_,
  callingPendFunctors_,
  wakeupFd_,              (* the eventfd's counter *)
  functors,               (* dopendingFunctors' batch, what is left of it *)
  executed,               (* history: functors taken from a batch, in order *)
  call,                   (* where each thread is in queueInLoop or quit *)
  direct,                 (* the functor each thread executes in runInLoop *)
  issued,                 (* calls each thread has made *)
  early                   (* history: Owner's calls before loop() *)

loopVars == <<at, active, functors, executed, early>>
sharedVars == <<quit_, pendingFunctors_, callingPendFunctors_, wakeupFd_>>
callVars == <<call, direct, issued>>
vars == <<tid, loopVars, sharedVars, callVars>>

(* "made": constructed, loop() not entered; "test": while(!quit_);          *)
(* "poll": in epoll_wait; "dispatch": handling activeChannels_; "io": in a  *)
(* handler of a channel other than wakeupChannel_; then dopendingFunctors:  *)
(* "flag" raises callingPendFunctors_, "swap" takes the queue, "drain" is   *)
(* its for loop, "run" a functor's body; "stopped": loop() has returned.    *)
Points == {"made", "test", "poll", "dispatch", "io",
           "flag", "swap", "drain", "run", "stopped"}

(* "queued": in queueInLoop, functor pushed; "quitting": in quit, quit_     *)
(* set; "waking": about to write to wakeupFd_.                              *)
CallPoints == {"idle", "queued", "quitting", "waking"}

(* The kinds of channel a poll can report. *)
Channels == {"wakeup", "io"}

-----------------------------------------------------------------------------
(* The outcomes of the two tests of isInLoopThread() in thread t. *)
SaysInLoop(t) == tid[t] % 256 # 0
SaysNotInLoop(t) == tid[t] % 256 # 1

(* Where user code runs: thread bodies, the callback given to               *)
(* EventLoopThread, channel handlers and functors.                          *)
InUserCode(t) ==
  /\ call[t] = "idle"
  /\ t = Owner => at \in {"made", "io", "run"}
  /\ issued[t] < MaxCalls

ThisCall(t) == <<t, issued[t] + 1>>

Init ==
  /\ tid \in {f \in [Threads -> Tids] : \A s, t \in Threads : f[s] = f[t] => s = t}
  /\ at = "made"
  /\ active = {}
  /\ quit_ = FALSE
  /\ pendingFunctors_ = <<>>
  /\ callingPendFunctors_ = FALSE
  /\ wakeupFd_ = 0
  /\ functors = <<>>
  /\ executed = <<>>
  /\ call = [t \in Threads |-> "idle"]
  /\ direct = [t \in Threads |-> None]
  /\ issued = [t \in Threads |-> 0]
  /\ early = 0

-----------------------------------------------------------------------------
(* Calls.  Each is broken where another thread can step in between.         *)

(* queueInLoop, up to the unlock: the push under mutex_. *)
QueueInLoop(t) ==
  /\ InUserCode(t)
  /\ pendingFunctors_' = Append(pendingFunctors_, ThisCall(t))
  /\ call' = [call EXCEPT ![t] = "queued"]
  /\ issued' = [issued EXCEPT ![t] = @ + 1]
  /\ UNCHANGED <<tid, loopVars, quit_, callingPendFunctors_, wakeupFd_, direct>>

QueueInLoopTestNoCalling(t) ==
  /\ call[t] = "queued"
  /\ call' = [call EXCEPT ![t] = IF SaysNotInLoop(t) THEN "waking" ELSE "idle"]
  /\ UNCHANGED <<tid, loopVars, sharedVars, direct, issued>>

(* if(!isInLoopThread() || callingPendFunctors_), after the unlock. *)
QueueInLoopTest(t) ==
  /\ call[t] = "queued"
  /\ call' = [call EXCEPT ![t] = IF SaysNotInLoop(t) \/ callingPendFunctors_
                                   THEN "waking" ELSE "idle"]
  /\ UNCHANGED <<tid, loopVars, sharedVars, direct, issued>>

(* runInLoop: executes the functor here or queues it.  A functor executed   *)
(* here may itself make calls; a runInLoop within it that also executes     *)
(* here changes nothing of the loop and is left out.                        *)
RunInLoop(t) ==
  \/ /\ InUserCode(t)
     /\ SaysInLoop(t)
     /\ direct[t] = None
     /\ direct' = [direct EXCEPT ![t] = ThisCall(t)]
     /\ issued' = [issued EXCEPT ![t] = @ + 1]
     /\ UNCHANGED <<tid, loopVars, sharedVars, call>>
  \/ /\ ~SaysInLoop(t)
     /\ QueueInLoop(t)

(* The functor that runInLoop executed returns. *)
RunInLoopReturn(t) ==
  /\ direct[t] # None
  /\ call[t] = "idle"
  /\ direct' = [direct EXCEPT ![t] = None]
  /\ UNCHANGED <<tid, loopVars, sharedVars, call, issued>>

(* quit, up to its test: quit_ = true. *)
Quit(t) ==
  /\ InUserCode(t)
  /\ quit_' = TRUE
  /\ call' = [call EXCEPT ![t] = "quitting"]
  /\ issued' = [issued EXCEPT ![t] = @ + 1]
  /\ UNCHANGED <<tid, loopVars, pendingFunctors_, callingPendFunctors_,
                 wakeupFd_, direct>>

QuitTestSwapped(t) ==
  /\ call[t] = "quitting"
  /\ call' = [call EXCEPT ![t] = IF SaysInLoop(t) THEN "idle" ELSE "waking"]
  /\ UNCHANGED <<tid, loopVars, sharedVars, direct, issued>>

(* if(!isInLoopThread()) wakeup(). *)
QuitTest(t) ==
  /\ call[t] = "quitting"
  /\ call' = [call EXCEPT ![t] = IF SaysNotInLoop(t) THEN "waking" ELSE "idle"]
  /\ UNCHANGED <<tid, loopVars, sharedVars, direct, issued>>

(* wakeup: adds one to the eventfd's counter. *)
Wakeup(t) ==
  /\ call[t] = "waking"
  /\ wakeupFd_' = wakeupFd_ + 1
  /\ call' = [call EXCEPT ![t] = "idle"]
  /\ UNCHANGED <<tid, loopVars, quit_, pendingFunctors_, callingPendFunctors_,
                 direct, issued>>

Return(t) == QueueInLoopTest(t) \/ QuitTest(t) \/ Wakeup(t) \/ RunInLoopReturn(t)

Call(t) == QueueInLoop(t) \/ RunInLoop(t) \/ Quit(t)

-----------------------------------------------------------------------------
(* The loop.                                                                *)

(* Owner is not inside a call of its own, so loop() can go on. *)
Free == call[Owner] = "idle" /\ direct[Owner] = None

(* loop(): looping_ is set and read nowhere, quit_ is reset. *)
LoopStart ==
  /\ at = "made" /\ Free
  /\ at' = "test"
  /\ quit_' = FALSE
  /\ early' = issued[Owner]
  /\ UNCHANGED <<tid, active, functors, executed, pendingFunctors_,
                 callingPendFunctors_, wakeupFd_, callVars>>

LoopTestOnLooping ==
  /\ at = "test"
  /\ at' = "poll"
  /\ UNCHANGED <<tid, active, functors, executed, early, sharedVars, callVars>>

(* while(!quit_). *)
LoopTest ==
  /\ at = "test"
  /\ at' = IF quit_ THEN "stopped" ELSE "poll"
  /\ UNCHANGED <<tid, active, functors, executed, early, sharedVars, callVars>>

(* epoll_wait reports channels.  The eventfd is watched level-triggered:    *)
(* its channel is among them exactly when its counter is not 0.             *)
Poll ==
  /\ at = "poll"
  /\ \E ready \in SUBSET Channels \ {{}} :
       /\ "wakeup" \in ready <=> wakeupFd_ > 0
       /\ active' = ready
  /\ at' = "dispatch"
  /\ UNCHANGED <<tid, functors, executed, early, sharedVars, callVars>>

(* epoll_wait returns nothing: kPollTimeMs went by, or a signal came. *)
PollTimeout ==
  /\ at = "poll"
  /\ wakeupFd_ = 0
  /\ at' = "flag"
  /\ UNCHANGED <<tid, active, functors, executed, early, sharedVars, callVars>>

(* wakeupChannel_'s handler (the code's spelling): a read takes the whole counter. *)
HeadleRead ==
  /\ at = "dispatch"
  /\ "wakeup" \in active
  /\ active' = active \ {"wakeup"}
  /\ wakeupFd_' = 0
  /\ UNCHANGED <<tid, at, functors, executed, early, quit_, pendingFunctors_,
                 callingPendFunctors_, callVars>>

HandleIo ==
  /\ at = "dispatch"
  /\ "io" \in active
  /\ active' = active \ {"io"}
  /\ at' = "io"
  /\ UNCHANGED <<tid, functors, executed, early, sharedVars, callVars>>

HandleIoReturn ==
  /\ at = "io" /\ Free
  /\ at' = "dispatch"
  /\ UNCHANGED <<tid, active, functors, executed, early, sharedVars, callVars>>

DispatchDone ==
  /\ at = "dispatch"
  /\ active = {}
  /\ at' = "flag"
  /\ UNCHANGED <<tid, active, functors, executed, early, sharedVars, callVars>>

(* dopendingFunctors: callingPendFunctors_ = true. *)
DoPendingFunctors ==
  /\ at = "flag"
  /\ callingPendFunctors_' = TRUE
  /\ at' = "swap"
  /\ UNCHANGED <<tid, active, functors, executed, early, quit_, pendingFunctors_,
                 wakeupFd_, callVars>>

SwapFunctorsCopied ==
  /\ at = "swap"
  /\ functors' = pendingFunctors_
  /\ at' = "drain"
  /\ UNCHANGED <<tid, active, executed, early, sharedVars, callVars>>

(* functors.swap(pendingFunctors_) under mutex_; functors was just built, empty. *)
SwapFunctors ==
  /\ at = "swap"
  /\ functors' = pendingFunctors_
  /\ pendingFunctors_' = functors
  /\ at' = "drain"
  /\ UNCHANGED <<tid, active, executed, early, quit_, callingPendFunctors_,
                 wakeupFd_, callVars>>

(* The next functor of the batch is called. *)
RunFunctor ==
  /\ at = "drain"
  /\ functors # <<>>
  /\ executed' = Append(executed, Head(functors))
  /\ functors' = Tail(functors)
  /\ at' = "run"
  /\ UNCHANGED <<tid, active, early, sharedVars, callVars>>

RunFunctorReturn ==
  /\ at = "run" /\ Free
  /\ at' = "drain"
  /\ UNCHANGED <<tid, active, functors, executed, early, sharedVars, callVars>>

DrainDoneFlagLeft ==
  /\ at = "drain"
  /\ functors = <<>>
  /\ at' = "test"
  /\ UNCHANGED <<tid, active, functors, executed, early, sharedVars, callVars>>

(* The batch is done: callingPendFunctors_ = false. *)
DrainDone ==
  /\ at = "drain"
  /\ functors = <<>>
  /\ callingPendFunctors_' = FALSE
  /\ at' = "test"
  /\ UNCHANGED <<tid, active, functors, executed, early, quit_, pendingFunctors_,
                 wakeupFd_, callVars>>

Loop ==
  \/ LoopStart \/ LoopTest \/ Poll \/ PollTimeout
  \/ HeadleRead \/ HandleIo \/ HandleIoReturn \/ DispatchDone
  \/ DoPendingFunctors \/ SwapFunctors
  \/ RunFunctor \/ RunFunctorReturn \/ DrainDone

Next == Loop \/ \E t \in Threads : Call(t) \/ Return(t)

SafeSpec == Init /\ [][Next]_vars

(* The scheduler runs every thread that can run, user code returns, and     *)
(* loop() is entered by the thread that constructed the loop; epoll_wait    *)
(* returns after kPollTimeMs at the latest.  Nobody has to call anything.   *)
Fairness == WF_vars(Loop) /\ \A t \in Threads : WF_vars(Return(t))

Spec == SafeSpec /\ Fairness

-----------------------------------------------------------------------------
(* Types, and the control points at which a variable can be other than at rest. *)
TypeOK ==
  /\ tid \in [Threads -> Tids]
  /\ at \in Points
  /\ active \in SUBSET Channels
  /\ quit_ \in BOOLEAN
  /\ pendingFunctors_ \in Seq(Functor)
  /\ callingPendFunctors_ \in BOOLEAN
  /\ callingPendFunctors_ <=> at \in {"swap", "drain", "run"}
  /\ wakeupFd_ \in Nat
  /\ functors \in Seq(Functor)
  /\ at \notin {"drain", "run"} => functors = <<>>
  /\ executed \in Seq(Functor)
  /\ call \in [Threads -> CallPoints]
  /\ direct \in [Threads -> Functor \cup {None}]
  /\ issued \in [Threads -> 0..MaxCalls]
  /\ early \in 0..MaxCalls

(* No wake-up is lost: a loop asleep in epoll_wait with nothing to wake it  *)
(* has in its queue only functors whose queueInLoop is still on its way to  *)
(* the eventfd, apart from those the code never announces: Owner's, queued  *)
(* before loop(), and another thread's, when the low byte of its id is 1.   *)
Unannounced(f) ==
  /\ tid[f[1]] % 256 = 1
  /\ f[1] = Owner => f[2] <= early

NoLostWakeup ==
  at = "poll" /\ wakeupFd_ = 0 =>
    \A i \in DOMAIN pendingFunctors_ :
      LET f == pendingFunctors_[i]
      IN  \/ call[f[1]] \in {"queued", "waking"} /\ f[2] = issued[f[1]]
          \/ Unannounced(f)

(* No quit is lost in the poll: a loop asleep with quit_ set and nothing to *)
(* wake it has a quit() on its way to the eventfd, unless a thread other    *)
(* than Owner has 1 as the low byte of its id and so never writes to it.    *)
NoLostQuit ==
  at = "poll" /\ quit_ /\ wakeupFd_ = 0 =>
    \E t \in Threads \ {Owner} :
      call[t] \in {"quitting", "waking"} \/ tid[t] % 256 = 1

(* The queue is what its callers are told: in order, once each, and nobody  *)
(* waits for ever in a loop that has not stopped, even where a wake-up is   *)
(* not sent, because epoll_wait has a timeout.                              *)
Queue == INSTANCE FunctorQueue WITH
           waiting <- functors \o pendingFunctors_,
           ran <- executed,
           open <- at # "stopped"

Promise == Queue!Spec

(* A quit() that finds loop() running stops it. *)
QuitStops == quit_ /\ at \notin {"made", "stopped"} ~> at = "stopped"

(* EventLoop.h:28 and EventLoop.cc:104 on quit(): it leaves the loop of     *)
(* events, called in the loop's own thread or in another.                   *)
QuitIsHeeded == quit_ ~> at = "stopped"

(* EventLoop.cc:124 on runInLoop: called outside the loop's thread, it      *)
(* wakes that thread and the functor is executed there.                     *)
RunsInLoopThread == \A t \in Threads \ {Owner} : direct[t] = None
=============================================================================

--------------------------- MODULE EventLoopProofs ---------------------------
(***************************************************************************)
(* Proofs about EventLoop, for any number of threads and calls and any     *)
(* thread ids.  NoLostWakeup is not inductive: that a loop asleep with     *)
(* functors in its queue is woken rests on where the loop has been since   *)
(* each functor was pushed, and Announced says so for every control point. *)
(***************************************************************************)
EXTENDS EventLoop, SequenceTheorems, TLAPS

-----------------------------------------------------------------------------
(* Types.                                                                   *)

LEMMA InitTypeOK == Init => TypeOK
<1> SUFFICES ASSUME Init PROVE TypeOK
  OBVIOUS
<1>1. tid \in [Threads -> Tids]
  BY DEF Init
<1>2. issued \in [Threads -> 0..MaxCalls] /\ early \in 0..MaxCalls
  BY MaxCallsAssumption DEF Init
<1>3. call \in [Threads -> CallPoints] /\ direct \in [Threads -> Functor \cup {None}]
  BY DEF Init, CallPoints
<1>4. QED
  BY <1>1, <1>2, <1>3, EmptySeq DEF Init, TypeOK, Points, Channels

LEMMA CallTypeOK ==
  ASSUME TypeOK, NEW t \in Threads, Call(t)
  PROVE  TypeOK'
<1>0. InUserCode(t)
  BY DEF Call, QueueInLoop, RunInLoop, Quit
<1>1. ThisCall(t) \in Functor /\ issued[t] + 1 \in 0..MaxCalls
  <2>1. issued[t] \in Nat /\ issued[t] + 1 \in 1..MaxCalls
    BY <1>0, MaxCallsAssumption DEF TypeOK, InUserCode
  <2>2. QED
    BY <2>1 DEF ThisCall, Functor
<1>2. CASE QueueInLoop(t)
  <2>1. pendingFunctors_' \in Seq(Functor)
    BY <1>1, <1>2, AppendProperties DEF TypeOK, QueueInLoop
  <2>2. QED
    BY <1>1, <1>2, <2>1 DEF TypeOK, QueueInLoop, loopVars, CallPoints
<1>3. CASE RunInLoop(t)
  <2>1. CASE ~SaysInLoop(t)
    BY <1>2, <1>3, <2>1 DEF RunInLoop
  <2>2. CASE SaysInLoop(t)
    <3>1. /\ direct' = [direct EXCEPT ![t] = ThisCall(t)]
          /\ issued' = [issued EXCEPT ![t] = @ + 1]
          /\ UNCHANGED <<tid, loopVars, sharedVars, call>>
      BY <1>3, <2>2 DEF RunInLoop
    <3>2. direct' \in [Threads -> Functor \cup {None}]
      BY <1>1, <3>1 DEF TypeOK
    <3>3. QED
      BY <1>1, <3>1, <3>2 DEF TypeOK, loopVars, sharedVars
  <2>3. QED
    BY <2>1, <2>2
<1>4. CASE Quit(t)
  BY <1>1, <1>4 DEF TypeOK, Quit, loopVars, CallPoints
<1>5. QED
  BY <1>2, <1>3, <1>4 DEF Call

LEMMA ReturnTypeOK ==
  ASSUME TypeOK, NEW t \in Threads, Return(t)
  PROVE  TypeOK'
<1>1. CASE QueueInLoopTest(t)
  BY <1>1 DEF TypeOK, QueueInLoopTest, loopVars, sharedVars, CallPoints
<1>2. CASE QuitTest(t)
  BY <1>2 DEF TypeOK, QuitTest, loopVars, sharedVars, CallPoints
<1>3. CASE Wakeup(t)
  BY <1>3 DEF TypeOK, Wakeup, loopVars, CallPoints
<1>4. CASE RunInLoopReturn(t)
  BY <1>4 DEF TypeOK, RunInLoopReturn, loopVars, sharedVars
<1>5. QED
  BY <1>1, <1>2, <1>3, <1>4 DEF Return

LEMMA LoopTypeOK ==
  ASSUME TypeOK, Loop
  PROVE  TypeOK'
<1> USE DEF TypeOK, Points, sharedVars, callVars
<1>1. CASE LoopStart
  BY <1>1, OwnerAssumption DEF LoopStart
<1>2. CASE LoopTest
  BY <1>2 DEF LoopTest
<1>3. CASE Poll
  BY <1>3 DEF Poll
<1>4. CASE PollTimeout
  BY <1>4 DEF PollTimeout
<1>5. CASE HeadleRead
  BY <1>5 DEF HeadleRead
<1>6. CASE HandleIo
  BY <1>6 DEF HandleIo
<1>7. CASE HandleIoReturn
  BY <1>7 DEF HandleIoReturn
<1>8. CASE DispatchDone
  BY <1>8 DEF DispatchDone
<1>9. CASE DoPendingFunctors
  BY <1>9 DEF DoPendingFunctors
<1>10. CASE SwapFunctors
  BY <1>10 DEF SwapFunctors
<1>11. CASE RunFunctor
  <2>1. Tail(functors) \in Seq(Functor) /\ Head(functors) \in Functor
    BY <1>11, HeadTailProperties DEF RunFunctor
  <2>2. executed' \in Seq(Functor)
    BY <1>11, <2>1, AppendProperties DEF RunFunctor
  <2>3. QED
    BY <1>11, <2>1, <2>2 DEF RunFunctor
<1>12. CASE RunFunctorReturn
  BY <1>12 DEF RunFunctorReturn
<1>13. CASE DrainDone
  BY <1>13 DEF DrainDone
<1>14. QED
  BY <1>1, <1>2, <1>3, <1>4, <1>5, <1>6, <1>7, <1>8, <1>9, <1>10, <1>11,
     <1>12, <1>13 DEF Loop

LEMMA NextTypeOK == TypeOK /\ [Next]_vars => TypeOK'
<1>1. ASSUME TypeOK, UNCHANGED vars
      PROVE  TypeOK'
  BY <1>1 DEF TypeOK, vars, loopVars, sharedVars, callVars
<1>2. QED
  BY <1>1, CallTypeOK, ReturnTypeOK, LoopTypeOK DEF Next

(* Every variable keeps its type, callingPendFunctors_ is raised exactly    *)
(* while dopendingFunctors swaps and runs its batch, and the batch is empty *)
(* outside its for loop (EventLoop.cc:173-189).                             *)
THEOREM TypeCorrect == Spec => []TypeOK
BY InitTypeOK, NextTypeOK, PTL DEF Spec, SafeSpec

-----------------------------------------------------------------------------
(* The wake-up.                                                             *)

(* Owner is inside queueInLoop or quit only where user code runs. *)
OwnerCalls == call[Owner] # "idle" => at \in {"made", "io", "run"}

(* No functor carries a number its thread has not reached. *)
Numbered == \A i \in DOMAIN pendingFunctors_ :
              pendingFunctors_[i][2] <= issued[pendingFunctors_[i][1]]

(* Why functor f, in the queue, does not wait for the poll's timeout: its   *)
(* queueInLoop is on its way to the eventfd, or the eventfd is raised, or   *)
(* the loop swaps the queue before it polls again; or nobody announces it.  *)
Announced(f) ==
  \/ call[f[1]] \in {"queued", "waking"} /\ f[2] = issued[f[1]]
  \/ wakeupFd_ > 0
  \/ at \in {"dispatch", "io", "flag", "swap"}
  \/ at = "made" /\ f[1] = Owner /\ tid[Owner] % 256 = 1
  \/ Unannounced(f)

WakeInv ==
  /\ OwnerCalls
  /\ Numbered
  /\ \A i \in DOMAIN pendingFunctors_ : Announced(pendingFunctors_[i])

LEMMA PendingIsFunctor ==
  ASSUME TypeOK, NEW i \in DOMAIN pendingFunctors_
  PROVE  /\ pendingFunctors_[i] \in Functor
         /\ pendingFunctors_[i][1] \in Threads
         /\ pendingFunctors_[i][2] \in Nat
<1>1. pendingFunctors_[i] \in Functor
  BY ElementOfSeq DEF TypeOK
<1>2. QED
  BY <1>1 DEF Functor

LEMMA InitWake == Init => WakeInv
BY OwnerAssumption DEF Init, WakeInv, OwnerCalls, Numbered

LEMMA QueueInLoopWake ==
  ASSUME TypeOK, WakeInv, NEW t \in Threads, QueueInLoop(t)
  PROVE  WakeInv'
<1>1. /\ ThisCall(t) = <<t, issued[t] + 1>>
      /\ ThisCall(t) \in Functor
      /\ call[t] = "idle"
      /\ t = Owner => at \in {"made", "io", "run"}
      /\ issued[t] \in Nat
  <2>1. InUserCode(t)
    BY DEF QueueInLoop
  <2>2. issued[t] \in Nat /\ issued[t] + 1 \in 1..MaxCalls
    BY <2>1, MaxCallsAssumption DEF TypeOK, InUserCode
  <2>3. QED
    BY <2>1, <2>2 DEF InUserCode, ThisCall, Functor
<1>2. /\ pendingFunctors_' = Append(pendingFunctors_, ThisCall(t))
      /\ call' = [call EXCEPT ![t] = "queued"]
      /\ issued' = [issued EXCEPT ![t] = @ + 1]
      /\ UNCHANGED <<tid, at, early, wakeupFd_>>
  BY DEF QueueInLoop, loopVars
<1>3. OwnerCalls'
  BY <1>1, <1>2, OwnerAssumption DEF TypeOK, WakeInv, OwnerCalls
<1>4. ASSUME NEW i \in DOMAIN pendingFunctors_'
      PROVE  /\ pendingFunctors_'[i][2] <= issued'[pendingFunctors_'[i][1]]
             /\ Announced(pendingFunctors_[i])'
  <2>1. /\ i \in 1..(Len(pendingFunctors_) + 1)
        /\ pendingFunctors_'[i] = IF i <= Len(pendingFunctors_)
                                    THEN pendingFunctors_[i] ELSE ThisCall(t)
    BY <1>1, <1>2, <1>4, AppendProperties DEF TypeOK
  <2>2. CASE i \in DOMAIN pendingFunctors_
    <3>1. pendingFunctors_'[i] = pendingFunctors_[i]
      BY <2>1, <2>2, LenProperties DEF TypeOK
    <3>2. /\ pendingFunctors_[i][1] \in Threads
          /\ pendingFunctors_[i][2] \in Nat
          /\ pendingFunctors_[i][2] <= issued[pendingFunctors_[i][1]]
          /\ Announced(pendingFunctors_[i])
      BY <2>2, PendingIsFunctor DEF WakeInv, Numbered
    <3>3. pendingFunctors_'[i][2] <= issued'[pendingFunctors_'[i][1]]
      BY <1>1, <1>2, <3>1, <3>2, MaxCallsAssumption DEF TypeOK
    <3>4. CASE pendingFunctors_[i][1] = t
      <4>1. \/ wakeupFd_ > 0
            \/ at \in {"dispatch", "io", "flag", "swap"}
            \/ at = "made" /\ t = Owner /\ tid[Owner] % 256 = 1
            \/ Unannounced(pendingFunctors_[i])
        BY <1>1, <3>2, <3>4 DEF Announced
      <4>2. Announced(pendingFunctors_[i])'
        BY <1>2, <3>1, <3>4, <4>1 DEF Announced, Unannounced
      <4>3. QED
        BY <3>3, <4>2
    <3>5. CASE pendingFunctors_[i][1] # t
      <4>1. /\ call'[pendingFunctors_[i][1]] = call[pendingFunctors_[i][1]]
            /\ issued'[pendingFunctors_[i][1]] = issued[pendingFunctors_[i][1]]
        BY <1>2, <3>2, <3>5 DEF TypeOK
      <4>2. Announced(pendingFunctors_[i])'
        BY <1>2, <3>1, <3>2, <4>1 DEF Announced, Unannounced
      <4>3. QED
        BY <3>3, <4>2
    <3>6. QED
      BY <3>4, <3>5
  <2>3. CASE i \notin DOMAIN pendingFunctors_
    <3>1. pendingFunctors_'[i] = <<t, issued[t] + 1>>
      BY <1>1, <2>1, <2>3, LenProperties DEF TypeOK
    <3>2. QED
      BY <1>1, <1>2, <3>1 DEF TypeOK, Announced
  <2>4. QED
    BY <2>2, <2>3
<1>5. QED
  BY <1>3, <1>4 DEF WakeInv, Numbered

(* Most steps leave the queue alone: it is enough that each functor in it   *)
(* stays numbered and announced.                                            *)
LEMMA KeepWake ==
  ASSUME TypeOK, WakeInv, OwnerCalls', UNCHANGED pendingFunctors_,
         \A t \in Threads : issued'[t] \in Nat /\ issued[t] <= issued'[t],
         \A f \in Functor : f[2] <= issued[f[1]] /\ Announced(f) => Announced(f)'
  PROVE  WakeInv'
<1>1. ASSUME NEW i \in DOMAIN pendingFunctors_'
      PROVE  /\ pendingFunctors_'[i][2] <= issued'[pendingFunctors_'[i][1]]
             /\ Announced(pendingFunctors_[i])'
  <2>1. i \in DOMAIN pendingFunctors_ /\ pendingFunctors_'[i] = pendingFunctors_[i]
    OBVIOUS
  <2>2. /\ pendingFunctors_[i] \in Functor
        /\ pendingFunctors_[i][1] \in Threads
        /\ pendingFunctors_[i][2] \in Nat
        /\ pendingFunctors_[i][2] <= issued[pendingFunctors_[i][1]]
        /\ Announced(pendingFunctors_[i])
    BY <2>1, PendingIsFunctor DEF WakeInv, Numbered
  <2>3. issued[pendingFunctors_[i][1]] \in Nat
    BY <2>2, MaxCallsAssumption DEF TypeOK
  <2>4. pendingFunctors_'[i][2] <= issued'[pendingFunctors_'[i][1]]
    BY <2>1, <2>2, <2>3
  <2>5. Announced(pendingFunctors_[i])'
    BY <2>1, <2>2 DEF Announced, Unannounced
  <2>6. QED
    BY <2>4, <2>5
<1>2. QED
  BY <1>1 DEF WakeInv, Numbered

LEMMA CallWake ==
  ASSUME TypeOK, WakeInv, NEW t \in Threads, Call(t)
  PROVE  WakeInv'
<1>1. call[t] = "idle"
  BY DEF Call, QueueInLoop, RunInLoop, Quit, InUserCode
<1>2. CASE QueueInLoop(t)
  BY <1>2, QueueInLoopWake
<1>3. ASSUME issued' = [issued EXCEPT ![t] = @ + 1],
             call' = call \/ call' = [call EXCEPT ![t] = "quitting"],
             UNCHANGED <<tid, at, early, wakeupFd_, pendingFunctors_>>,
             t = Owner => at \in {"made", "io", "run"}
      PROVE  WakeInv'
  <2>1. OwnerCalls'
    BY <1>3, OwnerAssumption DEF TypeOK, WakeInv, OwnerCalls
  <2>2. \A s \in Threads : issued'[s] \in Nat /\ issued[s] <= issued'[s]
    BY <1>3, MaxCallsAssumption DEF TypeOK
  <2>3. ASSUME NEW f \in Functor, Announced(f)
        PROVE  Announced(f)'
    <3>1. CASE f[1] = t
      <4>1. \/ wakeupFd_ > 0
            \/ at \in {"dispatch", "io", "flag", "swap"}
            \/ at = "made" /\ f[1] = Owner /\ tid[Owner] % 256 = 1
            \/ Unannounced(f)
        BY <1>1, <2>3, <3>1 DEF Announced
      <4>2. QED
        BY <1>3, <4>1 DEF Announced, Unannounced
    <3>2. CASE f[1] # t
      <4>1. f[1] \in Threads
        BY DEF Functor
      <4>2. call'[f[1]] = call[f[1]] /\ issued'[f[1]] = issued[f[1]]
        BY <1>3, <3>2, <4>1 DEF TypeOK
      <4>3. QED
        BY <1>3, <2>3, <4>2 DEF Announced, Unannounced
    <3>3. QED
      BY <3>1, <3>2
  <2>4. QED
    BY <1>3, <2>1, <2>2, <2>3, KeepWake
<1>4. CASE RunInLoop(t)
  <2>1. CASE ~SaysInLoop(t)
    BY <1>2, <1>4, <2>1 DEF RunInLoop
  <2>2. CASE SaysInLoop(t)
    BY <1>3, <1>4, <2>2 DEF RunInLoop, InUserCode, loopVars, sharedVars
  <2>3. QED
    BY <2>1, <2>2
<1>5. CASE Quit(t)
  BY <1>3, <1>5 DEF Quit, InUserCode, loopVars
<1>6. QED
  BY <1>2, <1>4, <1>5 DEF Call

(* Of the steps of a call only queueInLoop's test can leave a functor       *)
(* without the write it was counting on.                                    *)
LEMMA ReturnWake ==
  ASSUME TypeOK, WakeInv, NEW t \in Threads, Return(t)
  PROVE  WakeInv'
<1>1. UNCHANGED <<tid, at, early, issued, pendingFunctors_, callingPendFunctors_>>
  BY DEF Return, QueueInLoopTest, QuitTest, Wakeup, RunInLoopReturn, loopVars, sharedVars
<1>2. \A s \in Threads : issued'[s] \in Nat /\ issued[s] <= issued'[s]
  BY <1>1, MaxCallsAssumption DEF TypeOK
<1>3. OwnerCalls'
  BY <1>1, OwnerAssumption
     DEF TypeOK, WakeInv, OwnerCalls, Return, QueueInLoopTest, QuitTest, Wakeup,
         RunInLoopReturn
<1>4. ASSUME NEW f \in Functor, Announced(f)
      PROVE  Announced(f)'
  <2>1. f[1] \in Threads /\ call \in [Threads -> CallPoints]
    BY DEF Functor, TypeOK
  <2>2. CASE QueueInLoopTest(t)
    <3>1. /\ call[t] = "queued"
          /\ call' = [call EXCEPT ![t] = IF SaysNotInLoop(t) \/ callingPendFunctors_
                                           THEN "waking" ELSE "idle"]
          /\ UNCHANGED wakeupFd_
      BY <2>2 DEF QueueInLoopTest, sharedVars
    <3>2. CASE f[1] # t \/ SaysNotInLoop(t) \/ callingPendFunctors_
      <4>1. call[f[1]] \in {"queued", "waking"} => call'[f[1]] \in {"queued", "waking"}
        BY <2>1, <3>1, <3>2
      <4>2. QED
        BY <1>1, <1>4, <3>1, <4>1 DEF Announced, Unannounced
    <3>3. CASE f[1] = t /\ tid[t] % 256 = 1 /\ ~callingPendFunctors_
      <4>1. t = Owner => at \in {"made", "io"}
        BY <3>1, <3>3 DEF WakeInv, OwnerCalls, TypeOK
      <4>2. QED
        BY <1>1, <3>3, <4>1 DEF Announced, Unannounced
    <3>4. QED
      BY <3>2, <3>3 DEF SaysNotInLoop
  <2>3. CASE QuitTest(t)
    <3>1. /\ call[t] = "quitting"
          /\ \A s \in Threads \ {t} : call'[s] = call[s]
          /\ UNCHANGED wakeupFd_
      BY <2>1, <2>3 DEF QuitTest, sharedVars
    <3>2. call[f[1]] \in {"queued", "waking"} => call'[f[1]] \in {"queued", "waking"}
      BY <2>1, <3>1
    <3>3. QED
      BY <1>1, <1>4, <3>1, <3>2 DEF Announced, Unannounced
  <2>4. CASE Wakeup(t)
    <3>1. wakeupFd_' > 0
      BY <2>4 DEF Wakeup, TypeOK
    <3>2. QED
      BY <3>1 DEF Announced
  <2>5. CASE RunInLoopReturn(t)
    <3>1. UNCHANGED <<call, wakeupFd_>>
      BY <2>5 DEF RunInLoopReturn, sharedVars
    <3>2. QED
      BY <1>1, <1>4, <3>1 DEF Announced, Unannounced
  <2>6. QED
    BY <2>2, <2>3, <2>4, <2>5 DEF Return
<1>5. QED
  BY <1>1, <1>2, <1>3, <1>4, KeepWake

LEMMA LoopWake ==
  ASSUME TypeOK, WakeInv, Loop
  PROVE  WakeInv'
<1>1. CASE SwapFunctors
  <2>1. pendingFunctors_' = <<>> /\ UNCHANGED call
    BY <1>1 DEF SwapFunctors, TypeOK, callVars
  <2>2. DOMAIN pendingFunctors_' = {}
    BY <2>1
  <2>3. OwnerCalls'
    BY <1>1, <2>1 DEF SwapFunctors, WakeInv, OwnerCalls
  <2>4. QED
    BY <2>2, <2>3 DEF WakeInv, Numbered
<1>2. CASE ~SwapFunctors
  <2>1. UNCHANGED <<tid, pendingFunctors_, call, issued>>
    BY <1>2 DEF Loop, LoopStart, LoopTest, Poll, PollTimeout, HeadleRead, HandleIo,
         HandleIoReturn, DispatchDone, DoPendingFunctors, RunFunctor, RunFunctorReturn,
         DrainDone, sharedVars, callVars
  <2>2. OwnerCalls'
    BY <1>2, <2>1
       DEF WakeInv, OwnerCalls, Free, Loop, LoopStart, LoopTest, Poll, PollTimeout,
           HeadleRead, HandleIo, HandleIoReturn, DispatchDone, DoPendingFunctors,
           RunFunctor, RunFunctorReturn, DrainDone
  <2>3. \A s \in Threads : issued'[s] \in Nat /\ issued[s] <= issued'[s]
    BY <2>1, MaxCallsAssumption DEF TypeOK
  <2>4. ASSUME NEW f \in Functor, f[2] <= issued[f[1]], Announced(f)
        PROVE  Announced(f)'
    <3>1. CASE LoopStart
      <4>1. early' = issued[Owner] /\ UNCHANGED wakeupFd_
        BY <3>1 DEF LoopStart
      <4>2. CASE f[1] = Owner /\ tid[Owner] % 256 = 1
        BY <2>1, <2>4, <4>1, <4>2 DEF Announced, Unannounced
      <4>3. CASE ~(f[1] = Owner /\ tid[Owner] % 256 = 1)
        BY <2>1, <2>4, <3>1, <4>1, <4>3 DEF LoopStart, Announced, Unannounced
      <4>4. QED
        BY <4>2, <4>3
    <3>2. CASE at' \in {"dispatch", "io", "flag", "swap"}
      BY <3>2 DEF Announced
    <3>3. CASE ~LoopStart /\ at' \notin {"dispatch", "io", "flag", "swap"}
      <4>1. /\ UNCHANGED <<wakeupFd_, early>>
            /\ at \notin {"made", "dispatch", "io", "flag", "swap"}
        BY <1>2, <3>3
           DEF Loop, LoopTest, Poll, PollTimeout, HeadleRead, HandleIo,
               HandleIoReturn, DispatchDone, DoPendingFunctors, RunFunctor,
               RunFunctorReturn, DrainDone, sharedVars
      <4>2. QED
        BY <2>1, <2>4, <4>1 DEF Announced, Unannounced
    <3>4. QED
      BY <3>1, <3>2, <3>3
  <2>5. QED
    BY <2>1, <2>2, <2>3, <2>4, KeepWake
<1>3. QED
  BY <1>1, <1>2

LEMMA NextWake == TypeOK /\ WakeInv /\ [Next]_vars => WakeInv'
<1>1. ASSUME WakeInv, UNCHANGED vars
      PROVE  WakeInv'
  BY <1>1 DEF WakeInv, OwnerCalls, Numbered, Announced, Unannounced, vars,
              loopVars, sharedVars, callVars
<1>2. QED
  BY <1>1, CallWake, ReturnWake, LoopWake DEF Next

LEMMA WakeInvWakes == WakeInv => NoLostWakeup
BY DEF WakeInv, Announced, NoLostWakeup

(* For any number of threads and calls and any thread ids, the only         *)
(* functors a loop can sleep on in epoll_wait are those whose queueInLoop   *)
(* never writes to wakeupFd_ (EventLoop.cc:140-143).                        *)
THEOREM NoWakeupIsLost == Spec => []NoLostWakeup
<1>1. Spec => [](TypeOK /\ WakeInv)
  BY InitTypeOK, InitWake, NextTypeOK, NextWake, PTL DEF Spec, SafeSpec
<1>2. QED
  BY <1>1, WakeInvWakes, PTL

-----------------------------------------------------------------------------
(* quit().                                                                  *)

LEMMA CallQuit ==
  ASSUME TypeOK, NoLostQuit, NEW t \in Threads, Call(t)
  PROVE  NoLostQuit'
<1>1. /\ call[t] = "idle"
      /\ t = Owner => at # "poll"
      /\ UNCHANGED <<tid, at, wakeupFd_>>
      /\ \A s \in Threads \ {t} : call'[s] = call[s]
  BY DEF TypeOK, Call, QueueInLoop, RunInLoop, Quit, InUserCode, loopVars, sharedVars
<1>2. CASE Quit(t)
  <2>1. call'[t] = "quitting"
    BY <1>2 DEF TypeOK, Quit
  <2>2. QED
    BY <1>1, <2>1 DEF NoLostQuit
<1>3. CASE ~Quit(t)
  <2>1. UNCHANGED quit_
    BY <1>3 DEF Call, QueueInLoop, RunInLoop, sharedVars
  <2>2. QED
    BY <1>1, <2>1 DEF NoLostQuit
<1>4. QED
  BY <1>2, <1>3

LEMMA ReturnQuit ==
  ASSUME TypeOK, NoLostQuit, NEW t \in Threads, Return(t)
  PROVE  NoLostQuit'
<1>1. /\ UNCHANGED <<tid, at, quit_>>
      /\ \A s \in Threads \ {t} : call'[s] = call[s]
      /\ call \in [Threads -> CallPoints]
  BY DEF TypeOK, Return, QueueInLoopTest, QuitTest, Wakeup, RunInLoopReturn,
         loopVars, sharedVars
<1>2. CASE Wakeup(t)
  <2>1. wakeupFd_' > 0
    BY <1>2 DEF TypeOK, Wakeup
  <2>2. QED
    BY <2>1 DEF NoLostQuit
<1>3. CASE ~Wakeup(t)
  <2>1. UNCHANGED wakeupFd_
    BY <1>3 DEF Return, QueueInLoopTest, QuitTest, RunInLoopReturn, sharedVars
  <2>2. call[t] \in {"quitting", "waking"} => call'[t] = "waking" \/ tid[t] % 256 = 1
    BY <1>1, <1>3
       DEF Return, QueueInLoopTest, QuitTest, RunInLoopReturn, SaysNotInLoop
  <2>3. QED
    BY <1>1, <2>1, <2>2 DEF NoLostQuit
<1>4. QED
  BY <1>2, <1>3

LEMMA NextQuit == TypeOK /\ NoLostQuit /\ [Next]_vars => NoLostQuit'
<1>1. ASSUME NoLostQuit, UNCHANGED vars
      PROVE  NoLostQuit'
  BY <1>1 DEF NoLostQuit, vars, loopVars, sharedVars, callVars
<1>2. ASSUME TypeOK, NoLostQuit, Loop
      PROVE  NoLostQuit'
  BY <1>2 DEF NoLostQuit, Loop, LoopStart, LoopTest, Poll, PollTimeout, HeadleRead,
              HandleIo, HandleIoReturn, DispatchDone, DoPendingFunctors, SwapFunctors,
              RunFunctor, RunFunctorReturn, DrainDone, sharedVars, callVars
<1>3. QED
  BY <1>1, <1>2, CallQuit, ReturnQuit DEF Next

(* quit_ is tested before epoll_wait and written before the eventfd, so no  *)
(* loop sleeps on a quit() that is going to write (EventLoop.cc:106-115).   *)
THEOREM NoQuitIsLost == Spec => []NoLostQuit
<1>1. Init => NoLostQuit
  BY DEF Init, NoLostQuit
<1>2. QED
  BY <1>1, InitTypeOK, NextTypeOK, NextQuit, PTL DEF Spec, SafeSpec

-----------------------------------------------------------------------------
(* The queue.                                                               *)

(* The batch in front of the queue is the queue of the abstraction: a push  *)
(* adds at its end, and taking from the batch is taking from its front.     *)
LEMMA PushAtEnd ==
  ASSUME NEW S, NEW r \in Seq(S), NEW s \in Seq(S), NEW e \in S
  PROVE  r \o Append(s, e) = Append(r \o s, e)
<1>1. <<e>> \in Seq(S) /\ r \o s \in Seq(S)
  BY ConcatProperties
<1>2. r \o (s \o <<e>>) = (r \o s) \o <<e>>
  BY <1>1, ConcatAssociative
<1>3. QED
  BY <1>1, <1>2, AppendIsConcat

LEMMA TakeFromFront ==
  ASSUME NEW S, NEW r \in Seq(S), NEW s \in Seq(S), r # <<>>
  PROVE  /\ r \o s # <<>>
         /\ Head(r \o s) = Head(r)
         /\ Tail(r \o s) = Tail(r) \o s
<1>1. /\ r \o s \in Seq(S)
      /\ Len(r \o s) = Len(r) + Len(s)
      /\ \A i \in 1..(Len(r) + Len(s)) :
           (r \o s)[i] = IF i <= Len(r) THEN r[i] ELSE s[i - Len(r)]
  BY ConcatProperties
<1>2. Len(r) \in Nat /\ Len(r) > 0 /\ Len(s) \in Nat
  BY EmptySeq, LenProperties
<1>3. r \o s # <<>>
  BY <1>1, <1>2, EmptySeq
<1>4. Head(r \o s) = Head(r)
  BY <1>1, <1>2
<1>5. /\ Tail(r) \in Seq(S) /\ Len(Tail(r)) = Len(r) - 1
      /\ \A i \in 1..(Len(r) - 1) : Tail(r)[i] = r[i + 1]
  BY HeadTailProperties
<1>6. /\ Tail(r \o s) \in Seq(S) /\ Len(Tail(r \o s)) = Len(r) + Len(s) - 1
      /\ \A i \in 1..(Len(r) + Len(s) - 1) : Tail(r \o s)[i] = (r \o s)[i + 1]
  BY <1>1, <1>3, HeadTailProperties
<1>7. /\ Tail(r) \o s \in Seq(S) /\ Len(Tail(r) \o s) = Len(r) - 1 + Len(s)
      /\ \A i \in 1..(Len(r) - 1 + Len(s)) :
           (Tail(r) \o s)[i] = IF i <= Len(r) - 1 THEN Tail(r)[i]
                                                 ELSE s[i - (Len(r) - 1)]
  BY <1>5, ConcatProperties
<1>8. ASSUME NEW i \in 1..(Len(r) + Len(s) - 1)
      PROVE  Tail(r \o s)[i] = (Tail(r) \o s)[i]
  BY <1>1, <1>2, <1>5, <1>6, <1>7
<1>9. Tail(r \o s) = Tail(r) \o s
  BY <1>2, <1>6, <1>7, <1>8, SeqEqual
<1>10. QED
  BY <1>3, <1>4, <1>9

LEMMA CallQueues ==
  ASSUME TypeOK, NEW t \in Threads, Call(t)
  PROVE  [Queue!Next]_(Queue!vars)
<1>1. CASE QueueInLoop(t)
  <2>1. ThisCall(t) \in Functor
    <3>1. issued[t] \in Nat /\ issued[t] + 1 \in 1..MaxCalls
      BY <1>1, MaxCallsAssumption DEF TypeOK, QueueInLoop, InUserCode
    <3>2. QED
      BY <3>1 DEF ThisCall, Functor
  <2>2. functors \o Append(pendingFunctors_, ThisCall(t))
          = Append(functors \o pendingFunctors_, ThisCall(t))
    BY <2>1, PushAtEnd DEF TypeOK
  <2>3. Queue!Queue(ThisCall(t))
    BY <1>1, <2>2 DEF QueueInLoop, loopVars, Queue!Queue
  <2>4. QED
    BY <2>1, <2>3 DEF Queue!Next
<1>2. CASE ~QueueInLoop(t)
  BY <1>2 DEF Call, RunInLoop, Quit, loopVars, sharedVars, Queue!vars
<1>3. QED
  BY <1>1, <1>2

LEMMA LoopQueues ==
  ASSUME TypeOK, Loop
  PROVE  [Queue!Next]_(Queue!vars)
<1>1. CASE RunFunctor
  <2>1. /\ functors \o pendingFunctors_ # <<>>
        /\ Head(functors \o pendingFunctors_) = Head(functors)
        /\ Tail(functors \o pendingFunctors_) = Tail(functors) \o pendingFunctors_
    BY <1>1, TakeFromFront DEF TypeOK, RunFunctor
  <2>2. Queue!Run
    BY <1>1, <2>1 DEF RunFunctor, sharedVars, Queue!Run
  <2>3. QED
    BY <2>2 DEF Queue!Next
<1>2. CASE SwapFunctors
  <2>1. functors = <<>> /\ functors' = pendingFunctors_ /\ pendingFunctors_' = <<>>
    BY <1>2 DEF TypeOK, SwapFunctors
  <2>2. functors' \o pendingFunctors_' = functors \o pendingFunctors_
    BY <2>1, ConcatEmptySeq DEF TypeOK
  <2>3. QED
    BY <1>2, <2>2 DEF SwapFunctors, Queue!vars
<1>3. CASE LoopTest
  BY <1>3 DEF LoopTest, sharedVars, Queue!vars, Queue!Next, Queue!Close
<1>4. CASE ~(RunFunctor \/ SwapFunctors \/ LoopTest)
  BY <1>4 DEF Loop, LoopStart, Poll, PollTimeout, HeadleRead, HandleIo, HandleIoReturn,
              DispatchDone, DoPendingFunctors, RunFunctorReturn, DrainDone, sharedVars,
              Queue!vars
<1>5. QED
  BY <1>1, <1>2, <1>3, <1>4

(* EventLoop implements the safety part of FunctorQueue: functors are       *)
(* executed once each and in the order they were queued, however queueing   *)
(* interleaves with the swap (EventLoop.cc:131-136 and 173-189).            *)
THEOREM QueueIsImplemented == Spec => Queue!SafeSpec
<1>1. Init => Queue!Init
  <2> SUFFICES ASSUME Init PROVE Queue!Init
    OBVIOUS
  <2>2. functors = <<>> /\ pendingFunctors_ = <<>> /\ executed = <<>> /\ at # "stopped"
    BY DEF Init
  <2>3. <<>> \in Seq(Functor)
    BY EmptySeq
  <2>4. functors \o pendingFunctors_ = <<>>
    BY <2>2, <2>3, ConcatEmptySeq
  <2>5. QED
    BY <2>2, <2>4 DEF Queue!Init
<1>2. TypeOK /\ [Next]_vars => [Queue!Next]_(Queue!vars)
  <2>1. ASSUME NEW t \in Threads, Return(t)
        PROVE  UNCHANGED Queue!vars
    BY <2>1 DEF Return, QueueInLoopTest, QuitTest, Wakeup, RunInLoopReturn, loopVars,
                sharedVars, Queue!vars
  <2>2. CASE UNCHANGED vars
    BY <2>2 DEF vars, loopVars, sharedVars, Queue!vars
  <2>3. QED
    BY <2>1, <2>2, CallQueues, LoopQueues DEF Next
<1>3. QED
  BY <1>1, <1>2, InitTypeOK, NextTypeOK, PTL DEF Spec, SafeSpec, Queue!SafeSpec
=============================================================================

---------------------------- MODULE FunctorQueue ----------------------------
(***************************************************************************)
(* What EventLoop::queueInLoop promises its callers, with the mutex, the   *)
(* eventfd, the swap and the poller left out: the functors given to a loop *)
(* wait in one queue, the loop takes them from its front one at a time, so *)
(* each is executed once and in the order of queueing, and as long as the  *)
(* loop has not stopped the one in front is executed in the end.           *)
(* EventLoop.tla implements this module (its property Promise).            *)
(***************************************************************************)
EXTENDS Sequences

CONSTANT Functor    (* the functors that may be queued *)

VARIABLES
  waiting,          (* queued and not yet started, oldest first *)
  ran,              (* executed, in the order of execution *)
  open              (* FALSE once the loop has stopped *)

vars == <<waiting, ran, open>>

Init == waiting = <<>> /\ ran = <<>> /\ open = TRUE

(* queueInLoop(f): accepted even by a loop that has stopped. *)
Queue(f) ==
  /\ waiting' = Append(waiting, f)
  /\ UNCHANGED <<ran, open>>

(* The loop executes the functor in front. *)
Run ==
  /\ open
  /\ waiting # <<>>
  /\ ran' = Append(ran, Head(waiting))
  /\ waiting' = Tail(waiting)
  /\ UNCHANGED open

(* The loop stops. What waits now is never executed. *)
Close ==
  /\ open
  /\ open' = FALSE
  /\ UNCHANGED <<waiting, ran>>

Next == Run \/ Close \/ \E f \in Functor : Queue(f)

SafeSpec == Init /\ [][Next]_vars

Spec == SafeSpec /\ WF_vars(Run)
=============================================================================

----------------------------- MODULE MCEventLoop -----------------------------
(***************************************************************************)
(* EventLoop for TLC.                                                      *)
(***************************************************************************)
EXTENDS EventLoop

(* Low bytes 0, 1 and 2: every kind that isInLoopThread() tells apart, one  *)
(* of them twice.                                                           *)
MCTids == {256, 257, 258, 514}

(* Two threads like 254 in every 256, whose low byte is neither 0 nor 1.    *)
UsualTids == {258, 515}
=============================================================================

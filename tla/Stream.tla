------------------------------- MODULE Stream -------------------------------
(***************************************************************************)
(* What a TcpConnection promises its user, who is also the one who closes  *)
(* it: what is given to send() goes out as long as the connection lasts,   *)
(* the FIN after all of it, and the user hears of the end - unless he      *)
(* has called shutdown() and the server is destroyed.                      *)
(***************************************************************************)
EXTENDS Naturals

VARIABLES
  phase,
  given, sent,   (* bytes *)
  fin

vars == <<phase, given, sent, fin>>

Init == phase = "new" /\ given = 0 /\ sent = 0 /\ fin = FALSE

Move(from, to) ==
  /\ phase \in from /\ phase' = to
  /\ UNCHANGED <<given, sent, fin>>

Up == Move({"new"}, "up")

(* The user gives, or the kernel takes, some more. *)
Send ==
  /\ phase \in {"up", "closing"}
  /\ given' \in Nat /\ given' >= given /\ (phase = "closing" => given' = given)
  /\ sent' \in sent..given'
  /\ UNCHANGED <<phase, fin>>

(* shutdown(), and the FIN, as soon as everything is out. *)
Close ==
  /\ phase \in {"up", "closing"} /\ phase' = "closing"
  /\ ~fin
  /\ sent' \in sent..given /\ fin' \in BOOLEAN
  /\ fin' => sent' = given
  /\ UNCHANGED given

Down == Move({"up", "closing"}, "down")

Over == Move({"down", "closing"}, "over")

Next == Up \/ Send \/ Close \/ Down \/ Over

Spec == Init /\ [][Next]_vars
=============================================================================

------------------------------ MODULE Sessions ------------------------------
(***************************************************************************)
(* What a TcpServer promises about its clients: they are accepted in the   *)
(* order in which they came, no more of them at a time than there are      *)
(* descriptors, and the user hears of each one's connection once when it   *)
(* is up, then of its messages, then once when it is down; only then are   *)
(* the connection and its descriptor let go.                               *)
(***************************************************************************)
EXTENDS Naturals, FiniteSets

CONSTANT Clients   (* numbers, in the order in which the clients come *)

VARIABLES
  maxFds,   (* how many descriptors there are, which never changes *)
  phase,
  served    (* messages the user was told of *)

vars == <<maxFds, phase, served>>

Phases == {"away", "waiting", "accepted", "up", "down", "released"}

InService == {c \in Clients : phase[c] \in {"accepted", "up", "down"}}

TypeOK ==
  /\ maxFds \in Nat
  /\ phase \in [Clients -> Phases]
  /\ served \in [Clients -> Nat]
  /\ Cardinality(InService) <= maxFds

Init ==
  /\ maxFds \in Nat
  /\ phase = [c \in Clients |-> "away"]
  /\ served = [c \in Clients |-> 0]

Move(c, from, to) ==
  /\ phase[c] = from
  /\ phase' = [phase EXCEPT ![c] = to]
  /\ UNCHANGED <<maxFds, served>>

Arrive(c) ==
  /\ Move(c, "away", "waiting")
  /\ \A d \in Clients : d < c => phase[d] # "away"

Accept(c) ==
  /\ Move(c, "waiting", "accepted")
  /\ \A d \in Clients : phase[d] = "waiting" => c <= d
  /\ Cardinality(InService) < maxFds

Up(c) == Move(c, "accepted", "up")

Message(c) ==
  /\ phase[c] = "up"
  /\ served' = [served EXCEPT ![c] = @ + 1]
  /\ UNCHANGED <<maxFds, phase>>

Down(c) == Move(c, "up", "down")

Release(S) ==
  /\ \A c \in S : phase[c] = "down"
  /\ phase' = [c \in Clients |-> IF c \in S THEN "released" ELSE phase[c]]
  /\ UNCHANGED <<maxFds, served>>

Next ==
  \/ \E c \in Clients : Arrive(c) \/ Accept(c) \/ Up(c) \/ Message(c) \/ Down(c)
  \/ \E S \in SUBSET Clients : Release(S)

Spec == Init /\ [][Next]_vars
=============================================================================

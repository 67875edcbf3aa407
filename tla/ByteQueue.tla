------------------------------ MODULE ByteQueue ------------------------------
(***************************************************************************)
(* What a Buffer promises its users, with the vector, its indices and its  *)
(* compaction left out: bytes come out in the order in which they went in, *)
(* each once.  Bytes are numbered as they go in.  Once the queue is no     *)
(* longer intact nothing is promised.  Buffer.tla implements this module.  *)
(***************************************************************************)
EXTENDS Naturals, Sequences

CONSTANT MaxBytes     (* bound: bytes ever put in *)

VARIABLES
  contents,           (* the bytes inside, oldest first *)
  taken,              (* bytes put in so far *)
  out,                (* what the last call that returned bytes returned *)
  intact

vars == <<contents, taken, out, intact>>

(* The next n bytes to go in. *)
Fresh(n) == [i \in 1..n |-> taken + i]

Without(n) == SubSeq(contents, n + 1, Len(contents))

Init == contents = <<>> /\ taken = 0 /\ out = <<>> /\ intact = TRUE

Put(n) ==
  /\ contents' = contents \o Fresh(n)
  /\ taken' = taken + n
  /\ UNCHANGED <<out, intact>>

Peek(n) ==
  /\ out' = SubSeq(contents, 1, n)
  /\ UNCHANGED <<contents, taken, intact>>

Drop(n) ==
  /\ contents' = Without(n)
  /\ UNCHANGED <<taken, out, intact>>

Take(n) ==
  /\ out' = SubSeq(contents, 1, n)
  /\ contents' = Without(n)
  /\ UNCHANGED <<taken, intact>>

Break ==
  /\ contents' = <<>>
  /\ taken' \in taken..MaxBytes
  /\ intact' = FALSE
  /\ UNCHANGED out

Next ==
  /\ intact
  /\ \/ \E n \in 1..(MaxBytes - taken) : Put(n)
     \/ \E n \in 0..Len(contents) : Peek(n) \/ Drop(n) \/ Take(n)
     \/ Break

Spec == Init /\ [][Next]_vars
=============================================================================

------------------------------ MODULE Channel ------------------------------
(***************************************************************************)
(* What a Channel and the EPollPoller do together with one descriptor:     *)
(* Channel.h, Channel.cc and EPollPoller.cc.  Operators on the state of    *)
(* one channel, for the modules of the objects that own channels.          *)
(*                                                                         *)
(* updateChannelNotDeleted is a seeded fault, of updateChannel.            *)
(***************************************************************************)
EXTENDS Naturals

(* kReadEvent and kWriteEvent. *)
Events == {"in", "out"}

Indices == {"kNew", "kAdded", "kDeleted"}

(* events and index are the Channel's; mapped says that the poller's        *)
(* channels_ has it; registered and interest are the epoll instance's own   *)
(* record of the descriptor; failed, that epoll_ctl refused an ADD or MOD,  *)
(* which the code logs as fatal.                                            *)
ChannelStates ==
  [events : SUBSET Events, index : Indices, mapped : BOOLEAN,
   registered : BOOLEAN, interest : SUBSET Events, failed : BOOLEAN]

NewChannel ==
  [events |-> {}, index |-> "kNew", mapped |-> FALSE,
   registered |-> FALSE, interest |-> {}, failed |-> FALSE]

(* EPollPoller::update, with what the kernel makes of each operation.  A    *)
(* DEL that fails is harmless.                                              *)
epoll_ctl(op, c) ==
  CASE op = "ADD" -> [c EXCEPT !.failed = @ \/ c.registered,
                               !.registered = TRUE, !.interest = c.events]
    [] op = "MOD" -> [c EXCEPT !.failed = @ \/ ~c.registered,
                               !.interest = IF c.registered THEN c.events ELSE {}]
    [] op = "DEL" -> [c EXCEPT !.registered = FALSE, !.interest = {}]

updateChannelNotDeleted(c) ==
  IF c.index # "kAdded"
    THEN epoll_ctl("ADD", [c EXCEPT !.mapped = @ \/ c.index = "kNew", !.index = "kAdded"])
    ELSE IF c.events = {} THEN epoll_ctl("DEL", c)
                          ELSE epoll_ctl("MOD", c)

(* A channel that is not added is added, whatever its events; one that is   *)
(* and wants nothing any more is taken out, but stays in channels_.         *)
updateChannel(c) ==
  IF c.index # "kAdded"
    THEN epoll_ctl("ADD", [c EXCEPT !.mapped = @ \/ c.index = "kNew", !.index = "kAdded"])
    ELSE IF c.events = {} THEN epoll_ctl("DEL", [c EXCEPT !.index = "kDeleted"])
                          ELSE epoll_ctl("MOD", c)

removeChannel(c) ==
  LET out == [c EXCEPT !.mapped = FALSE]
  IN  [(IF c.index = "kAdded" THEN epoll_ctl("DEL", out) ELSE out)
        EXCEPT !.index = "kNew"]

enableReading(c) == updateChannel([c EXCEPT !.events = @ \cup {"in"}])
enableWriting(c) == updateChannel([c EXCEPT !.events = @ \cup {"out"}])
disableWriting(c) == updateChannel([c EXCEPT !.events = @ \ {"out"}])
disableAll(c) == updateChannel([c EXCEPT !.events = {}])

isWriting(c) == "out" \in c.events

-----------------------------------------------------------------------------
(* The three records of a channel agree: index says whether the epoll       *)
(* instance has it, which then watches for the channel's own events; only   *)
(* a new channel is not in channels_; nothing was refused.                  *)
Agrees(c) ==
  /\ c.registered <=> c.index = "kAdded"
  /\ c.interest = IF c.registered THEN c.events ELSE {}
  /\ c.mapped <=> c.index # "kNew"
  /\ ~c.failed
=============================================================================

---------------------------- MODULE ChannelProofs ----------------------------
(***************************************************************************)
(* Lemmas about the operators of Channel.tla, for the modules of channels' *)
(* owners: each call of a Channel leaves the channel, its poller and the   *)
(* kernel in agreement.                                                    *)
(***************************************************************************)
EXTENDS Channel, TLAPS

LEMMA UpdateChannelAgrees ==
  ASSUME NEW c \in ChannelStates, NEW E \in SUBSET Events, Agrees(c)
  PROVE  /\ updateChannel([c EXCEPT !.events = E]) \in ChannelStates
         /\ Agrees(updateChannel([c EXCEPT !.events = E]))
         /\ updateChannel([c EXCEPT !.events = E]).events = E
         /\ E # {} => updateChannel([c EXCEPT !.events = E]).index = "kAdded"
         /\ E = {} /\ c.index = "kAdded" =>
              updateChannel([c EXCEPT !.events = E]).index = "kDeleted"
<1> DEFINE b == [c EXCEPT !.events = E]
<1>1. /\ b \in ChannelStates /\ b.events = E /\ b.index = c.index /\ b.mapped = c.mapped
      /\ b.registered = c.registered /\ b.failed = FALSE
  BY DEF ChannelStates, Agrees
<1>2. CASE c.index # "kAdded"
  <2>1. updateChannel(b) = [b EXCEPT !.mapped = @ \/ b.index = "kNew", !.index = "kAdded",
                                     !.failed = FALSE, !.registered = TRUE, !.interest = E]
    BY <1>1, <1>2 DEF updateChannel, epoll_ctl, ChannelStates, Agrees
  <2>2. QED
    BY <1>1, <1>2, <2>1 DEF ChannelStates, Agrees, Indices
<1>3. CASE c.index = "kAdded" /\ E = {}
  <2>1. updateChannel(b) = [b EXCEPT !.index = "kDeleted", !.registered = FALSE, !.interest = {}]
    BY <1>1, <1>3 DEF updateChannel, epoll_ctl, ChannelStates
  <2>2. QED
    BY <1>1, <1>3, <2>1 DEF ChannelStates, Agrees, Indices
<1>4. CASE c.index = "kAdded" /\ E # {}
  <2>1. updateChannel(b) = [b EXCEPT !.failed = FALSE, !.interest = E]
    BY <1>1, <1>4 DEF updateChannel, epoll_ctl, ChannelStates, Agrees
  <2>2. QED
    BY <1>1, <1>4, <2>1 DEF ChannelStates, Agrees, Indices
<1>5. QED
  BY <1>2, <1>3, <1>4

(* What the calls of a connection do to its channel. *)
LEMMA ChannelCalls ==
  ASSUME NEW c \in ChannelStates, Agrees(c)
  PROVE  /\ \A d \in {enableReading(c), enableWriting(c), disableWriting(c), disableAll(c),
                      removeChannel(c)} : d \in ChannelStates /\ Agrees(d)
         /\ enableReading(c).events = c.events \cup {"in"} /\ enableReading(c).index = "kAdded"
         /\ enableWriting(c).events = c.events \cup {"out"} /\ enableWriting(c).index = "kAdded"
         /\ disableWriting(c).events = c.events \ {"out"}
         /\ c.events # {"out"} /\ c.events # {} => disableWriting(c).index = "kAdded"
         /\ disableAll(c).events = {}
         /\ c.index = "kAdded" => disableAll(c).index = "kDeleted"
         /\ removeChannel(c).events = c.events /\ removeChannel(c).index = "kNew"
<1>1. /\ c.events \cup {"in"} \in SUBSET Events /\ c.events \cup {"in"} # {}
      /\ c.events \cup {"out"} \in SUBSET Events /\ c.events \cup {"out"} # {}
      /\ c.events \ {"out"} \in SUBSET Events /\ {} \in SUBSET Events
  BY DEF ChannelStates, Events
<1>2. /\ enableReading(c) = updateChannel([c EXCEPT !.events = c.events \cup {"in"}])
      /\ enableWriting(c) = updateChannel([c EXCEPT !.events = c.events \cup {"out"}])
      /\ disableWriting(c) = updateChannel([c EXCEPT !.events = c.events \ {"out"}])
      /\ disableAll(c) = updateChannel([c EXCEPT !.events = {}])
  BY DEF enableReading, enableWriting, disableWriting, disableAll
<1>3. c.events # {"out"} /\ c.events # {} => c.events \ {"out"} # {}
  OBVIOUS
<1>4. removeChannel(c) \in ChannelStates /\ Agrees(removeChannel(c))
      /\ removeChannel(c).events = c.events /\ removeChannel(c).index = "kNew"
  BY DEF removeChannel, epoll_ctl, ChannelStates, Agrees, Indices
<1>5. /\ enableReading(c) \in ChannelStates /\ Agrees(enableReading(c))
      /\ enableReading(c).events = c.events \cup {"in"} /\ enableReading(c).index = "kAdded"
  BY <1>1, <1>2, UpdateChannelAgrees
<1>6. /\ enableWriting(c) \in ChannelStates /\ Agrees(enableWriting(c))
      /\ enableWriting(c).events = c.events \cup {"out"} /\ enableWriting(c).index = "kAdded"
  BY <1>1, <1>2, UpdateChannelAgrees
<1>7. /\ disableWriting(c) \in ChannelStates /\ Agrees(disableWriting(c))
      /\ disableWriting(c).events = c.events \ {"out"}
      /\ c.events # {"out"} /\ c.events # {} => disableWriting(c).index = "kAdded"
  <2> DEFINE E == c.events \ {"out"}
  <2>1. E \in SUBSET Events /\ disableWriting(c) = updateChannel([c EXCEPT !.events = E])
        /\ (c.events # {"out"} /\ c.events # {} => E # {})
    BY <1>1, <1>2, <1>3
  <2> HIDE DEF E
  <2>2. /\ updateChannel([c EXCEPT !.events = E]) \in ChannelStates
        /\ Agrees(updateChannel([c EXCEPT !.events = E]))
        /\ updateChannel([c EXCEPT !.events = E]).events = E
        /\ E # {} => updateChannel([c EXCEPT !.events = E]).index = "kAdded"
    BY <2>1, UpdateChannelAgrees
  <2>3. QED
    BY <2>1, <2>2 DEF E
<1>8. /\ disableAll(c) \in ChannelStates /\ Agrees(disableAll(c)) /\ disableAll(c).events = {}
      /\ c.index = "kAdded" => disableAll(c).index = "kDeleted"
  <2>1. PICK E \in SUBSET Events : E = {}
    BY <1>1
  <2>2. disableAll(c) = updateChannel([c EXCEPT !.events = E])
    BY <1>2, <2>1
  <2>3. QED
    BY <2>1, <2>2, UpdateChannelAgrees
<1>9. QED
  BY <1>4, <1>5, <1>6, <1>7, <1>8
=============================================================================

---------------------------- MODULE EPollPoller -----------------------------
(***************************************************************************)
(* One EpollPoller and its channels, whose owners call the enable and      *)
(* disable methods and remove() in any order, as often as they like,       *)
(* between two polls and from inside the callbacks of active channels.     *)
(***************************************************************************)
EXTENDS Naturals, FiniteSets, Channel

CONSTANTS Chan,        \* the channels (one file descriptor each)
          InitialSize, \* kInitEventListsize (16)
          MaxSize      \* bound on events_.size()

ASSUME SizeAssumption == InitialSize \in Nat \ {0} /\ MaxSize \in Nat

VARIABLES chan,        \* the channels' records
          size,        \* events_.size()
          active       \* activeChannels_ still to be handled

vars == <<chan, size, active>>

TypeOK ==
  /\ chan \in [Chan -> ChannelType]
  /\ size \in Nat \ {0}
  /\ active \in SUBSET Chan

Init ==
  /\ chan = [c \in Chan |-> NewChannel]
  /\ size = InitialSize
  /\ active = {}

\* A full vector is doubled, so that the next epoll_wait() can return more.
Grow(n, s) == IF n = s THEN s * 2 ELSE s

\* poll(): epoll_wait() fills at most size entries, with registered channels
\* that have events.  MaxSize bounds the growth.
Poll(ready) ==
  /\ active = {}
  /\ \A c \in ready : chan[c].reg
  /\ Cardinality(ready) <= size
  /\ Grow(Cardinality(ready), size) <= MaxSize
  /\ active' = ready
  /\ size' = Grow(Cardinality(ready), size)
  /\ UNCHANGED chan

HandleEvent(c) ==
  /\ c \in active
  /\ active' = active \ {c}
  /\ UNCHANGED <<chan, size>>

SetChannel(c, ch) ==
  /\ chan' = [chan EXCEPT ![c] = ch]
  /\ UNCHANGED <<size, active>>

Next ==
  \/ \E ready \in SUBSET Chan : Poll(ready)
  \/ \E c \in Chan :
       \/ HandleEvent(c)
       \/ SetChannel(c, EnableReading(chan[c]))
       \/ SetChannel(c, DisableReading(chan[c]))
       \/ SetChannel(c, EnableWriting(chan[c]))
       \/ SetChannel(c, DisableWriting(chan[c]))
       \/ SetChannel(c, DisableAll(chan[c]))
       \/ SetChannel(c, RemoveChannel(chan[c]))

Spec == Init /\ [][Next]_vars

-----------------------------------------------------------------------------
\* The three records of what is polled agree, whatever the order of calls:
\* the kernel holds exactly the channels marked kAdded, and channels_ exactly
\* those that are not kNew (updateChannel, removeChannel).
IndexAgrees ==
  \A c \in Chan : /\ chan[c].reg <=> chan[c].index = "kAdded"
                  /\ chan[c].listed <=> chan[c].index # "kNew"

\* epoll_ctl(ADD) and epoll_ctl(MOD) never fail for a reason of the poller's
\* own making, so its LOG_FATAL (which ends the process) is never reached.
CtlNeverFails == \A c \in Chan : ~chan[c].fatal
=============================================================================

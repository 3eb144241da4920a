------------------------- MODULE EPollPollerProofs --------------------------
(* Theorems about EPollPoller, for any number of channels.                 *)
EXTENDS EPollPoller, TLAPS

\* One channel's record: typed, with its three memories in agreement, and
\* never refused by the kernel.
ChannelInv(ch) ==
  /\ ch \in ChannelType
  /\ ch.reg <=> ch.index = "kAdded"
  /\ ch.listed <=> ch.index # "kNew"
  /\ ~ch.fatal

\* updateChannel() keeps a channel's record consistent whatever its mask has
\* become, and never asks the kernel for what it would refuse.
LEMMA UpdateKeeps ==
  ASSUME NEW ch \in ChannelType, ChannelInv(ch),
         NEW E \in SUBSET {"read", "write"}
  PROVE  ChannelInv(UpdateChannel([ch EXCEPT !.events = E]))
<1> DEFINE new == [ch EXCEPT !.events = E]
<1>1. ChannelInv(new) /\ new.index = ch.index
  BY DEF ChannelInv, ChannelType
<1>2. CASE ch.index \in {"kNew", "kDeleted"}
  BY <1>1, <1>2 DEF ChannelInv, ChannelType, UpdateChannel, CtlAdd
<1>3. CASE ch.index = "kAdded" /\ E = {}
  BY <1>1, <1>3 DEF ChannelInv, ChannelType, UpdateChannel, CtlDel
<1>4. CASE ch.index = "kAdded" /\ E # {}
  BY <1>1, <1>4 DEF ChannelInv, ChannelType, UpdateChannel, CtlMod
<1> QED BY <1>2, <1>3, <1>4 DEF ChannelInv, ChannelType

\* removeChannel() forgets the channel in channels_, index_ and the kernel.
LEMMA RemoveKeeps ==
  ASSUME NEW ch \in ChannelType, ChannelInv(ch)
  PROVE  ChannelInv(RemoveChannel(ch))
BY DEF ChannelInv, ChannelType, RemoveChannel, CtlDel

PollerInv ==
  chan \in [Chan -> ChannelType] /\ \A c \in Chan : ChannelInv(chan[c])

\* Storing a consistent record keeps the poller consistent.
LEMMA StoreKeeps ==
  ASSUME PollerInv, NEW c \in Chan, NEW ch, ChannelInv(ch), SetChannel(c, ch)
  PROVE  PollerInv'
BY DEF PollerInv, SetChannel, ChannelInv

\* The joint invariant is kept by every call and every poll.
THEOREM PollerInvariant == Spec => []PollerInv
<1>1. Init => PollerInv
  BY DEF Init, PollerInv, ChannelInv, NewChannel, ChannelType
<1>2. PollerInv /\ [Next]_vars => PollerInv'
  <2> SUFFICES ASSUME PollerInv, [Next]_vars PROVE PollerInv'
    OBVIOUS
  <2>1. ASSUME NEW ready \in SUBSET Chan, Poll(ready) PROVE PollerInv'
    BY <2>1 DEF Poll, PollerInv
  <2>2. ASSUME NEW c \in Chan, HandleEvent(c) PROVE PollerInv'
    BY <2>2 DEF HandleEvent, PollerInv
  <2>3. ASSUME NEW c \in Chan PROVE ChannelInv(chan[c])
    BY DEF PollerInv
  <2>4. ASSUME NEW c \in Chan
        PROVE  chan[c].events \in SUBSET {"read", "write"}
    BY <2>3 DEF ChannelInv, ChannelType
  <2>5. ASSUME NEW c \in Chan
        PROVE  /\ ChannelInv(EnableReading(chan[c]))
               /\ ChannelInv(DisableReading(chan[c]))
               /\ ChannelInv(EnableWriting(chan[c]))
               /\ ChannelInv(DisableWriting(chan[c]))
               /\ ChannelInv(DisableAll(chan[c]))
    <3>1. /\ chan[c].events \union {"read"} \in SUBSET {"read", "write"}
          /\ chan[c].events \ {"read"} \in SUBSET {"read", "write"}
          /\ chan[c].events \union {"write"} \in SUBSET {"read", "write"}
          /\ chan[c].events \ {"write"} \in SUBSET {"read", "write"}
          /\ {} \in SUBSET {"read", "write"}
      BY <2>4
    <3>2. chan[c] \in ChannelType /\ ChannelInv(chan[c])
      BY <2>3 DEF ChannelInv
    <3>3. ChannelInv(EnableReading(chan[c]))
      BY <3>1, <3>2, UpdateKeeps DEF EnableReading
    <3>4. ChannelInv(DisableReading(chan[c]))
      BY <3>1, <3>2, UpdateKeeps DEF DisableReading
    <3>5. ChannelInv(EnableWriting(chan[c]))
      BY <3>1, <3>2, UpdateKeeps DEF EnableWriting
    <3>6. ChannelInv(DisableWriting(chan[c]))
      BY <3>1, <3>2, UpdateKeeps DEF DisableWriting
    <3>7. ChannelInv(DisableAll(chan[c]))
      BY <3>1, <3>2, UpdateKeeps DEF DisableAll
    <3> QED BY <3>3, <3>4, <3>5, <3>6, <3>7
  <2>6. ASSUME NEW c \in Chan, NEW ch, ChannelInv(ch), SetChannel(c, ch)
        PROVE  PollerInv'
    BY <2>6, StoreKeeps
  <2>7. ASSUME NEW c \in Chan, SetChannel(c, RemoveChannel(chan[c]))
        PROVE  PollerInv'
    <3>1. ChannelInv(RemoveChannel(chan[c]))
      BY <2>3, RemoveKeeps DEF ChannelInv
    <3> QED BY <2>7, <3>1, StoreKeeps
  <2>8. CASE UNCHANGED vars BY <2>8 DEF vars, PollerInv
  <2> QED BY <2>1, <2>2, <2>5, <2>6, <2>7, <2>8 DEF Next
<1> QED BY <1>1, <1>2, PTL DEF Spec

\* For any channels and any order of enable, disable and remove calls, index_,
\* channels_ and the kernel's epoll set agree.
THEOREM IndexesAgree == Spec => []IndexAgrees
<1>1. PollerInv => IndexAgrees
  BY DEF PollerInv, ChannelInv, IndexAgrees
<1> QED BY <1>1, PollerInvariant, PTL

\* updateChannel() never issues an epoll_ctl() that the kernel refuses, so its
\* LOG_FATAL is unreachable.
THEOREM CtlIsNeverRefused == Spec => []CtlNeverFails
<1>1. PollerInv => CtlNeverFails
  BY DEF PollerInv, ChannelInv, CtlNeverFails
<1> QED BY <1>1, PollerInvariant, PTL

\* The poller's variables keep their types; events_ is never empty.
THEOREM PollerTypeCorrect == Spec => []TypeOK
<1>1. Init => TypeOK
  BY SizeAssumption DEF Init, TypeOK, NewChannel, ChannelType
<1>2. PollerInv' /\ TypeOK /\ [Next]_vars => TypeOK'
  <2> SUFFICES ASSUME PollerInv', TypeOK, [Next]_vars PROVE TypeOK'
    OBVIOUS
  <2>1. ASSUME NEW ready \in SUBSET Chan, Poll(ready) PROVE TypeOK'
    BY <2>1 DEF Poll, Grow, TypeOK
  <2>2. ASSUME NEW c \in Chan, HandleEvent(c) PROVE TypeOK'
    BY <2>2 DEF HandleEvent, TypeOK
  <2>3. ASSUME UNCHANGED <<size, active>> PROVE TypeOK'
    BY <2>3 DEF TypeOK, PollerInv
  <2> QED BY <2>1, <2>2, <2>3 DEF Next, SetChannel, vars
<1> QED BY <1>1, <1>2, PollerInvariant, PTL DEF Spec
=============================================================================

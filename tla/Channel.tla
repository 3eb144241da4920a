------------------------------ MODULE Channel -------------------------------
(***************************************************************************)
(* A Channel (Channel.h, Channel.cc) and what EpollPoller does to it       *)
(* (EPollPoller.cc), as operators on one record:                           *)
(*   index    index_: kNew, kAdded or kDeleted                             *)
(*   events   events_: a subset of {"read", "write"}                       *)
(*   listed   the poller's channels_ maps the fd to this channel           *)
(*   reg      the kernel's epoll set holds the fd (with mask events)       *)
(*   fatal    epoll_ctl(ADD or MOD) has failed: LOG_FATAL ends the process *)
(***************************************************************************)

ChannelType ==
  [index : {"kNew", "kAdded", "kDeleted"}, events : SUBSET {"read", "write"},
   listed : BOOLEAN, reg : BOOLEAN, fatal : BOOLEAN]

NewChannel ==
  [index |-> "kNew", events |-> {}, listed |-> FALSE, reg |-> FALSE,
   fatal |-> FALSE]

\* epoll_ctl(): ADD fails on a registered fd, MOD and DEL on another one; a
\* failed DEL is only logged.
CtlAdd(ch) == [ch EXCEPT !.reg = TRUE, !.fatal = @ \/ ch.reg]
CtlMod(ch) == [ch EXCEPT !.fatal = @ \/ ~ch.reg]
CtlDel(ch) == [ch EXCEPT !.reg = FALSE]

UpdateForgetsDelete(ch) ==
  IF ch.index \in {"kNew", "kDeleted"}
  THEN CtlAdd([ch EXCEPT !.index = "kAdded", !.listed = TRUE])
  ELSE IF ch.events = {}
       THEN [ch EXCEPT !.index = "kDeleted"]
       ELSE CtlMod(ch)

\* EpollPoller::updateChannel(); a kDeleted channel is still in channels_.
UpdateChannel(ch) ==
  IF ch.index \in {"kNew", "kDeleted"}
  THEN CtlAdd([ch EXCEPT !.listed = (ch.index = "kNew") \/ @,
                         !.index = "kAdded"])
  ELSE IF ch.events = {}
       THEN [CtlDel(ch) EXCEPT !.index = "kDeleted"]
       ELSE CtlMod(ch)

RemoveOnlyUnlists(ch) == [ch EXCEPT !.listed = FALSE, !.index = "kNew"]

\* EpollPoller::removeChannel()
RemoveChannel(ch) ==
  LET erased == [ch EXCEPT !.listed = FALSE]
  IN  [(IF ch.index = "kAdded" THEN CtlDel(erased) ELSE erased)
         EXCEPT !.index = "kNew"]

EnableReading(ch) ==
  UpdateChannel([ch EXCEPT !.events = @ \union {"read"}])
DisableReading(ch) == UpdateChannel([ch EXCEPT !.events = @ \ {"read"}])
EnableWriting(ch) ==
  UpdateChannel([ch EXCEPT !.events = @ \union {"write"}])
DisableWriting(ch) == UpdateChannel([ch EXCEPT !.events = @ \ {"write"}])
DisableAll(ch) == UpdateChannel([ch EXCEPT !.events = {}])

IsWriting(ch) == "write" \in ch.events

=============================================================================

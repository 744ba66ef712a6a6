------------------------------- MODULE Poller -------------------------------
(***************************************************************************)
(* The channels of one loop, and the rounds the loop makes: updateChannel  *)
(* and removeChannel of EPollPoller, which keeps the kernel's epoll set in *)
(* step, and of PollPoller, which keeps the array it hands to poll(2);     *)
(* poll of both; and handleEvent of each channel that is active, one after *)
(* the other, whose callbacks may change every channel of the loop.        *)
(* newDefaultPoller takes one or the other.  A channel is known by its fd; *)
(* when it is removed it is destroyed, its fd is closed, and the fd may    *)
(* come back with another channel.                                         *)
(***************************************************************************)
EXTENDS Integers, Sequences, FiniteSetsExt

CONSTANTS Fds,          \* file descriptors
          Kinds,        \* which pollers: a subset of {"epoll", "poll"}
          MayResume,    \* the pollers under which an idle channel may watch again
          Removes,      \* whose channels a callback removes: a subset of {"own", "others"}
          kInitEventListSize,
          None

ASSUME PollerAssumption == /\ Fds \subseteq Nat /\ IsFiniteSet(Fds) /\ None \notin Fds
                           /\ Kinds \subseteq {"epoll", "poll"}
                           /\ MayResume \subseteq Kinds
                           /\ Removes \subseteq {"own", "others"}
                           /\ kInitEventListSize \in Nat \ {0}

VARIABLES
    kind,       \* the poller this loop has
    events,     \* events_ of the channel of each fd
    index,      \* index_ of the channel of each fd
    channels,   \* channels_: the fds that have a channel
    epollSet,   \* EPollPoller: the kernel's epoll set, fd to events
    ctlFailed,  \* EPollPoller: an epoll_ctl has failed
    pollfds,    \* PollPoller: pollfds_
    addedIdle,  \* history: the channels added by a call that disables, not enabled since
    listSize,   \* EPollPoller: events_.size()
    ready,      \* the fds of which poll() would report something, were it to look at them
    phase,      \* where the loop is: "functors", "poll" or "events"
    toHandle,   \* activeChannels_, without those whose turn is over
    current     \* the channel in handleEvent, or None

registration == <<events, index, channels, epollSet, ctlFailed, pollfds, addedIdle>>
pollerVars == <<kind, registration, listSize, ready, phase, toHandle, current>>

Interest == {"read", "write"}

\* EPollPoller uses index_ as a state, PollPoller as a place in pollfds_, from 0.
kNew == -1
kAdded == 1
kDeleted == 2

PollerInit ==
    /\ kind \in Kinds
    /\ events = [fd \in Fds |-> {}]
    /\ index = [fd \in Fds |-> kNew]
    /\ channels = {}
    /\ epollSet = <<>>
    /\ ctlFailed = FALSE
    /\ pollfds = <<>>
    /\ addedIdle = {}
    /\ listSize = kInitEventListSize
    /\ ready \in SUBSET Fds
    /\ phase = "functors" /\ toHandle = {} /\ current = None
-----------------------------------------------------------------------------
(* EPollPoller.                                                            *)

\* epoll_ctl: ADD fails for an fd that is in the set, MOD and DEL for one that is not.
EpollCtl(op, fd, ev) ==
    LET others == DOMAIN epollSet \ {fd}
        with == [f \in others \cup {fd} |-> IF f = fd THEN ev ELSE epollSet[f]]
        without == [f \in others |-> epollSet[f]]
    IN IF (op = "ADD") = (fd \in DOMAIN epollSet)
       THEN ctlFailed' = TRUE /\ UNCHANGED epollSet
       ELSE epollSet' = (IF op = "DEL" THEN without ELSE with) /\ UNCHANGED ctlFailed

DelWhenIdle(fd, ev) == EpollCtl("DEL", fd, ev) /\ index' = [index EXCEPT ![fd] = kDeleted]

EpollUpdate(fd, ev) ==
    /\ IF index[fd] \in {kNew, kDeleted}
       THEN EpollCtl("ADD", fd, ev) /\ index' = [index EXCEPT ![fd] = kAdded]
       ELSE IF ev = {} THEN DelWhenIdle(fd, ev)
       ELSE EpollCtl("MOD", fd, ev) /\ UNCHANGED index
    /\ channels' = channels \cup {fd}
    /\ UNCHANGED pollfds

EpollRemove(fd) ==
    /\ IF index[fd] = kAdded THEN EpollCtl("DEL", fd, {}) ELSE UNCHANGED <<epollSet, ctlFailed>>
    /\ index' = [index EXCEPT ![fd] = kNew]
    /\ UNCHANGED pollfds
-----------------------------------------------------------------------------
(* PollPoller.                                                             *)

Ignored(fd) == -fd - 1          \* what stands for an fd poll(2) is to ignore
FdOf(slot) == IF slot.fd < 0 THEN -slot.fd - 1 ELSE slot.fd

\* The fd in the slot is set when the channel is added and hidden when it is idle.
SlotFd(slot, ev) == IF ev = {} THEN Ignored(FdOf(slot)) ELSE slot.fd

Place == Len(pollfds)

PollUpdate(fd, ev) ==
    /\ IF index[fd] < 0
       THEN /\ pollfds' = Append(pollfds, [fd |-> fd, events |-> ev])
            /\ index' = [index EXCEPT ![fd] = Place]
       ELSE /\ pollfds' = [pollfds EXCEPT ![index[fd] + 1] =
                             [fd |-> SlotFd(@, ev), events |-> ev]]
            /\ UNCHANGED index
    /\ channels' = channels \cup {fd}
    /\ UNCHANGED <<epollSet, ctlFailed>>

\* The last slot takes the place of the one removed; its channel is told.
Renumber_Mutant(fd, last) == [index EXCEPT ![fd] = kNew]      \* seeded bug: it is not
Renumber(fd, last) == [[index EXCEPT ![last] = index[fd]] EXCEPT ![fd] = kNew]

PollRemove(fd) ==
    LET last == pollfds[Len(pollfds)]
    IN /\ pollfds' = SubSeq([pollfds EXCEPT ![index[fd] + 1] = last], 1, Len(pollfds) - 1)
       /\ index' = Renumber(fd, FdOf(last))
       /\ UNCHANGED <<epollSet, ctlFailed>>
-----------------------------------------------------------------------------
\* The interest the enable and disable calls of Channel can lead to.
Changes(ev) == {{}} \cup {ev \cup {e} : e \in Interest} \cup {ev \ {e} : e \in Interest}

\* User code is what runs in a callback or a functor.
UserRuns == phase = "functors" \/ current # None

\* enableReading, enableWriting, disableReading, disableWriting, disableAll.
\* No caller disables a channel that is registered and idle already; ~Acceptor disables one that
\* was never enabled when the server did not start (Acceptor.cc:35), which adds it to the poller.
Update(fd, ev) ==
    /\ UserRuns
    /\ events[fd] = {} /\ fd \in channels => ev # {} /\ kind \in MayResume
    /\ addedIdle' = IF events[fd] = {} /\ ev = {} THEN addedIdle \cup {fd} ELSE addedIdle \ {fd}
    /\ events' = [events EXCEPT ![fd] = ev]
    /\ IF kind = "epoll" THEN EpollUpdate(fd, ev) ELSE PollUpdate(fd, ev)
    /\ ready' \in {ready, ready \ {fd}}
    /\ UNCHANGED <<kind, listSize, phase, toHandle, current>>

\* Channel::remove, which the channel's owner calls when it watches nothing.
\* From a callback that is the Connector for its own channel; all others queue it.
Remove(fd) ==
    /\ UserRuns
    /\ current # None => (IF fd = current THEN "own" ELSE "others") \in Removes
    /\ fd \in channels
    /\ events[fd] = {}
    /\ channels' = channels \ {fd}
    /\ addedIdle' = addedIdle \ {fd}
    /\ IF kind = "epoll" THEN EpollRemove(fd) ELSE PollRemove(fd)
    /\ ready' = ready \ {fd}
    /\ UNCHANGED <<kind, events, listSize, phase, toHandle, current>>
-----------------------------------------------------------------------------
(* The loop.                                                               *)

\* What the next poll() asks the kernel: the fds it looks at, each for its events.
\* Hangups and errors are reported for every fd it looks at.
Asked(fd) ==
    IF kind = "epoll"
    THEN IF fd \in DOMAIN epollSet THEN {epollSet[fd]} ELSE {}
    ELSE {pollfds[i].events : i \in {j \in 1..Len(pollfds) : pollfds[j].fd = fd}}

Due == {fd \in ready : Asked(fd) # {}}

\* epoll_wait fills events_ with whichever it likes when it cannot report all.
Reported == IF kind = "poll" \/ Cardinality(Due) <= listSize THEN {Due}
            ELSE kSubset(listSize, Due)

Resized_Mutant(n) == IF n > listSize THEN 2 * listSize ELSE listSize    \* seeded bug: it never is
Resized(n) == IF kind = "epoll" /\ n = listSize THEN 2 * listSize ELSE listSize

\* poll() of either; a signal or the timeout ends it when nothing is due.
Poll ==
    /\ phase = "poll"
    /\ \E fds \in Reported : toHandle' = fds /\ listSize' = Resized(Cardinality(fds))
    /\ phase' = "events"
    /\ UNCHANGED <<kind, registration, ready, current>>

HandleEventBegins ==
    /\ phase = "events" /\ current = None
    /\ \E fd \in toHandle : current' = fd /\ toHandle' = toHandle \ {fd}
    /\ UNCHANGED <<kind, registration, listSize, ready, phase>>

\* The callbacks have read or written as much as there was, or have not.
HandleEventReturns ==
    /\ current # None /\ current' = None
    /\ ready' \in {ready, ready \ {current}}
    /\ UNCHANGED <<kind, registration, listSize, phase, toHandle>>

DoPendingFunctors ==
    /\ phase = "events" /\ current = None /\ toHandle = {}
    /\ phase' = "functors"
    /\ UNCHANGED <<kind, registration, listSize, ready, toHandle, current>>

NextRound ==
    /\ phase = "functors" /\ phase' = "poll"
    /\ UNCHANGED <<kind, registration, listSize, ready, toHandle, current>>

\* Something comes in, the peer takes something, or the fd is hung up.
BecomesReady(fd) ==
    /\ fd \notin ready /\ ready' = ready \cup {fd}
    /\ UNCHANGED <<kind, registration, listSize, phase, toHandle, current>>

Round == Poll \/ HandleEventBegins \/ HandleEventReturns \/ DoPendingFunctors \/ NextRound

PollerNext ==
    \/ \E fd \in Fds : \/ \E ev \in Changes(events[fd]) : Update(fd, ev)
                       \/ Remove(fd)
                       \/ BecomesReady(fd)
    \/ Round

PollerSpec == PollerInit /\ [][PollerNext]_pollerVars

\* The loop runs, and what it calls returns.
PollerFairSpec == PollerSpec /\ WF_pollerVars(Round)
-----------------------------------------------------------------------------
PollerTypeOK ==
    /\ kind \in Kinds
    /\ events \in [Fds -> SUBSET Interest]
    /\ index \in [Fds -> IF kind = "epoll" THEN {kNew, kAdded, kDeleted}
                         ELSE -1 .. Cardinality(Fds) - 1]
    /\ channels \in SUBSET Fds /\ addedIdle \in SUBSET channels
    /\ DOMAIN epollSet \subseteq Fds
    /\ \A fd \in DOMAIN epollSet : epollSet[fd] \in SUBSET Interest
    /\ ctlFailed \in BOOLEAN
    /\ \A i \in 1..Len(pollfds) : FdOf(pollfds[i]) \in Fds /\ pollfds[i].events \in SUBSET Interest
    /\ listSize \in Nat \ {0} /\ ready \in SUBSET Fds /\ toHandle \in SUBSET Fds
    /\ phase \in {"functors", "poll", "events"} /\ current \in Fds \cup {None}
    /\ phase # "events" => toHandle = {} /\ current = None

(* The kernel is asked about each channel for what the channel asks, once, *)
(* and not at all about one that went idle, hangups included: the set and  *)
(* the array agree with the channels at every moment                       *)
(* (EPollPoller.cc:98-100), and an idle channel is ignored only for the    *)
(* time being (PollPoller.cc:125-127).  Only of one that was added idle,   *)
(* and has not been enabled since, are hangups reported.                   *)
Looked(fd) == events[fd] # {} \/ fd \in addedIdle
InterestAgrees == \A fd \in Fds : Asked(fd) = IF Looked(fd) THEN {events[fd]} ELSE {}

(* Every channel's index_ is its place in pollfds_, and there is a place   *)
(* for each and no other, through every removal by swapping                *)
(* (PollPoller.cc:159-170).                                                *)
PlacesAgree ==
    kind = "poll" =>
        /\ Len(pollfds) = Cardinality(channels)
        /\ \A fd \in channels : /\ index[fd] \in 0 .. Len(pollfds) - 1
                                /\ FdOf(pollfds[index[fd] + 1]) = fd

(* No epoll_ctl ever fails: update() ends the process when an ADD or a MOD *)
(* does (EPollPoller.cc:173-183).                                          *)
CtlSucceeds == ~ctlFailed

(* The loop goes through activeChannels_ by pointer (EventLoop.cc:114):    *)
(* the channels whose turn is still to come are there, whatever the ones   *)
(* before them do.                                                         *)
RoundSafe == toHandle \subseteq channels

(* The channels, the kernel and the round agree: each channel's own idea   *)
(* of its registration is right, the kernel is asked for what the channels *)
(* ask, and the loop calls none that is gone.                              *)
KernelAgrees == PollerTypeOK /\ PlacesAgree /\ CtlSucceeds /\ InterestAgrees /\ RoundSafe

(* No channel is passed over for good: what a channel asks for and is      *)
(* there is handled in some round, also when more are ready than epoll_wait*)
(* has room for and it always prefers the others (EPollPoller.cc:55-59).   *)
NothingPassedOver == \A fd \in Fds : (fd \in Due) ~> (current = fd \/ fd \notin Due)
=============================================================================

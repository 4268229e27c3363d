------------------------------ MODULE Pollers ------------------------------
(***************************************************************************)
(* net/poller/PollPoller.cc and net/poller/EPollPoller.cc under the same   *)
(* calls of net/Channel.h.  EventLoop uses one of the two; here both are   *)
(* kept side by side, each with its own channels_ and its own index of     *)
(* every Channel, so that they can be compared.  A Channel is named by its *)
(* descriptor.  Positions of pollfds_ are counted from 1, and index 0      *)
(* stands for the -1 of a new Channel.                                     *)
(*                                                                         *)
(* The callers enable an event first, disable all before remove(), and     *)
(* make a new Channel for a descriptor that is used again.  Poll itself    *)
(* changes only the list of active channels, and the size of events_,      *)
(* which decides how many calls report all events.                         *)
(***************************************************************************)
EXTENDS Integers, Sequences

CONSTANT Channels

Event == {"read", "write"}
Ready == Event \cup {"error"}     \* the kernel reports errors unasked
PollFd == [fd : Channels, ignored : BOOLEAN, events : SUBSET Event]

VARIABLES
    events,       \* events_ of each Channel
    removed,      \* Channels removed from the loop, not yet destroyed
    \* PollPoller
    pIndex, pChannels, pollfds,     \* index_, channels_, pollfds_
    \* EPollPoller, and the kernel's table
    eIndex, eChannels,              \* index_, channels_
    added, interest,                \* descriptors in the epoll set, with what events
    pollAborted   \* an assertion, or epoll_ctl, has failed

pollVars == <<pIndex, pChannels, pollfds>>
epollVars == <<eIndex, eChannels, added, interest>>
pollersVars == <<events, removed, pollVars, epollVars, pollAborted>>

----------------------------------------------------------------------------
(* PollPoller.                                                             *)

PollUpdateAsserts(c) ==
    IF pIndex[c] = 0 THEN c \notin pChannels
    ELSE /\ c \in pChannels
         /\ pIndex[c] \in 1 .. Len(pollfds)
         /\ pollfds[pIndex[c]].fd = c

\* Mutant: an entry that was ignored stays ignored.
MutPollUpdate(c, evs) ==
    IF pIndex[c] = 0
    THEN /\ pollfds' = Append(pollfds, [fd |-> c, ignored |-> FALSE, events |-> evs])
         /\ pIndex' = [pIndex EXCEPT ![c] = Len(pollfds) + 1]
         /\ pChannels' = pChannels \cup {c}
    ELSE /\ pollfds' = [pollfds EXCEPT ![pIndex[c]] =
                           [fd |-> c, events |-> evs,
                            ignored |-> pollfds[pIndex[c]].ignored \/ evs = {}]]
         /\ UNCHANGED <<pIndex, pChannels>>

\* updateChannel.  A descriptor fd that is to be ignored is stored as -fd-1.
PollUpdate(c, evs) ==
    IF pIndex[c] = 0
    THEN /\ pollfds' = Append(pollfds, [fd |-> c, ignored |-> FALSE, events |-> evs])
         /\ pIndex' = [pIndex EXCEPT ![c] = Len(pollfds) + 1]
         /\ pChannels' = pChannels \cup {c}
    ELSE /\ pollfds' = [pollfds EXCEPT ![pIndex[c]] =
                           [fd |-> c, ignored |-> evs = {}, events |-> evs]]
         /\ UNCHANGED <<pIndex, pChannels>>

PollRemoveAsserts(c) ==
    /\ c \in pChannels
    /\ events[c] = {}
    /\ pIndex[c] \in 1 .. Len(pollfds)
    /\ pollfds[pIndex[c]].fd = c
    /\ pollfds[pIndex[c]].ignored /\ pollfds[pIndex[c]].events = {}

\* removeChannel: the last entry takes the place of c's.  c keeps its index.
PollRemove(c) ==
    LET n == Len(pollfds) IN
    /\ pChannels' = pChannels \ {c}
    /\ pollfds' = [i \in 1 .. n - 1 |-> IF i = pIndex[c] THEN pollfds[n] ELSE pollfds[i]]
    /\ pIndex' = IF pIndex[c] = n THEN pIndex
                 ELSE [pIndex EXCEPT ![pollfds[n].fd] = pIndex[c]]

\* poll and fillActiveChannels: the Channels reported when ready[c] holds for c.
PollActive(ready) ==
    {c \in Channels : \E i \in 1 .. Len(pollfds) :
        /\ pollfds[i].fd = c /\ ~pollfds[i].ignored
        /\ (pollfds[i].events \cup {"error"}) \cap ready[c] # {}}

----------------------------------------------------------------------------
(* EPollPoller.                                                            *)

\* The assertions, and what epoll_ctl requires.
EPollUpdateAsserts(c) ==
    /\ IF eIndex[c] = "kNew" THEN c \notin eChannels ELSE c \in eChannels
    /\ (eIndex[c] = "kAdded") = (c \in added)

\* updateChannel and update.
EPollUpdate(c, evs) ==
    IF eIndex[c] = "kAdded"
    THEN /\ IF evs = {}
            THEN /\ added' = added \ {c} /\ UNCHANGED interest
                 /\ eIndex' = [eIndex EXCEPT ![c] = "kDeleted"]
            ELSE interest' = [interest EXCEPT ![c] = evs] /\ UNCHANGED <<added, eIndex>>
         /\ UNCHANGED eChannels
    ELSE /\ eChannels' = IF eIndex[c] = "kNew" THEN eChannels \cup {c} ELSE eChannels
         /\ eIndex' = [eIndex EXCEPT ![c] = "kAdded"]
         /\ added' = added \cup {c} /\ interest' = [interest EXCEPT ![c] = evs]

EPollRemoveAsserts(c) ==
    /\ c \in eChannels
    /\ events[c] = {}
    /\ eIndex[c] \in {"kAdded", "kDeleted"}

\* removeChannel and update.
EPollRemove(c) ==
    /\ eChannels' = eChannels \ {c}
    /\ added' = IF eIndex[c] = "kAdded" THEN added \ {c} ELSE added
    /\ eIndex' = [eIndex EXCEPT ![c] = "kNew"]
    /\ UNCHANGED interest

\* poll and fillActiveChannels.
EPollActive(ready) ==
    {c \in added : (interest[c] \cup {"error"}) \cap ready[c] # {}}

----------------------------------------------------------------------------
(* Channel.                                                                *)

\* update(), with the new events_.
Update(c, evs) ==
    /\ pollAborted' = ~(PollUpdateAsserts(c) /\ EPollUpdateAsserts(c))
    /\ events' = [events EXCEPT ![c] = evs]
    /\ PollUpdate(c, evs) /\ EPollUpdate(c, evs)
    /\ UNCHANGED removed

\* enableReading and enableWriting.
Enable(c, e) == c \notin removed /\ Update(c, events[c] \cup {e})

\* disableReading and disableWriting, on a channel that has been added.
Disable(c, e) == c \in pChannels /\ Update(c, events[c] \ {e})

DisableAll(c) == c \in pChannels /\ Update(c, {})

Remove(c) ==
    /\ c \in pChannels /\ events[c] = {}
    /\ pollAborted' = ~(PollRemoveAsserts(c) /\ EPollRemoveAsserts(c))
    /\ PollRemove(c) /\ EPollRemove(c)
    /\ removed' = removed \cup {c}
    /\ UNCHANGED events

\* ~Channel, and a new Channel for the next use of the descriptor.
Renew(c) ==
    /\ c \in removed
    /\ pollAborted' = (c \in pChannels \cup eChannels)
    /\ removed' = removed \ {c}
    /\ events' = [events EXCEPT ![c] = {}]
    /\ pIndex' = [pIndex EXCEPT ![c] = 0]
    /\ eIndex' = [eIndex EXCEPT ![c] = "kNew"]
    /\ UNCHANGED <<pChannels, pollfds, eChannels, added, interest>>

----------------------------------------------------------------------------
PollersInit ==
    /\ events = [c \in Channels |-> {}] /\ removed = {}
    /\ pIndex = [c \in Channels |-> 0] /\ pChannels = {} /\ pollfds = <<>>
    /\ eIndex = [c \in Channels |-> "kNew"] /\ eChannels = {}
    /\ added = {} /\ interest = [c \in Channels |-> {}]
    /\ pollAborted = FALSE

PollersNext ==
    /\ ~pollAborted
    /\ \E c \in Channels :
          \/ \E e \in Event : Enable(c, e) \/ Disable(c, e)
          \/ DisableAll(c) \/ Remove(c) \/ Renew(c)

PollersSpec == PollersInit /\ [][PollersNext]_pollersVars

----------------------------------------------------------------------------
(* Properties.                                                             *)

\* Types of the channels and of the two pollers.
PollersTypes ==
    /\ events \in [Channels -> SUBSET Event] /\ removed \subseteq Channels
    /\ pIndex \in [Channels -> Nat] /\ pChannels \subseteq Channels
    /\ pollfds \in Seq(PollFd)
    /\ eIndex \in [Channels -> {"kNew", "kAdded", "kDeleted"}]
    /\ eChannels \subseteq Channels /\ added \subseteq Channels
    /\ interest \in [Channels -> SUBSET Event]
    /\ pollAborted \in BOOLEAN

\* No assertion of the pollers fails and epoll_ctl is never asked to add twice or
\* to change what is not there, however channels come, go and take each other's
\* place in pollfds_.
PollersHold == pollAborted = FALSE

\* The two pollers report the same channels, whatever is ready, and exactly those
\* that asked for what is ready; except that the epoll set may also report errors
\* of a channel that asked for nothing.
SameEvents ==
    \A ready \in [Channels -> SUBSET Ready] :
        LET asked == {c \in pChannels :
                         events[c] # {} /\ (events[c] \cup {"error"}) \cap ready[c] # {}}
        IN  /\ PollActive(ready) = asked
            /\ {c \in EPollActive(ready) : events[c] # {}} = asked
=============================================================================

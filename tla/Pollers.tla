------------------------------- MODULE Pollers -------------------------------
(***************************************************************************)
(* The four pollers an EventLoop can be given (event_poll.cc,              *)
(* event_select.cc, event_kqueue.cc, and event_epoll.cc in Dispatch) under *)
(* the same calls of the same Dispatches.  Each keeps its own record of    *)
(* what to watch: a vector that indices point into, sets of descriptors    *)
(* with a bound, or filters in the kernel that modify_ changes one by one. *)
(* A descriptor is closed after RemoveEvents, and its number used again.   *)
(***************************************************************************)
EXTENDS Integers, Sequences

CONSTANT Fds  \* descriptors, numbered from 0 up

ASSUME FdsAssumption == Fds \subseteq Nat /\ Fds # {}

VARIABLES
    dispatch,  \* per descriptor: its Dispatch, or NoDispatch
    index_,    \* of the Dispatch, as EventPoll uses it
    pollfds_,  \* of EventPoll
    added,     \* descriptors in dispatch_map_ of EventSelect and EventKqueue
    select,    \* readfds_, writefds_, worker_map_ and nfds_ of EventSelect
    kq,        \* the kernel's filters: "no", "on" or "off"
    epoll      \* the Dispatch in EventEpoll

pollersVars == <<dispatch, index_, pollfds_, added, select, kq, epoll>>

E == INSTANCE Dispatch

Events == E!Events
NoDispatch == [is |-> "none"]
Live(f) == dispatch[f] # NoDispatch
NewDispatch == [is |-> "live", events |-> {}, addWrite |-> FALSE, modify |-> "kNoModify"]

PollersTypeOK ==
    /\ \A f \in Fds : Live(f) => dispatch[f].events \subseteq Events
    /\ index_ \in [Fds -> Nat \cup {-1}]
    /\ pollfds_ \in Seq([fd : Int, events : SUBSET Events])
    /\ added \subseteq Fds
    /\ kq \in [Fds -> [Events -> {"no", "on", "off"}]]
    /\ epoll \in [Fds -> E!Dispatches]

PollersInit ==
    /\ dispatch = [f \in Fds |-> NoDispatch]
    /\ index_ = [f \in Fds |-> -1]
    /\ pollfds_ = <<>>
    /\ added = {}
    /\ select = [read |-> {}, write |-> {}, workers |-> {}, nfds |-> 0]
    /\ kq = [f \in Fds |-> [e \in Events |-> "no"]]
    /\ epoll = [f \in Fds |-> E!NewDispatch]

-----------------------------------------------------------------------------
(* EventPoll.  pollfds_[i] of the code is pollfds_[i + 1] here.            *)

Ignored(f) == -f - 1

PollUpdate(f, d) ==
    IF index_[f] = -1
    THEN /\ pollfds_' = Append(pollfds_, [fd |-> f, events |-> d.events])
         /\ index_' = [index_ EXCEPT ![f] = Len(pollfds_)]
    ELSE /\ pollfds_' = [pollfds_ EXCEPT ![index_[f] + 1] =
                            [fd |-> IF d.events = {} THEN Ignored(f) ELSE f, events |-> d.events]]
         /\ UNCHANGED index_

\* The last entry takes the place of the removed one.
ReindexedIfWatched(fd, idx) == IF fd < 0 THEN index_ ELSE [index_ EXCEPT ![fd] = idx]
Reindexed(fd, idx) == [index_ EXCEPT ![IF fd < 0 THEN -fd - 1 ELSE fd] = idx]
PollRemove(f) ==
    LET n == Len(pollfds_)
        last == pollfds_[n]
    IN  /\ pollfds_' = [i \in 1..(n - 1) |-> IF i = index_[f] + 1 THEN last ELSE pollfds_[i]]
        /\ index_' = IF index_[f] = n - 1 THEN index_ ELSE Reindexed(last.fd, index_[f])

\* What Poll() hands to the Dispatch of f when `ready` holds of the descriptors.
PollReport(f, ready) ==
    UNION {pollfds_[i].events \cap ready[f] : i \in {j \in DOMAIN pollfds_ : pollfds_[j].fd = f}}

-----------------------------------------------------------------------------
(* EventSelect.                                                            *)

Modified(s, f, m) ==
    [s EXCEPT !.read = IF m = "kAddRead" THEN @ \cup {f}
                       ELSE IF m \in {"kDeleteRead", "kDeleteAll"} THEN @ \ {f} ELSE @,
              !.write = IF m \in {"kAddWrite", "kEnableWrite"} THEN @ \cup {f}
                        ELSE IF m \in {"kDeleteWrite", "kDisableWrite", "kDeleteAll"}
                        THEN @ \ {f} ELSE @]

\* nfds_ from the last key of worker_map_.
Highest(workers) ==
    IF workers = {} THEN 1 ELSE 1 + (CHOOSE n \in workers : \A f \in workers : n >= f)

SelectUpdate(f, d) ==
    LET workers == IF d.events = {} THEN select.workers \ {f} ELSE select.workers \cup {f}
    IN  select' = [Modified(select, f, d.modify) EXCEPT
                       !.workers = workers, !.nfds = Highest(workers)]

SelectReport(f, ready) ==
    IF f \in select.workers /\ f < select.nfds
    THEN ready[f] \cap ((IF f \in select.read THEN {"read"} ELSE {})
                        \cup (IF f \in select.write THEN {"write"} ELSE {}))
    ELSE {}

-----------------------------------------------------------------------------
(* EventKqueue.  kevent() fails on a filter that is not there, and then    *)
(* makes none of the changes that follow in its list; this is only logged. *)

EvAdd(k, e) == [k EXCEPT ![e] = "on"]
EvDelete(k, e) == [k EXCEPT ![e] = "no"]
EvEnable(k, e) == IF k[e] = "no" THEN k ELSE [k EXCEPT ![e] = "on"]
EvDisable(k, e) == IF k[e] = "no" THEN k ELSE [k EXCEPT ![e] = "off"]

KqueueChange(k, m) ==
    CASE m = "kAddRead"      -> EvAdd(k, "read")
      [] m = "kAddWrite"     -> EvAdd(k, "write")
      [] m = "kDeleteRead"   -> EvDelete(k, "read")
      [] m = "kDeleteWrite"  -> EvDelete(k, "write")
      [] m = "kEnableWrite"  -> EvEnable(k, "write")
      [] m = "kDisableWrite" -> EvDisable(k, "write")
      [] m = "kDeleteAll"    -> IF k["read"] = "no" THEN k
                                ELSE EvDelete(EvDelete(k, "read"), "write")

KqueueUpdate(f, d) == kq' = [kq EXCEPT ![f] = KqueueChange(@, d.modify)]

KqueueReport(f, ready) == {e \in ready[f] : kq[f][e] = "on"}

-----------------------------------------------------------------------------
(* Dispatch, on the loop's thread.                                         *)

\* UpdateEvents; e is what the same operation of Dispatch makes of the one in epoll.
UpdateEvents(f, d, e) ==
    /\ dispatch' = [dispatch EXCEPT ![f] = d]
    /\ PollUpdate(f, d) /\ SelectUpdate(f, d) /\ KqueueUpdate(f, d)
    /\ added' = added \cup {f}
    /\ epoll' = [epoll EXCEPT ![f] = e]

Open(f) ==
    /\ ~Live(f)
    /\ dispatch' = [dispatch EXCEPT ![f] = NewDispatch]
    /\ index_' = [index_ EXCEPT ![f] = -1]
    /\ epoll' = [epoll EXCEPT ![f] = E!NewDispatch]
    /\ UNCHANGED <<pollfds_, added, select, kq>>

EnableRead(f) ==
    /\ Live(f)
    /\ UpdateEvents(f, [dispatch[f] EXCEPT !.events = @ \cup {"read"}, !.modify = "kAddRead"],
                    E!EnableRead(epoll[f]))

\* The filter of a write that was only disabled is enabled again.
WriteModify(d) == IF d.addWrite THEN "kEnableWrite" ELSE "kAddWrite"
EnableWrite(f) ==
    /\ Live(f)
    /\ UpdateEvents(f, [dispatch[f] EXCEPT !.events = @ \cup {"write"}, !.addWrite = TRUE,
                                           !.modify = WriteModify(dispatch[f])],
                    E!EnableWrite(epoll[f]))

\* The library disables what it enabled before.
DisableRead(f) ==
    /\ Live(f) /\ f \in added
    /\ UpdateEvents(f, [dispatch[f] EXCEPT !.events = @ \ {"read"}, !.modify = "kDeleteRead"],
                    E!DisableRead(epoll[f]))

DisableWrite(f) ==
    /\ Live(f) /\ dispatch[f].addWrite
    /\ UpdateEvents(f, [dispatch[f] EXCEPT !.events = @ \ {"write"}, !.modify = "kDisableWrite"],
                    E!DisableWrite(epoll[f]))

AllModify(d) ==
    IF "read" \in d.events THEN IF d.addWrite THEN "kDeleteAll" ELSE "kDeleteRead"
    ELSE IF d.addWrite THEN "kDeleteWrite" ELSE "kNoModify"

DisableAll(f) ==
    /\ Live(f) /\ AllModify(dispatch[f]) # "kNoModify"
    /\ UpdateEvents(f, [dispatch[f] EXCEPT !.events = {}, !.addWrite = FALSE,
                                           !.modify = AllModify(dispatch[f])],
                    E!DisableAll(epoll[f]))

\* RemoveEvents, which every caller calls just after DisableAll; the Dispatch is then
\* destroyed and f closed.  A TcpAcceptor destroyed before EnableListen calls it for a
\* Dispatch no poller knows, against the asserts of RemoveDispatch, which are off in a
\* release build: what follows is undefined and is not followed here.
RemoveEvents(f) ==
    /\ Live(f) /\ AllModify(dispatch[f]) = "kNoModify" /\ f \in added
    /\ dispatch' = [dispatch EXCEPT ![f] = NoDispatch]
    /\ PollRemove(f)
    /\ added' = added \ {f}
    /\ epoll' = [epoll EXCEPT ![f] = E!RemoveDispatch(@)]
    /\ UNCHANGED <<select, kq>>

PollersNext ==
    \E f \in Fds :
        \/ Open(f)
        \/ EnableRead(f) \/ EnableWrite(f)
        \/ DisableRead(f) \/ DisableWrite(f) \/ DisableAll(f)
        \/ RemoveEvents(f)

PollersSpec == PollersInit /\ [][PollersNext]_pollersVars

-----------------------------------------------------------------------------
(* Properties.                                                             *)

\* What a poller has to report: what the Dispatch asks for, and nothing when the
\* descriptor has none.
Asked(f, ready) == IF Live(f) THEN dispatch[f].events \cap ready[f] ELSE {}
AllReady == [f \in Fds |-> Events]

\* EventPoll watches for each Dispatch exactly what it asks for, whatever was removed
\* before it, and index_ names the entry that is its own.
PollExact ==
    \A f \in Fds :
        /\ PollReport(f, AllReady) = Asked(f, AllReady)
        /\ f \in added => /\ index_[f] + 1 \in DOMAIN pollfds_
                          /\ pollfds_[index_[f] + 1].fd =
                                IF dispatch[f].events = {} THEN Ignored(f) ELSE f

\* EventSelect watches exactly what the Dispatches ask for: the three places where it
\* keeps that, the sets, worker_map_ and the bound nfds_, agree.
SelectExact ==
    \A f \in Fds :
        /\ SelectReport(f, AllReady) = Asked(f, AllReady)
        /\ f \in select.read \cup select.write => f \in select.workers

\* EventKqueue, which is told only the change, and EventEpoll, which is told the whole
\* interest, end with the same filters on; a Dispatch that is gone has none left.
KqueueExact ==
    \A f \in Fds :
        /\ KqueueReport(f, AllReady) = Asked(f, AllReady)
        /\ epoll[f].interest = Asked(f, AllReady)
        /\ ~Live(f) => \A e \in Events : kq[f][e] = "no"

\* Whatever was enabled, disabled and removed in whatever order, every poller
\* reports for every Dispatch what it asks for and nothing else.
WatchedExactly == PollersTypeOK /\ PollExact /\ SelectExact /\ KqueueExact
=============================================================================

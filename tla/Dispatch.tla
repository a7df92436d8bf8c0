------------------------------ MODULE Dispatch ------------------------------
(***************************************************************************)
(* One descriptor's Dispatch (voyager/core/dispatch.cc) and its place in   *)
(* the epoll poller (voyager/core/event_epoll.cc), as operators on a       *)
(* record:                                                                 *)
(*   events    the interest the Dispatch records (events_)                 *)
(*   addWrite  add_write_                                                  *)
(*   index     "kNew", "kAdded" or "kDeleted" (index_)                     *)
(*   mapped    the poller's dispatch_map_ points to this Dispatch          *)
(*   inKernel  the descriptor is in the kernel's epoll set                 *)
(*   interest  what the kernel was last told to watch for                  *)
(* epoll_ctl fails, and changes nothing, when it adds a descriptor that is *)
(* there or modifies or deletes one that is not; EpollCTL only logs that.  *)
(***************************************************************************)

Events == {"read", "write"}

Dispatches ==
    [events : SUBSET Events, addWrite : BOOLEAN,
     index : {"kNew", "kAdded", "kDeleted"}, mapped : BOOLEAN,
     inKernel : BOOLEAN, interest : SUBSET Events]

\* The constructor.
NewDispatch ==
    [events |-> {}, addWrite |-> FALSE, index |-> "kNew", mapped |-> FALSE,
     inKernel |-> FALSE, interest |-> {}]

IsReading(d) == "read" \in d.events
IsWriting(d) == "write" \in d.events

\* EPOLL_CTL_ADD, EPOLL_CTL_MOD and EPOLL_CTL_DEL.
CtlAdd(d) == IF d.inKernel THEN d ELSE [d EXCEPT !.inKernel = TRUE, !.interest = d.events]
CtlMod(d) == IF d.inKernel THEN [d EXCEPT !.interest = d.events] ELSE d
CtlDel(d) == [d EXCEPT !.inKernel = FALSE, !.interest = {}]

\* EventEpoll::UpdateDispatch, the asserts of which a release build drops.
UpdateDispatch(d) ==
    IF d.index = "kAdded"
    THEN IF d.events = {}
         THEN [CtlDel(d) EXCEPT !.index = "kDeleted"]
         ELSE CtlMod(d)
    ELSE CtlAdd([d EXCEPT !.index = "kAdded", !.mapped = TRUE])

\* EventEpoll::RemoveDispatch.
RemoveDispatch(d) ==
    LET e == [d EXCEPT !.mapped = FALSE, !.index = "kNew"] IN
    IF d.index = "kAdded" THEN CtlDel(e) ELSE e

EnableRead(d) == UpdateDispatch([d EXCEPT !.events = @ \cup {"read"}])

EnableWrite(d) == UpdateDispatch([d EXCEPT !.events = @ \cup {"write"}, !.addWrite = TRUE])

DisableRead(d) == UpdateDispatch([d EXCEPT !.events = @ \ {"read"}])

DisableWrite(d) ==
    IF d.addWrite THEN UpdateDispatch([d EXCEPT !.events = @ \ {"write"}]) ELSE d

DisableAll(d) ==
    IF IsReading(d) \/ d.addWrite
    THEN UpdateDispatch([d EXCEPT !.events = {}, !.addWrite = FALSE])
    ELSE d

\* The kernel watches for what the Dispatch records.
InSync(d) ==
    /\ d.interest = d.events
    /\ d.inKernel <=> d.events # {}

\* Neither the poller nor the kernel refers to the Dispatch any more.
Unregistered(d) == ~d.mapped /\ ~d.inKernel
=============================================================================

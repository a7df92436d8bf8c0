------------------------------ MODULE TimerList ------------------------------
(***************************************************************************)
(* The timers of an EventLoop (voyager/core/timerlist.cc), with the part   *)
(* of EventLoop::Loop() that asks for the poll timeout and runs what is    *)
(* due.  Timers are inserted and erased on the loop thread, by a callback, *)
(* a handler or a function, or from other threads through the queue.       *)
(*                                                                         *)
(* A Timer lives at an address; addresses of deleted timers are used       *)
(* again, and a TimerId held by a caller is only an address (the time it   *)
(* also holds is overwritten in EraseInLoop).  Callers may erase any id    *)
(* they were ever given, also one whose timer is gone.  The wall clock     *)
(* moves on and may be set back.                                           *)
(***************************************************************************)
EXTENDS Naturals, Sequences, FiniteSets

CONSTANTS
    Addrs,       \* where new finds room for a Timer
    Delays,      \* delays asked for in RunAfter and RunEvery
    Intervals,   \* intervals asked for in RunEvery
    PollTimeMs,  \* kPollTimeMs of EventLoop::Loop
    MaxTimers,   \* bound: timers created in a behaviour
    MaxErases,   \* bound: calls of RemoveTimer
    MaxTime,     \* bound: the wall clock
    MaxSteps     \* bound: times the clock is set back

ASSUME TimesAssumption ==
    /\ Delays \subseteq Nat
    /\ Intervals \subseteq Nat \ {0}
    /\ PollTimeMs \in Nat \ {0}
ASSUME BoundsAssumption ==
    /\ MaxTimers \in Nat /\ MaxErases \in Nat
    /\ MaxTime \in Nat /\ MaxSteps \in Nat

VARIABLES
    timers_,         \* set of <<time, address>>, ordered by time
    timer_ptrs_,     \* addresses of the timers in the list
    heap,            \* what is at each address: a timer or NoTimer
    last_time_out_,
    funcs,           \* functions queued in the loop
    pc,              \* "work", "poll", "procs" or "cb"
    ms_now,          \* the local of RunTimerProcs, 0 outside it
    wakeAt,          \* when Poll() gives up waiting, 0 outside it
    now,             \* the wall clock
    addrOf,          \* the TimerIds given out: the address of each timer
    due,             \* history: when each timer was asked to fire first
    fired,           \* history: timers that have fired
    erased,          \* history: timers EraseInLoop has taken out of the list
    pass,            \* history: timers fired in this call of RunTimerProcs, in order
    nerases, nsteps

listVars == <<timers_, timer_ptrs_, heap>>
history == <<addrOf, due, fired, erased>>
vars == <<listVars, last_time_out_, funcs, pc, ms_now, wakeAt, now, history,
          pass, nerases, nsteps>>

Ids == 1..MaxTimers
NoTimer == [id |-> 0, value |-> 0, interval |-> 0]
Timers == [id : Ids, value : Nat, interval : {0} \cup Intervals]

TypeOK ==
    /\ timers_ \subseteq Nat \X Addrs
    /\ timer_ptrs_ \subseteq Addrs
    /\ heap \in [Addrs -> Timers \cup {NoTimer}]
    /\ last_time_out_ \in Nat
    /\ funcs \in Seq([op : {"insert", "erase"}, addr : Addrs])
    /\ pc \in {"work", "poll", "procs", "cb"}
    /\ ms_now \in Nat /\ wakeAt \in Nat /\ now \in Nat
    /\ addrOf \in Seq(Addrs)
    /\ due \in Seq(Nat)
    /\ Len(due) = Len(addrOf) /\ Len(addrOf) <= MaxTimers
    /\ fired \subseteq Ids /\ erased \subseteq Ids
    /\ pass \in Seq(Ids)
    /\ nerases \in Nat /\ nsteps \in Nat

Init ==
    /\ timers_ = {}
    /\ timer_ptrs_ = {}
    /\ heap = [a \in Addrs |-> NoTimer]
    /\ now \in 0..1
    /\ last_time_out_ = now
    /\ funcs = <<>>
    /\ pc = "work"
    /\ ms_now = 0
    /\ wakeAt = 0
    /\ addrOf = <<>>
    /\ due = <<>>
    /\ fired = {}
    /\ erased = {}
    /\ pass = <<>>
    /\ nerases = 0
    /\ nsteps = 0

-----------------------------------------------------------------------------
(* The list.                                                               *)

\* The loop thread runs code of the caller: a handler, a function, a timer.
InCallersCode == pc \in {"work", "cb"}

InsertInLoop(a, t) ==
    /\ timers_' = timers_ \cup {<<t.value, a>>}
    /\ timer_ptrs_' = timer_ptrs_ \cup {a}

\* EraseInLoop trusting the time in the TimerId it was given.
EraseInLoopByIdTime(a) ==
    IF a \in timer_ptrs_
    THEN /\ timers_' = timers_ \ {<<due[heap[a].id], a>>}
         /\ timer_ptrs_' = timer_ptrs_ \ {a}
         /\ heap' = [heap EXCEPT ![a] = NoTimer]
         /\ erased' = erased \cup {heap[a].id}
    ELSE UNCHANGED <<listVars, erased>>

\* EraseInLoop that frees the timer and forgets its entry in timers_.
EraseInLoopPtrOnly(a) ==
    IF a \in timer_ptrs_
    THEN /\ timer_ptrs_' = timer_ptrs_ \ {a}
         /\ erased' = erased \cup {heap[a].id}
         /\ UNCHANGED <<timers_, heap>>
    ELSE UNCHANGED <<listVars, erased>>

\* EraseInLoop: whatever timer is at the address now goes.
EraseInLoop(a) ==
    IF a \in timer_ptrs_
    THEN /\ timers_' = timers_ \ {<<heap[a].value, a>>}
         /\ timer_ptrs_' = timer_ptrs_ \ {a}
         /\ heap' = [heap EXCEPT ![a] = NoTimer]
         /\ erased' = erased \cup {heap[a].id}
    ELSE UNCHANGED <<listVars, erased>>

\* new Timer: value and interval are what RunAt, RunAfter or RunEvery pass on.
NewTimer(a, value, interval) ==
    /\ Len(addrOf) < MaxTimers
    /\ heap[a] = NoTimer
    /\ heap' = [heap EXCEPT ![a] =
                   [id |-> Len(addrOf) + 1, value |-> value, interval |-> interval]]
    /\ addrOf' = Append(addrOf, a)
    /\ due' = Append(due, value)

\* RunAfter (interval 0) and RunEvery (delay = interval) on the loop thread.
LoopInsert(a, delay, interval) ==
    /\ InCallersCode
    /\ NewTimer(a, now + delay, interval)
    /\ InsertInLoop(a, heap'[a])
    /\ UNCHANGED <<last_time_out_, funcs, pc, ms_now, wakeAt, now, fired, erased,
                   pass, nerases, nsteps>>

\* RunAfter and RunEvery on another thread.
ThreadInsert(a, delay, interval) ==
    /\ NewTimer(a, now + delay, interval)
    /\ funcs' = Append(funcs, [op |-> "insert", addr |-> a])
    /\ UNCHANGED <<timers_, timer_ptrs_, last_time_out_, pc, ms_now, wakeAt, now,
                   fired, erased, pass, nerases, nsteps>>

LoopErase(n) ==
    /\ InCallersCode
    /\ nerases < MaxErases
    /\ nerases' = nerases + 1
    /\ EraseInLoop(addrOf[n])
    /\ UNCHANGED <<last_time_out_, funcs, pc, ms_now, wakeAt, now, addrOf, due,
                   fired, pass, nsteps>>

ThreadErase(n) ==
    /\ nerases < MaxErases
    /\ nerases' = nerases + 1
    /\ funcs' = Append(funcs, [op |-> "erase", addr |-> addrOf[n]])
    /\ UNCHANGED <<listVars, last_time_out_, pc, ms_now, wakeAt, now, history,
                   pass, nsteps>>

\* The loop executes a queued insertion or erasure.
RunFunc ==
    /\ pc = "work"
    /\ funcs # <<>>
    /\ funcs' = Tail(funcs)
    /\ LET f == Head(funcs) IN
       \/ /\ f.op = "insert"
          /\ InsertInLoop(f.addr, heap[f.addr])
          /\ UNCHANGED <<heap, erased>>
       \/ /\ f.op = "erase"
          /\ EraseInLoop(f.addr)
    /\ UNCHANGED <<last_time_out_, pc, ms_now, wakeAt, now, addrOf, due, fired,
                   pass, nerases, nsteps>>

-----------------------------------------------------------------------------
(* The loop.                                                               *)

\* timers_.begin(): an entry with the least time.
IsFirst(e) == e \in timers_ /\ \A f \in timers_ : e[1] <= f[1]

TimeoutMsOfLast ==
    IF timers_ = {} THEN PollTimeMs
    ELSE LET last == CHOOSE e \in timers_ : \A f \in timers_ : f[1] <= e[1]
         IN  IF now < last_time_out_ \/ last[1] <= now THEN 0 ELSE last[1] - now

\* TimeoutMs(); the 2^64 - 1 it returns for an empty list is cut to
\* kPollTimeMs by its caller, as any other value is.
TimeoutMs ==
    IF timers_ = {} THEN PollTimeMs
    ELSE LET first == CHOOSE e \in timers_ : IsFirst(e)
         IN  IF now < last_time_out_ \/ first[1] <= now THEN 0 ELSE first[1] - now

\* Loop() asks for the timeout and enters Poll().
EnterPoll ==
    /\ pc = "work"
    /\ pc' = "poll"
    /\ wakeAt' = now + IF TimeoutMs < PollTimeMs THEN TimeoutMs ELSE PollTimeMs
    /\ UNCHANGED <<listVars, last_time_out_, funcs, ms_now, now, history, pass,
                   nerases, nsteps>>

\* The entry of a timer after the clock went back by diff.
Earlier(value, diff) == IF value > diff THEN value - diff ELSE 0

\* RunTimerProcs moves every timer by what the clock went back.
Shift(diff) ==
    /\ timers_' = {<<Earlier(e[1], diff), e[2]>> : e \in timers_}
    /\ heap' = [a \in Addrs |->
                  IF \E e \in timers_ : e[2] = a
                  THEN [heap[a] EXCEPT !.value =
                          Earlier((CHOOSE e \in timers_ : e[2] = a)[1], diff)]
                  ELSE heap[a]]

\* Poll() returns and RunTimerProcs finds no timer.
PollNoTimers ==
    /\ pc = "poll"
    /\ timers_ = {}
    /\ pc' = "work"
    /\ wakeAt' = 0
    /\ UNCHANGED <<listVars, last_time_out_, funcs, ms_now, now, history, pass,
                   nerases, nsteps>>

\* Poll() returns, for an event or at wakeAt; RunTimerProcs begins.
RunTimerProcs ==
    /\ pc = "poll"
    /\ timers_ # {}
    /\ pc' = "procs"
    /\ ms_now' = now
    /\ IF now < last_time_out_
       THEN Shift(last_time_out_ - now)
       ELSE UNCHANGED <<timers_, heap>>
    /\ last_time_out_' = now
    /\ wakeAt' = 0
    /\ UNCHANGED <<timer_ptrs_, funcs, now, history, pass, nerases, nsteps>>

\* The next time of a periodic timer.
NextValue(t) == ms_now + t.interval

FireEarly(e) ==
    /\ pc \in {"procs", "cb"}
    /\ IsFirst(e) /\ e[1] <= ms_now + 1
    /\ pc' = "cb"
    /\ fired' = fired \cup {heap[e[2]].id}
    /\ pass' = Append(pass, heap[e[2]].id)
    /\ timers_' = timers_ \ {e}
    /\ heap' = [heap EXCEPT ![e[2]] = NoTimer]
    /\ timer_ptrs_' = timer_ptrs_ \ {e[2]}
    /\ UNCHANGED <<last_time_out_, funcs, ms_now, wakeAt, now, addrOf, due,
                   erased, nerases, nsteps>>

\* RunTimerProcs takes the first due timer, puts a periodic one back or
\* deletes a one-shot one, and calls it.
Fire(e) ==
    LET t == heap[e[2]] IN
    /\ pc \in {"procs", "cb"}
    /\ IsFirst(e) /\ e[1] <= ms_now
    /\ pc' = "cb"
    /\ fired' = fired \cup {t.id}
    /\ pass' = Append(pass, t.id)
    /\ IF t.interval > 0
       THEN /\ timers_' = (timers_ \ {e}) \cup {<<NextValue(t), e[2]>>}
            /\ heap' = [heap EXCEPT ![e[2]].value = NextValue(t)]
            /\ UNCHANGED timer_ptrs_
       ELSE /\ timers_' = timers_ \ {e}
            /\ heap' = [heap EXCEPT ![e[2]] = NoTimer]
            /\ timer_ptrs_' = timer_ptrs_ \ {e[2]}
    /\ UNCHANGED <<last_time_out_, funcs, ms_now, wakeAt, now, addrOf, due,
                   erased, nerases, nsteps>>

EndTimerProcsAnyTime ==
    /\ pc \in {"procs", "cb"}
    /\ pc' = "work"
    /\ ms_now' = 0
    /\ pass' = <<>>
    /\ UNCHANGED <<listVars, last_time_out_, funcs, wakeAt, now, history, nerases,
                   nsteps>>

\* Nothing more is due; Loop() goes on with handlers and functions.
EndTimerProcs ==
    /\ pc \in {"procs", "cb"}
    /\ \A e \in timers_ : e[1] > ms_now
    /\ pc' = "work"
    /\ ms_now' = 0
    /\ pass' = <<>>
    /\ UNCHANGED <<listVars, last_time_out_, funcs, wakeAt, now, history, nerases,
                   nsteps>>

-----------------------------------------------------------------------------
(* The clock.                                                              *)

Tick ==
    /\ now < MaxTime
    /\ now' = now + 1
    /\ UNCHANGED <<listVars, last_time_out_, funcs, pc, ms_now, wakeAt, history,
                   pass, nerases, nsteps>>

\* The clock is set back; a wait in Poll() is not affected.
ClockBack(d) ==
    /\ nsteps < MaxSteps
    /\ d \in 1..now
    /\ now' = now - d
    /\ nsteps' = nsteps + 1
    /\ wakeAt' = Earlier(wakeAt, d)
    /\ UNCHANGED <<listVars, last_time_out_, funcs, pc, ms_now, history, pass, nerases>>

Insert(a) ==
    \/ \E d \in Delays : LoopInsert(a, d, 0) \/ ThreadInsert(a, d, 0)
    \/ \E i \in Intervals : LoopInsert(a, i, i) \/ ThreadInsert(a, i, i)

LoopStep ==
    \/ RunFunc \/ EnterPoll \/ PollNoTimers \/ RunTimerProcs \/ EndTimerProcs
    \/ \E e \in timers_ : Fire(e)

Next ==
    \/ LoopStep
    \/ \E a \in Addrs : Insert(a)
    \/ \E n \in 1..Len(addrOf) : LoopErase(n) \/ ThreadErase(n)
    \/ Tick
    \/ \E d \in 1..MaxTime : ClockBack(d)

Spec == Init /\ [][Next]_vars

\* The loop thread keeps running: callbacks return, Poll() returns in time,
\* and queued functions are executed (EventLoop shows that they are).
Fairness ==
    /\ WF_vars(EnterPoll \/ PollNoTimers \/ RunTimerProcs \/ EndTimerProcs)
    /\ WF_vars(\E e \in timers_ : Fire(e))
    /\ SF_vars(RunFunc)

FairSpec == Spec /\ Fairness

-----------------------------------------------------------------------------
(* Properties.                                                             *)

\* timers_, timer_ptrs_ and the ms_value of each timer tell the same story,
\* through insertion, erasure, the reinsertion of periodic timers and the
\* clock adjustment; so no entry points to a deleted timer, and the entry
\* that EraseInLoop builds from ms_value is the one in timers_.
ListsAgree ==
    /\ timers_ = {<<heap[a].value, a>> : a \in timer_ptrs_}
    /\ \A a \in timer_ptrs_ : heap[a] # NoTimer

\* The inductive strengthening: a queued insertion refers to a timer that is
\* alive and not in the list, and no two to the same one; live timers have
\* different numbers, none of them erased, and none fired if it is one-shot.
Live(a) == heap[a] # NoTimer

QueuedApart ==
    /\ \A i \in 1..Len(funcs) :
          funcs[i].op = "insert" => Live(funcs[i].addr) /\ funcs[i].addr \notin timer_ptrs_
    /\ \A i, j \in 1..Len(funcs) :
          /\ funcs[i].op = "insert" /\ funcs[j].op = "insert"
          /\ funcs[i].addr = funcs[j].addr
          => i = j

IdsApart ==
    /\ fired \cup erased \subseteq 1..Len(addrOf)
    /\ \A a \in Addrs : Live(a) =>
          /\ heap[a].id \in 1..Len(addrOf)
          /\ heap[a].id \notin erased
          /\ heap[a].interval = 0 => heap[a].id \notin fired
    /\ \A a, b \in Addrs : Live(a) /\ Live(b) /\ heap[a].id = heap[b].id => a = b

IInv == TypeOK /\ ListsAgree /\ QueuedApart /\ IdsApart

\* A timer that EraseInLoop took out of the list never fires again, although
\* its address is used again and periodic timers put themselves back.
ErasedNeverFires ==
    [][\A i \in Len(pass) + 1..Len(pass') : pass'[i] \notin erased]_vars

\* A one-shot timer that has fired is gone from the list for good.
OneShotOnce ==
    \A a \in timer_ptrs_ : heap[a].interval = 0 => heap[a].id \notin fired

\* Unless the clock was set back, no timer fires before its time; and however
\* late the loop is, a timer fires at most once in a call of RunTimerProcs: a
\* periodic timer does not catch up on the intervals it missed.
OnceAndNotEarly ==
    /\ \A n \in 1..Len(due) : nsteps = 0 /\ n \in fired => due[n] <= now
    /\ \A i, j \in 1..Len(pass) : i # j => pass[i] # pass[j]

\* Poll() never waits past the first timer, whoever inserted it and when: a
\* timer from another thread gets into the list outside Poll().
WakesInTime ==
    pc = "poll" => \A e \in timers_ : wakeAt <= e[1] \/ wakeAt <= now \/ nsteps > 0

\* A timer in the list whose time has come fires or is erased.
InList(n) == \E a \in timer_ptrs_ : heap[a].id = n
DueFires ==
    \A n \in Ids :
        (\E a \in timer_ptrs_ : heap[a].id = n /\ heap[a].value <= now /\ nsteps = MaxSteps)
            ~> (~InList(n) \/ \E a \in timer_ptrs_ : heap[a].id = n /\ heap[a].value > now)
=============================================================================

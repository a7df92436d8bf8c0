------------------------------ MODULE EventLoop ------------------------------
(***************************************************************************)
(* The reactor of voyager/core/eventloop.cc: the loop thread, the queue    *)
(* of functions that other threads and the loop thread itself hand to it,  *)
(* and the socketpair that wakes the loop thread out of poll.              *)
(*                                                                         *)
(* The loop thread is one process whose position is pc:                    *)
(*   "out"     outside Loop(), before the first call or between two        *)
(*   "test"    at the loop condition, "poll" inside Poll()                 *)
(*   "handle"  running timers and the handlers of the polled dispatches    *)
(*   "run"     in RunFuncs() between two functions, "task" inside one      *)
(*   "wakeup"  inside the write() of a WakeUp() that a function caused     *)
(* Every other thread is at "idle", or at "wake" between its push under    *)
(* mutex_ (or its store to exit_) and the write() of its WakeUp().         *)
(***************************************************************************)
EXTENDS Naturals, Sequences

CONSTANTS
    Threads,    \* the threads other than the loop thread
    MaxTasks,   \* bound: functions handed over in a behaviour
    MaxExits,   \* bound: calls of Exit() in a behaviour
    MaxLoops,   \* bound: calls of Loop() in a behaviour
    PipeCap     \* 8-byte words the socketpair holds before write() blocks

ASSUME BoundsAssumption == MaxTasks \in Nat /\ MaxExits \in Nat /\ MaxLoops \in Nat
ASSUME PipeAssumption == PipeCap \in Nat \ {0}

VARIABLES
    pc,        \* position of the loop thread
    exit_, run_, funcs_,
    batch,     \* the functions swapped out of funcs_ that are still to run
    pipe,      \* words written to wakeup_fd_[1] and not read from wakeup_fd_[0]
    woken,     \* the wakeup dispatch was polled and HandleRead is still to run
    tpc,       \* position of each other thread
    ntasks,    \* functions handed over so far; they are named 1..ntasks
    ran,       \* history: the functions executed, in order
    early,     \* history: functions the loop thread queued outside Loop()
    exits, loops

vars == <<pc, exit_, run_, funcs_, batch, pipe, woken, tpc, ntasks, ran,
          early, exits, loops>>
loopVars == <<pc, exit_, run_, batch, woken, loops>>

TypeOK ==
    /\ pc \in {"out", "test", "poll", "handle", "run", "task", "wakeup"}
    /\ exit_ \in BOOLEAN
    /\ run_ \in BOOLEAN
    /\ funcs_ \in Seq(1..MaxTasks)
    /\ batch \in Seq(1..MaxTasks)
    /\ pipe \in 0..PipeCap
    /\ woken \in BOOLEAN
    /\ tpc \in [Threads -> {"idle", "wake"}]
    /\ ntasks \in 0..MaxTasks
    /\ ran \in Seq(1..MaxTasks)
    /\ early \in SUBSET (1..MaxTasks)
    /\ exits \in 0..MaxExits
    /\ loops \in 0..MaxLoops

\* The constructor; exit_ starts out true.
Init ==
    /\ pc = "out"
    /\ exit_ = TRUE
    /\ run_ = FALSE
    /\ funcs_ = <<>>
    /\ batch = <<>>
    /\ pipe = 0
    /\ woken = FALSE
    /\ tpc = [t \in Threads |-> "idle"]
    /\ ntasks = 0
    /\ ran = <<>>
    /\ early = {}
    /\ exits = 0
    /\ loops = 0

-----------------------------------------------------------------------------
(* The loop thread.                                                        *)

\* Loop() is called; it forgets an Exit() that came before it.
Enter ==
    /\ pc = "out"
    /\ loops < MaxLoops
    /\ pc' = "test"
    /\ exit_' = FALSE
    /\ loops' = loops + 1
    /\ UNCHANGED <<run_, funcs_, batch, pipe, woken, tpc, ntasks, ran, early, exits>>

\* while (!exit_)
Test ==
    /\ pc = "test"
    /\ pc' = IF exit_ THEN "out" ELSE "poll"
    /\ UNCHANGED <<exit_, run_, funcs_, batch, pipe, woken, tpc, ntasks, ran,
                   early, exits, loops>>

\* Poll() returns with the wakeup dispatch among the active ones.
PollWoken ==
    /\ pc = "poll"
    /\ pipe > 0
    /\ pc' = "handle"
    /\ woken' = TRUE
    /\ UNCHANGED <<exit_, run_, funcs_, batch, pipe, tpc, ntasks, ran, early,
                   exits, loops>>

\* Poll() returns for another descriptor, a timer, its time limit or a signal.
PollOther ==
    /\ pc = "poll"
    /\ pc' = "handle"
    /\ UNCHANGED <<exit_, run_, funcs_, batch, pipe, woken, tpc, ntasks, ran,
                   early, exits, loops>>

\* The read callback of the wakeup dispatch takes one word out of the pipe.
HandleRead ==
    /\ pc = "handle"
    /\ woken
    /\ woken' = FALSE
    /\ pipe' = pipe - 1
    /\ UNCHANGED <<pc, exit_, run_, funcs_, batch, tpc, ntasks, ran, early,
                   exits, loops>>

WakeUpNeededOnlyFromOutside(inMyLoop) == ~inMyLoop

\* Whether QueueInLoop writes to the pipe after its push.
WakeUpNeeded(inMyLoop) == ~inMyLoop \/ run_

\* The loop thread calls QueueInLoop: before Loop(), in a handler or a timer,
\* or in a function that RunFuncs executes.
LoopQueueInLoop ==
    /\ pc \in {"out", "handle", "task"}
    /\ ntasks < MaxTasks
    /\ ntasks' = ntasks + 1
    /\ funcs_' = Append(funcs_, ntasks')
    /\ early' = IF pc = "out" THEN early \cup {ntasks'} ELSE early
    /\ pc' = IF WakeUpNeeded(TRUE) THEN "wakeup" ELSE pc
    /\ UNCHANGED <<exit_, run_, batch, pipe, woken, tpc, ran, exits, loops>>

\* The loop thread calls RunInLoop, which executes the function on the spot.
LoopRunInLoop ==
    /\ pc \in {"out", "handle", "task"}
    /\ ntasks < MaxTasks
    /\ ntasks' = ntasks + 1
    /\ ran' = Append(ran, ntasks')
    /\ UNCHANGED <<pc, exit_, run_, funcs_, batch, pipe, woken, tpc, early,
                   exits, loops>>

\* The write() of the loop thread's own WakeUp(); it blocks on a full pipe.
LoopWakeUp ==
    /\ pc = "wakeup"
    /\ pipe < PipeCap
    /\ pipe' = pipe + 1
    /\ pc' = "task"
    /\ UNCHANGED <<exit_, run_, funcs_, batch, woken, tpc, ntasks, ran, early,
                   exits, loops>>

\* The loop thread calls Exit() in a handler or a function: no wakeup.
LoopExit ==
    /\ pc \in {"handle", "task"}
    /\ exits < MaxExits
    /\ exits' = exits + 1
    /\ exit_' = TRUE
    /\ UNCHANGED <<pc, run_, funcs_, batch, pipe, woken, tpc, ntasks, ran,
                   early, loops>>

\* RunFuncs() copying funcs_ instead of swapping it out.
RunFuncsCopying ==
    /\ pc = "handle"
    /\ ~woken
    /\ pc' = "run"
    /\ run_' = TRUE
    /\ batch' = funcs_
    /\ UNCHANGED <<exit_, funcs_, pipe, woken, tpc, ntasks, ran, early, exits, loops>>

\* RunFuncs() that returns at once when funcs_ is found empty, before the loop
\* condition is looked at again.
RunFuncsOnlyIfAny ==
    /\ pc = "handle"
    /\ ~woken
    /\ pc' = IF funcs_ = <<>> THEN "poll" ELSE "run"
    /\ run_' = (funcs_ # <<>>)
    /\ batch' = funcs_
    /\ funcs_' = <<>>
    /\ UNCHANGED <<exit_, pipe, woken, tpc, ntasks, ran, early, exits, loops>>

\* The handlers are through; RunFuncs() sets run_ and swaps funcs_ out.
RunFuncs ==
    /\ pc = "handle"
    /\ ~woken
    /\ pc' = "run"
    /\ run_' = TRUE
    /\ batch' = funcs_
    /\ funcs_' = <<>>
    /\ UNCHANGED <<exit_, pipe, woken, tpc, ntasks, ran, early, exits, loops>>

\* RunFuncs() executes the next function of its batch.
StartTask ==
    /\ pc = "run"
    /\ batch # <<>>
    /\ pc' = "task"
    /\ ran' = Append(ran, Head(batch))
    /\ batch' = Tail(batch)
    /\ UNCHANGED <<exit_, run_, funcs_, pipe, woken, tpc, ntasks, early, exits, loops>>

EndTask ==
    /\ pc = "task"
    /\ pc' = "run"
    /\ UNCHANGED <<exit_, run_, funcs_, batch, pipe, woken, tpc, ntasks, ran,
                   early, exits, loops>>

\* The batch is through; RunFuncs() clears run_ and returns to the condition.
EndRunFuncs ==
    /\ pc = "run"
    /\ batch = <<>>
    /\ pc' = "test"
    /\ run_' = FALSE
    /\ UNCHANGED <<exit_, funcs_, batch, pipe, woken, tpc, ntasks, ran, early,
                   exits, loops>>

-----------------------------------------------------------------------------
(* The other threads.                                                      *)

\* RunInLoop or QueueInLoop from thread t: the push under mutex_.
QueueInLoop(t) ==
    /\ tpc[t] = "idle"
    /\ ntasks < MaxTasks
    /\ ntasks' = ntasks + 1
    /\ funcs_' = Append(funcs_, ntasks')
    /\ tpc' = [tpc EXCEPT ![t] = IF WakeUpNeeded(FALSE) THEN "wake" ELSE "idle"]
    /\ UNCHANGED <<loopVars, pipe, ran, early, exits>>

ExitSilently(t) ==
    /\ tpc[t] = "idle"
    /\ exits < MaxExits
    /\ exits' = exits + 1
    /\ exit_' = TRUE
    /\ UNCHANGED <<pc, run_, funcs_, batch, pipe, woken, tpc, ntasks, ran,
                   early, loops>>

\* Exit() from thread t: the store to exit_.
Exit(t) ==
    /\ tpc[t] = "idle"
    /\ exits < MaxExits
    /\ exits' = exits + 1
    /\ exit_' = TRUE
    /\ tpc' = [tpc EXCEPT ![t] = "wake"]
    /\ UNCHANGED <<pc, run_, funcs_, batch, pipe, woken, ntasks, ran, early, loops>>

\* The write() of thread t's WakeUp(); it blocks on a full pipe.
WakeUp(t) ==
    /\ tpc[t] = "wake"
    /\ pipe < PipeCap
    /\ pipe' = pipe + 1
    /\ tpc' = [tpc EXCEPT ![t] = "idle"]
    /\ UNCHANGED <<loopVars, funcs_, ntasks, ran, early, exits>>

LoopStep ==
    \/ Test \/ PollWoken \/ HandleRead \/ LoopWakeUp
    \/ RunFuncs \/ StartTask \/ EndTask \/ EndRunFuncs

LoopCall == Enter \/ LoopQueueInLoop \/ LoopRunInLoop \/ LoopExit

ThreadStep(t) == QueueInLoop(t) \/ Exit(t) \/ WakeUp(t)

\* The program may leave the loop for good.
Returned ==
    /\ pc = "out"
    /\ UNCHANGED vars

Next ==
    \/ LoopStep
    \/ PollOther
    \/ LoopCall
    \/ \E t \in Threads : ThreadStep(t)
    \/ Returned

Spec == Init /\ [][Next]_vars

\* The operating system runs every thread that can run, a polled descriptor is
\* reported while it stays readable, and functions return.  Nothing is assumed
\* of PollOther, so that no property leans on the 5 s limit of Poll() or on
\* unrelated traffic.
Fairness ==
    /\ WF_vars(LoopStep)
    /\ \A t \in Threads : WF_vars(WakeUp(t))

FairSpec == Spec /\ Fairness

-----------------------------------------------------------------------------
(* Properties.                                                             *)

\* A word is in the pipe or is about to be written to it.
WakeUpComing == pipe > 0 \/ \E t \in Threads : tpc[t] = "wake"

\* A function other than those queued outside Loop() waits in funcs_.
FuncWaiting == \E i \in 1..Len(funcs_) : funcs_[i] \notin early

\* The loop thread never sleeps in Poll() on a function that was handed to it
\* while it was not outside Loop(): the wakeups of QueueInLoop
\* (eventloop.cc:141-174) are enough, and reading only one word per iteration
\* in HandleRead loses none of them.
NoLostWakeup == pc = "poll" /\ FuncWaiting => WakeUpComing

\* The inductive strengthening of the two properties: run_ and woken are set
\* exactly while RunFuncs() and the wakeup handler say so, a batch is left over
\* only inside RunFuncs(), and a waiting function has its wakeup coming at
\* every point but "handle", where RunFuncs() is still ahead.
FlagsInv ==
    /\ run_ <=> pc \in {"run", "task", "wakeup"}
    /\ woken => pc = "handle" /\ pipe > 0
    /\ batch # <<>> => pc \in {"run", "task", "wakeup"}

WakeUpInv == pc # "handle" /\ FuncWaiting => WakeUpComing \/ pc = "wakeup"

\* The loop thread never sleeps in Poll() after an Exit() from any thread
\* (eventloop.cc:126-131), although the store and the wakeup are two steps.
NoLostExit == pc = "poll" /\ exit_ => WakeUpComing

IInv == TypeOK /\ FlagsInv /\ WakeUpInv /\ NoLostExit

\* EventLoop implements TaskQueue: functions are executed at most once and in
\* the order queued, across the swap in RunFuncs (eventloop.cc:242-254).
TQ == INSTANCE TaskQueue WITH todo <- batch \o funcs_, done <- ran, issued <- ntasks

TaskQueueSpec == TQ!Spec

\* Every function handed over while its wakeup is due is executed, or Loop()
\* returns first, without help from the time limit of Poll().
HandedOverRun ==
    \A x \in 1..MaxTasks :
        (x <= ntasks /\ x \notin early)
            ~> ((\E i \in 1..Len(ran) : ran[i] = x) \/ pc = "out")

\* Exit() of a running loop makes Loop() return (eventloop.cc:126-131).
ExitReturns == (exit_ /\ pc # "out") ~> (pc = "out")
=============================================================================

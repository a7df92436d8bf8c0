------------------------------ MODULE TaskQueue ------------------------------
(***************************************************************************)
(* What an EventLoop promises the callers of QueueInLoop and RunInLoop:    *)
(* every function handed over is executed at most once, and the queued     *)
(* ones are executed in the order in which they were queued, whichever     *)
(* thread queued them.  A function the loop thread passes to RunInLoop is  *)
(* executed on the spot and may overtake the queued ones.                  *)
(***************************************************************************)
EXTENDS Naturals, Sequences

VARIABLES
    todo,     \* functions queued and not yet executed, oldest first
    done,     \* functions executed, oldest first
    issued    \* number of functions handed over; they are named 1..issued

vars == <<todo, done, issued>>

Init ==
    /\ todo = <<>>
    /\ done = <<>>
    /\ issued = 0

\* A function is queued behind all the others.
Submit ==
    /\ issued' = issued + 1
    /\ todo' = Append(todo, issued')
    /\ UNCHANGED done

\* A function is executed without being queued.
RunNow ==
    /\ issued' = issued + 1
    /\ done' = Append(done, issued')
    /\ UNCHANGED todo

\* The oldest queued function is executed.
Execute ==
    /\ todo # <<>>
    /\ done' = Append(done, Head(todo))
    /\ todo' = Tail(todo)
    /\ UNCHANGED issued

Next == Submit \/ RunNow \/ Execute

Spec == Init /\ [][Next]_vars
=============================================================================

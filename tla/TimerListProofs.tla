--------------------------- MODULE TimerListProofs ---------------------------
(***************************************************************************)
(* Theorems about TimerList, for every set of addresses, delays and        *)
(* intervals and every bound.                                              *)
(***************************************************************************)
EXTENDS TimerList, SequenceTheorems, WellFoundedInduction, TLAPS

\* What is at the address of a live timer is a timer.
LEMMA LiveTimer ==
  ASSUME TypeOK, NEW a \in Addrs, Live(a)
  PROVE  heap[a] \in Timers
  BY DEF TypeOK, Live

\* NoTimer is not a timer.
LEMMA NoTimerNotTimer == NoTimer \notin Timers
  BY DEF NoTimer, Timers, Ids

\* Every initial state satisfies the inductive invariant.
LEMMA InitIInv == Init => IInv
<1> SUFFICES ASSUME Init PROVE IInv
  OBVIOUS
<1> USE DEF Init
<1>1. TypeOK
  <2>1. now \in Nat
    OBVIOUS
  <2> QED
    BY <2>1, BoundsAssumption DEF TypeOK
<1>2. ListsAgree
  BY DEF ListsAgree
<1>3. QueuedApart
  BY DEF QueuedApart
<1>4. IdsApart
  BY DEF IdsApart, Live
<1> QED
  BY <1>1, <1>2, <1>3, <1>4 DEF IInv

\* The clock adjustment gives a natural number.
LEMMA EarlierNat ==
  ASSUME NEW value \in Nat, NEW diff \in Nat
  PROVE  Earlier(value, diff) \in Nat
  BY DEF Earlier

\* The timer that new Timer makes.
LEMMA NewTimerFacts ==
  ASSUME IInv, NEW a \in Addrs, NEW value \in Nat, NEW interval \in {0} \cup Intervals,
         NewTimer(a, value, interval)
  PROVE  /\ heap' \in [Addrs -> Timers \cup {NoTimer}]
         /\ heap'[a] \in Timers
         /\ heap'[a].id = Len(addrOf) + 1 /\ heap'[a].value = value
         /\ \A b \in Addrs : b # a => heap'[b] = heap[b]
         /\ ~Live(a) /\ Live(a)'
         /\ addrOf' \in Seq(Addrs) /\ due' \in Seq(Nat)
         /\ Len(addrOf') = Len(addrOf) + 1 /\ Len(due') = Len(addrOf') /\ Len(addrOf') <= MaxTimers
<1> DEFINE t == [id |-> Len(addrOf) + 1, value |-> value, interval |-> interval]
<1> USE BoundsAssumption
<1>1. Len(addrOf) \in Nat /\ Len(addrOf) + 1 \in Ids
  BY DEF IInv, TypeOK, NewTimer, Ids
<1>2. t \in Timers
  BY <1>1 DEF Timers
<1>3. heap' = [heap EXCEPT ![a] = t]
  BY DEF NewTimer
<1>4. heap'[a] = t /\ \A b \in Addrs : b # a => heap'[b] = heap[b]
  BY <1>3 DEF IInv, TypeOK
<1>5. heap' \in [Addrs -> Timers \cup {NoTimer}]
  BY <1>2, <1>3 DEF IInv, TypeOK
<1>6. ~Live(a) /\ Live(a)'
  BY <1>2, <1>4, NoTimerNotTimer DEF Live, NewTimer
<1>7. /\ addrOf' \in Seq(Addrs) /\ due' \in Seq(Nat)
      /\ Len(addrOf') = Len(addrOf) + 1 /\ Len(due') = Len(due) + 1
  BY AppendProperties DEF IInv, TypeOK, NewTimer
<1>8. Len(due') = Len(addrOf') /\ Len(addrOf') <= MaxTimers
  BY <1>1, <1>7 DEF IInv, TypeOK, NewTimer
<1> QED
  BY <1>2, <1>4, <1>5, <1>6, <1>7, <1>8

\* new Timer leaves the numbers of the live timers apart: its number is new.
LEMMA NewTimerIdsApart ==
  ASSUME IInv, NEW a \in Addrs, NEW value \in Nat, NEW interval \in {0} \cup Intervals,
         NewTimer(a, value, interval), UNCHANGED <<fired, erased>>
  PROVE  IdsApart'
<1>1. Len(addrOf) \in Nat
  BY DEF IInv, TypeOK
<1>n. /\ heap'[a] \in Timers /\ heap'[a].id = Len(addrOf) + 1
      /\ \A b \in Addrs : b # a => heap'[b] = heap[b]
      /\ Len(addrOf') = Len(addrOf) + 1
  BY NewTimerFacts
<1> USE DEF IdsApart
<1>0. fired \cup erased \subseteq 1..Len(addrOf)
  BY DEF IInv
<1>2. (fired \cup erased \subseteq 1..Len(addrOf))'
  BY <1>0, <1>1, <1>n
<1>3. Len(addrOf) + 1 \notin fired \cup erased
  BY <1>0, <1>1
<1>4. ASSUME NEW b \in Addrs, Live(b)'
      PROVE  (/\ heap[b].id \in 1..Len(addrOf)
              /\ heap[b].id \notin erased
              /\ heap[b].interval = 0 => heap[b].id \notin fired)'
  <2>1. CASE b = a
    BY <1>1, <1>3, <1>n, <2>1
  <2>2. CASE b # a
    BY <1>1, <1>4, <1>n, <2>2 DEF IInv, Live
  <2> QED
    BY <2>1, <2>2
<1>5. ASSUME NEW b \in Addrs, NEW c \in Addrs, Live(b)', Live(c)', heap'[b].id = heap'[c].id
      PROVE  b = c
  <2>1. ASSUME NEW d \in Addrs, d # a, Live(d)'
        PROVE  heap'[d].id # heap'[a].id
    BY <1>1, <1>n, <2>1 DEF IInv, Live
  <2> QED
    BY <1>5, <1>n, <2>1 DEF IInv, Live
<1> QED
  BY <1>2, <1>4, <1>5

\* Insertion on the loop thread.
LEMMA LoopInsertIInv ==
  ASSUME IInv, NEW a \in Addrs, NEW delay \in Nat, NEW interval \in {0} \cup Intervals,
         LoopInsert(a, delay, interval)
  PROVE  IInv'
<1>1. now + delay \in Nat /\ NewTimer(a, now + delay, interval)
  BY DEF IInv, TypeOK, LoopInsert
<1>2. /\ heap' \in [Addrs -> Timers \cup {NoTimer}]
      /\ heap'[a] \in Timers /\ heap'[a].value = now + delay
      /\ \A b \in Addrs : b # a => heap'[b] = heap[b]
      /\ ~Live(a) /\ Live(a)'
      /\ addrOf' \in Seq(Addrs) /\ due' \in Seq(Nat)
      /\ Len(due') = Len(addrOf') /\ Len(addrOf') <= MaxTimers
  BY <1>1, NewTimerFacts
<1>3. /\ timers_' = timers_ \cup {<<heap'[a].value, a>>}
      /\ timer_ptrs_' = timer_ptrs_ \cup {a}
  BY DEF LoopInsert, InsertInLoop
<1>4. UNCHANGED <<last_time_out_, funcs, pc, ms_now, wakeAt, now, fired, erased,
                  pass, nerases, nsteps>>
  BY DEF LoopInsert
<1>5. TypeOK'
  BY <1>1, <1>2, <1>3, <1>4 DEF IInv, TypeOK
<1>6. ListsAgree'
  <2>1. a \notin timer_ptrs_
    BY <1>2 DEF IInv, ListsAgree, Live
  <2>2. \A b \in timer_ptrs_ : b \in Addrs /\ heap'[b] = heap[b]
    BY <1>2, <2>1 DEF IInv, TypeOK
  <2> QED
    BY <1>2, <1>3, <2>2 DEF IInv, ListsAgree, Live
<1>7. QueuedApart'
  <2>1. ASSUME NEW i \in 1..Len(funcs), funcs[i].op = "insert"
        PROVE  /\ funcs[i].addr \in Addrs /\ funcs[i].addr # a
               /\ heap'[funcs[i].addr] # NoTimer /\ funcs[i].addr \notin timer_ptrs_'
    <3>1. funcs[i] \in [op : {"insert", "erase"}, addr : Addrs]
      BY ElementOfSeq DEF IInv, TypeOK
    <3> QED
      BY <1>2, <1>3, <2>1, <3>1 DEF IInv, QueuedApart, Live
  <2> QED
    BY <1>4, <2>1 DEF IInv, QueuedApart, Live
<1>8. IdsApart'
  BY <1>1, <1>4, NewTimerIdsApart
<1> QED
  BY <1>5, <1>6, <1>7, <1>8 DEF IInv

\* Insertion from another thread.
LEMMA ThreadInsertIInv ==
  ASSUME IInv, NEW a \in Addrs, NEW delay \in Nat, NEW interval \in {0} \cup Intervals,
         ThreadInsert(a, delay, interval)
  PROVE  IInv'
<1> DEFINE f == [op |-> "insert", addr |-> a]
<1>1. now + delay \in Nat /\ NewTimer(a, now + delay, interval)
  BY DEF IInv, TypeOK, ThreadInsert
<1>2. /\ heap' \in [Addrs -> Timers \cup {NoTimer}]
      /\ heap'[a] \in Timers /\ heap'[a].value = now + delay
      /\ \A b \in Addrs : b # a => heap'[b] = heap[b]
      /\ ~Live(a) /\ Live(a)'
      /\ addrOf' \in Seq(Addrs) /\ due' \in Seq(Nat)
      /\ Len(due') = Len(addrOf') /\ Len(addrOf') <= MaxTimers
  BY <1>1, NewTimerFacts
<1>3. UNCHANGED <<timers_, timer_ptrs_, last_time_out_, pc, ms_now, wakeAt, now, fired,
                  erased, pass, nerases, nsteps>> /\ funcs' = Append(funcs, f)
  BY DEF ThreadInsert
<1>4. /\ funcs' \in Seq([op : {"insert", "erase"}, addr : Addrs])
      /\ Len(funcs') = Len(funcs) + 1 /\ Len(funcs) \in Nat
      /\ funcs'[Len(funcs) + 1] = f
      /\ \A i \in 1..Len(funcs) : funcs'[i] = funcs[i]
  BY <1>3, AppendProperties DEF IInv, TypeOK
<1>5. TypeOK'
  BY <1>1, <1>2, <1>3, <1>4 DEF IInv, TypeOK
<1>6. a \notin timer_ptrs_
  BY <1>2 DEF IInv, ListsAgree, Live
<1>7. ListsAgree'
  <2>1. \A b \in timer_ptrs_ : b \in Addrs /\ heap'[b] = heap[b]
    BY <1>2, <1>6 DEF IInv, TypeOK
  <2> QED
    BY <1>3, <2>1 DEF IInv, ListsAgree
<1>8. QueuedApart'
  <2>1. ASSUME NEW i \in 1..Len(funcs), funcs[i].op = "insert"
        PROVE  /\ funcs[i].addr # a
               /\ heap'[funcs[i].addr] # NoTimer /\ funcs[i].addr \notin timer_ptrs_
    <3>1. funcs[i] \in [op : {"insert", "erase"}, addr : Addrs]
      BY ElementOfSeq DEF IInv, TypeOK
    <3> QED
      BY <1>2, <2>1, <3>1 DEF IInv, QueuedApart, Live
  <2>2. \A i \in 1..Len(funcs') : i \in 1..Len(funcs) \/ i = Len(funcs) + 1
    BY <1>4
  <2>3. \A i \in 1..Len(funcs') :
           funcs'[i].op = "insert" => heap'[funcs'[i].addr] # NoTimer /\ funcs'[i].addr \notin timer_ptrs_'
    BY <1>2, <1>3, <1>4, <1>6, <2>1, <2>2 DEF Live
  <2>4. ASSUME NEW i \in 1..Len(funcs'), NEW j \in 1..Len(funcs'),
               funcs'[i].op = "insert", funcs'[j].op = "insert", funcs'[i].addr = funcs'[j].addr
        PROVE  i = j
    <3>1. CASE i \in 1..Len(funcs) /\ j \in 1..Len(funcs)
      BY <1>4, <2>4, <3>1 DEF IInv, QueuedApart
    <3>2. CASE i = Len(funcs) + 1 \/ j = Len(funcs) + 1
      BY <1>4, <2>1, <2>2, <2>4, <3>2
    <3> QED
      BY <2>2, <3>1, <3>2
  <2> QED
    BY <2>3, <2>4 DEF QueuedApart, Live
<1>9. IdsApart'
  BY <1>1, <1>3, NewTimerIdsApart
<1> QED
  BY <1>5, <1>7, <1>8, <1>9 DEF IInv

\* EraseInLoop keeps the lists in step, touches no timer outside the list,
\* and the number it enters in erased is no longer one of a live timer.
LEMMA EraseFacts ==
  ASSUME IInv, NEW a \in Addrs, EraseInLoop(a), UNCHANGED <<addrOf, fired>>
  PROVE  /\ timers_' \subseteq Nat \X Addrs /\ timer_ptrs_' \subseteq timer_ptrs_
         /\ heap' \in [Addrs -> Timers \cup {NoTimer}]
         /\ erased' \subseteq Ids
         /\ \A b \in Addrs : b \notin timer_ptrs_ => heap'[b] = heap[b]
         /\ ListsAgree'
         /\ IdsApart'
<1>t. TypeOK /\ ListsAgree /\ IdsApart
  BY DEF IInv
<1>1. CASE a \notin timer_ptrs_
  <2>1. UNCHANGED <<listVars, erased>>
    BY <1>1 DEF EraseInLoop
  <2>2. ListsAgree'
    BY <1>t, <2>1 DEF ListsAgree, listVars
  <2>3. IdsApart'
    BY <1>t, <2>1 DEF IdsApart, Live, listVars
  <2> QED
    BY <1>t, <2>1, <2>2, <2>3 DEF TypeOK, listVars
<1>2. CASE a \in timer_ptrs_
  <2>1. /\ timers_' = timers_ \ {<<heap[a].value, a>>}
        /\ timer_ptrs_' = timer_ptrs_ \ {a}
        /\ heap' = [heap EXCEPT ![a] = NoTimer]
        /\ erased' = erased \cup {heap[a].id}
    BY <1>2 DEF EraseInLoop
  <2>2. Live(a) /\ heap[a] \in Timers
    BY <1>2, <1>t, LiveTimer DEF ListsAgree, Live
  <2>3. heap' \in [Addrs -> Timers \cup {NoTimer}] /\ heap'[a] = NoTimer
        /\ \A b \in Addrs : b # a => heap'[b] = heap[b]
    BY <1>t, <2>1 DEF TypeOK
  <2>4. heap[a].id \in Ids
    BY <2>2 DEF Timers
  <2>5. ListsAgree'
    <3>1. \A b \in timer_ptrs_' : heap'[b] = heap[b] /\ heap[b] # NoTimer
      BY <1>t, <2>1, <2>3 DEF TypeOK, ListsAgree
    <3>2. timers_' = {<<heap[b].value, b>> : b \in timer_ptrs_'}
      BY <1>t, <1>2, <2>1 DEF ListsAgree
    <3> QED
      BY <3>1, <3>2 DEF ListsAgree
  <2>6. IdsApart'
    <3>1. heap[a].id \in 1..Len(addrOf)
      BY <1>t, <2>2 DEF IdsApart
    <3>2. \A b \in Addrs : Live(b)' => b # a /\ Live(b) /\ heap'[b] = heap[b]
      BY <2>3 DEF Live
    <3>3. \A b \in Addrs : b # a /\ Live(b) => heap[b].id # heap[a].id
      BY <1>t, <2>2 DEF IdsApart
    <3>4. (fired \cup erased \subseteq 1..Len(addrOf))'
      BY <1>t, <2>1, <3>1 DEF IdsApart
    <3>5. ASSUME NEW b \in Addrs, Live(b)'
          PROVE  (/\ heap[b].id \in 1..Len(addrOf)
                  /\ heap[b].id \notin erased
                  /\ heap[b].interval = 0 => heap[b].id \notin fired)'
      BY <1>t, <2>1, <3>2, <3>3, <3>5 DEF IdsApart
    <3>6. ASSUME NEW b \in Addrs, NEW c \in Addrs, Live(b)', Live(c)', heap'[b].id = heap'[c].id
          PROVE  b = c
      BY <1>t, <3>2, <3>6 DEF IdsApart
    <3> QED
      BY <3>4, <3>5, <3>6 DEF IdsApart
  <2> QED
    BY <1>t, <1>2, <2>1, <2>3, <2>4, <2>5, <2>6 DEF TypeOK
<1> QED
  BY <1>1, <1>2

\* Erasure on the loop thread.
LEMMA LoopEraseIInv ==
  ASSUME IInv, NEW n \in 1..Len(addrOf), LoopErase(n)
  PROVE  IInv'
<1>1. addrOf[n] \in Addrs
  BY ElementOfSeq DEF IInv, TypeOK
<1>2. /\ EraseInLoop(addrOf[n]) /\ nerases' = nerases + 1
      /\ UNCHANGED <<last_time_out_, funcs, pc, ms_now, wakeAt, now, addrOf, due,
                     fired, pass, nsteps>>
  BY DEF LoopErase
<1>3. /\ timers_' \subseteq Nat \X Addrs /\ timer_ptrs_' \subseteq timer_ptrs_
      /\ heap' \in [Addrs -> Timers \cup {NoTimer}]
      /\ erased' \subseteq Ids
      /\ \A b \in Addrs : b \notin timer_ptrs_ => heap'[b] = heap[b]
      /\ ListsAgree' /\ IdsApart'
  BY <1>1, <1>2, EraseFacts
<1>4. TypeOK'
  BY <1>2, <1>3 DEF IInv, TypeOK
<1>5. QueuedApart'
  <2>1. ASSUME NEW i \in 1..Len(funcs) PROVE funcs[i].addr \in Addrs
    <3>1. funcs[i] \in [op : {"insert", "erase"}, addr : Addrs]
      BY ElementOfSeq DEF IInv, TypeOK
    <3> QED
      BY <3>1
  <2> QED
    BY <1>2, <1>3, <2>1 DEF IInv, QueuedApart, Live
<1> QED
  BY <1>3, <1>4, <1>5 DEF IInv

\* Erasure from another thread.
LEMMA ThreadEraseIInv ==
  ASSUME IInv, NEW n \in 1..Len(addrOf), ThreadErase(n)
  PROVE  IInv'
<1> DEFINE f == [op |-> "erase", addr |-> addrOf[n]]
<1>1. addrOf[n] \in Addrs
  BY ElementOfSeq DEF IInv, TypeOK
<1>2. /\ funcs' = Append(funcs, f) /\ nerases' = nerases + 1
      /\ UNCHANGED <<timers_, timer_ptrs_, heap, last_time_out_, pc, ms_now, wakeAt, now,
                     addrOf, due, fired, erased, pass, nsteps>>
  BY DEF ThreadErase, listVars, history
<1>3. /\ funcs' \in Seq([op : {"insert", "erase"}, addr : Addrs])
      /\ Len(funcs') = Len(funcs) + 1 /\ Len(funcs) \in Nat
      /\ funcs'[Len(funcs) + 1] = f
      /\ \A i \in 1..Len(funcs) : funcs'[i] = funcs[i]
  BY <1>1, <1>2, AppendProperties DEF IInv, TypeOK
<1>4. TypeOK'
  BY <1>2, <1>3 DEF IInv, TypeOK
<1>5. ListsAgree' /\ IdsApart'
  BY <1>2 DEF IInv, ListsAgree, IdsApart, Live
<1>6. QueuedApart'
  <2>1. \A i \in 1..Len(funcs') : funcs'[i].op = "insert" => i \in 1..Len(funcs)
    BY <1>3
  <2> QED
    BY <1>2, <1>3, <2>1 DEF IInv, QueuedApart, Live
<1> QED
  BY <1>4, <1>5, <1>6 DEF IInv

\* The loop runs a queued insertion or erasure.
LEMMA RunFuncIInv ==
  ASSUME IInv, RunFunc
  PROVE  IInv'
<1> DEFINE f == Head(funcs)
<1>t. TypeOK /\ ListsAgree /\ QueuedApart /\ IdsApart
  BY DEF IInv
<1>1. /\ funcs # <<>> /\ funcs' = Tail(funcs)
      /\ UNCHANGED <<last_time_out_, pc, ms_now, wakeAt, now, addrOf, due, fired,
                     pass, nerases, nsteps>>
  BY DEF RunFunc
<1>2. /\ f \in [op : {"insert", "erase"}, addr : Addrs]
      /\ funcs' \in Seq([op : {"insert", "erase"}, addr : Addrs])
      /\ Len(funcs) \in Nat \ {0} /\ Len(funcs') = Len(funcs) - 1
      /\ \A i \in 1..Len(funcs') : funcs'[i] = funcs[i + 1]
      /\ f = funcs[1]
  <2> DEFINE F == [op : {"insert", "erase"}, addr : Addrs]
  <2> HIDE DEF F
  <2>1. funcs \in Seq(F)
    BY <1>t DEF TypeOK, F
  <2>2. f \in F /\ funcs' \in Seq(F) /\ Len(funcs') = Len(funcs) - 1
        /\ \A i \in 1..Len(funcs') : funcs'[i] = funcs[i + 1]
    BY <1>1, <2>1, HeadTailProperties
  <2>3. Len(funcs) \in Nat \ {0} /\ f = funcs[1]
    BY <1>1, <2>1
  <2> QED
    BY <2>2, <2>3 DEF F
<1>3. ASSUME NEW i \in 1..Len(funcs')
      PROVE  i + 1 \in 1..Len(funcs) /\ funcs'[i].addr \in Addrs
  <2>1. funcs'[i] \in [op : {"insert", "erase"}, addr : Addrs]
    BY <1>2, ElementOfSeq
  <2> QED
    BY <1>2, <2>1
<1>4. CASE f.op = "insert"
  <2>1. /\ timers_' = timers_ \cup {<<heap[f.addr].value, f.addr>>}
        /\ timer_ptrs_' = timer_ptrs_ \cup {f.addr} /\ UNCHANGED <<heap, erased>>
    BY <1>4 DEF RunFunc, InsertInLoop
  <2>2. Live(f.addr) /\ heap[f.addr] \in Timers
    BY <1>t, <1>2, <1>4, LiveTimer DEF QueuedApart
  <2>3. <<heap[f.addr].value, f.addr>> \in Nat \X Addrs
    BY <1>2, <2>2 DEF Timers
  <2>4. TypeOK'
    BY <1>t, <1>1, <1>2, <2>1, <2>3 DEF TypeOK
  <2>5. ListsAgree'
    BY <1>t, <2>1, <2>2 DEF ListsAgree, Live
  <2>6. IdsApart'
    BY <1>t, <1>1, <2>1 DEF IdsApart, Live
  <2>7. \A i \in 1..Len(funcs') : funcs'[i].op = "insert" => funcs'[i].addr # f.addr
    BY <1>t, <1>2, <1>3, <1>4 DEF QueuedApart
  <2>8. QueuedApart'
    <3>1. ASSUME NEW i \in 1..Len(funcs'), funcs'[i].op = "insert"
          PROVE  heap'[funcs'[i].addr] # NoTimer /\ funcs'[i].addr \notin timer_ptrs_'
      BY <1>t, <1>2, <1>3, <2>1, <2>7, <3>1 DEF QueuedApart, Live
    <3>2. ASSUME NEW i \in 1..Len(funcs'), NEW j \in 1..Len(funcs'),
                 funcs'[i].op = "insert", funcs'[j].op = "insert", funcs'[i].addr = funcs'[j].addr
          PROVE  i = j
      <4>1. i + 1 = j + 1
        BY <1>t, <1>2, <1>3, <3>2 DEF QueuedApart
      <4> QED
        BY <4>1
    <3> QED
      BY <3>1, <3>2 DEF QueuedApart, Live
  <2> QED
    BY <2>4, <2>5, <2>6, <2>8 DEF IInv
<1>5. CASE f.op = "erase"
  <2>1. EraseInLoop(f.addr)
    BY <1>5 DEF RunFunc
  <2>2. /\ timers_' \subseteq Nat \X Addrs /\ timer_ptrs_' \subseteq timer_ptrs_
        /\ heap' \in [Addrs -> Timers \cup {NoTimer}]
        /\ erased' \subseteq Ids
        /\ \A b \in Addrs : b \notin timer_ptrs_ => heap'[b] = heap[b]
        /\ ListsAgree' /\ IdsApart'
    BY <1>1, <1>2, <2>1, EraseFacts
  <2>3. TypeOK'
    BY <1>t, <1>1, <1>2, <2>2 DEF TypeOK
  <2>4. QueuedApart'
    <3>1. ASSUME NEW i \in 1..Len(funcs'), funcs'[i].op = "insert"
          PROVE  heap'[funcs'[i].addr] # NoTimer /\ funcs'[i].addr \notin timer_ptrs_'
      <4>1. heap[funcs'[i].addr] # NoTimer /\ funcs'[i].addr \notin timer_ptrs_
        BY <1>t, <1>2, <1>3, <3>1 DEF QueuedApart, Live
      <4> QED
        BY <1>3, <2>2, <4>1
    <3>2. ASSUME NEW i \in 1..Len(funcs'), NEW j \in 1..Len(funcs'),
                 funcs'[i].op = "insert", funcs'[j].op = "insert", funcs'[i].addr = funcs'[j].addr
          PROVE  i = j
      <4>1. i + 1 = j + 1
        BY <1>t, <1>2, <1>3, <3>2 DEF QueuedApart
      <4> QED
        BY <4>1
    <3> QED
      BY <3>1, <3>2 DEF QueuedApart, Live
  <2> QED
    BY <2>2, <2>3, <2>4 DEF IInv
<1> QED
  BY <1>2, <1>4, <1>5

\* Steps that leave the list, the queue and the histories alone.
LEMMA QuietIInv ==
  ASSUME IInv, TypeOK', UNCHANGED <<listVars, funcs, history>>
  PROVE  IInv'
<1>1. UNCHANGED <<timers_, timer_ptrs_, heap, funcs, addrOf, due, fired, erased>>
  BY DEF listVars, history
<1>2. ListsAgree' /\ QueuedApart' /\ IdsApart'
  BY <1>1 DEF IInv, ListsAgree, QueuedApart, IdsApart, Live
<1> QED
  BY <1>2 DEF IInv

\* A list that is not empty has a first timer.
LEMMA HasFirst ==
  ASSUME timers_ \subseteq Nat \X Addrs, timers_ # {}
  PROVE  \E e \in timers_ : IsFirst(e)
<1> DEFINE times == {e[1] : e \in timers_}
<1>1. times \subseteq Nat /\ times # {}
  OBVIOUS
<1>2. PICK x \in times : \A y \in times : ~(<<y, x>> \in OpToRel(<, Nat))
  <2> HIDE DEF times
  <2> QED
    BY <1>1, NatLessThanWellFounded, WFMin, Zenon
<1>a. OpToRel(<, Nat) = {ss \in Nat \X Nat : ss[1] < ss[2]}
  BY Zenon DEF OpToRel
<1>3. \A y \in times : x <= y
  <2> DEFINE R == OpToRel(<, Nat)
  <2>1. R = {ss \in Nat \X Nat : ss[1] < ss[2]}
    BY <1>a, Zenon
  <2>2. \A y \in times : ~(<<y, x>> \in R)
    BY <1>2, Zenon
  <2>3. x \in times
    BY <1>2, Zenon
  <2> HIDE DEF R, times
  <2> TAKE y \in times
  <2>4. x \in Nat /\ y \in Nat
    BY <1>1, <2>3
  <2>5. ~(<<y, x>> \in {ss \in Nat \X Nat : ss[1] < ss[2]})
    BY <2>1, <2>2
  <2>6. ~(y < x)
    BY <2>4, <2>5
  <2> QED
    BY <2>4, <2>6
<1> QED
  BY <1>3 DEF IsFirst

\* Loop() computes a wait of a natural number of milliseconds.
LEMMA EnterPollIInv ==
  ASSUME IInv, EnterPoll
  PROVE  IInv'
<1> DEFINE first == CHOOSE e \in timers_ : IsFirst(e)
<1>1. TypeOK /\ UNCHANGED <<listVars, funcs, history>>
  BY DEF IInv, EnterPoll
<1>2. TimeoutMs \in Nat
  <2>1. CASE timers_ = {}
    BY <2>1, TimesAssumption DEF TimeoutMs
  <2>2. CASE timers_ # {}
    <3>1. first \in timers_
      BY <1>1, <2>2, HasFirst DEF TypeOK
    <3>2. TimeoutMs = IF now < last_time_out_ \/ first[1] <= now THEN 0 ELSE first[1] - now
      BY <2>2 DEF TimeoutMs
    <3> HIDE DEF first
    <3>3. first[1] \in Nat /\ now \in Nat
      BY <1>1, <3>1 DEF TypeOK
    <3> QED
      BY <3>2, <3>3
  <2> QED
    BY <2>1, <2>2
<1>3. wakeAt' \in Nat
  BY <1>1, <1>2, TimesAssumption DEF TypeOK, EnterPoll
<1>4. TypeOK'
  BY <1>1, <1>3 DEF TypeOK, EnterPoll, listVars, history
<1> QED
  BY <1>1, <1>4, QuietIInv

\* Steps of the loop and of the clock that do not touch the list.
LEMMA QuietStepsIInv ==
  ASSUME IInv, \/ PollNoTimers \/ EndTimerProcs \/ Tick \/ (\E d \in 1..MaxTime : ClockBack(d))
  PROVE  IInv'
<1>1. TypeOK
  BY DEF IInv
<1>2. CASE PollNoTimers
  <2>1. TypeOK' /\ UNCHANGED <<listVars, funcs, history>>
    BY <1>1, <1>2 DEF PollNoTimers, TypeOK, listVars, history
  <2> QED
    BY <2>1, QuietIInv
<1>3. CASE EndTimerProcs
  <2>1. TypeOK' /\ UNCHANGED <<listVars, funcs, history>>
    BY <1>1, <1>3 DEF EndTimerProcs, TypeOK, listVars, history
  <2> QED
    BY <2>1, QuietIInv
<1>4. CASE Tick
  <2>1. TypeOK' /\ UNCHANGED <<listVars, funcs, history>>
    BY <1>1, <1>4 DEF Tick, TypeOK, listVars, history
  <2> QED
    BY <2>1, QuietIInv
<1>5. ASSUME NEW d \in 1..MaxTime, ClockBack(d)
      PROVE  IInv'
  <2>1. wakeAt' \in Nat
    BY <1>1, <1>5, EarlierNat DEF ClockBack, TypeOK
  <2>2. TypeOK' /\ UNCHANGED <<listVars, funcs, history>>
    BY <1>1, <1>5, <2>1 DEF ClockBack, TypeOK, listVars, history
  <2> QED
    BY <2>2, QuietIInv
<1> QED
  BY <1>2, <1>3, <1>4, <1>5

\* The clock adjustment keeps the lists in step: the entry of each timer in
\* timers_ and its ms_value go back together, and no other timer changes.
LEMMA ShiftFacts ==
  ASSUME IInv, NEW diff \in Nat, Shift(diff), UNCHANGED timer_ptrs_
  PROVE  /\ timers_' \subseteq Nat \X Addrs
         /\ heap' \in [Addrs -> Timers \cup {NoTimer}]
         /\ \A a \in Addrs : /\ heap'[a].id = heap[a].id /\ heap'[a].interval = heap[a].interval
                             /\ (heap'[a] = NoTimer) <=> (heap[a] = NoTimer)
         /\ ListsAgree'
<1>t. TypeOK /\ ListsAgree
  BY DEF IInv
<1>1. \A a \in timer_ptrs_ : a \in Addrs /\ heap[a] \in Timers
  BY <1>t DEF TypeOK, ListsAgree
<1>2. \A a \in timer_ptrs_ : heap[a].value \in Nat
  BY <1>1 DEF Timers
<1>3. \A e \in timers_ : e[2] \in timer_ptrs_ /\ e = <<heap[e[2]].value, e[2]>>
  BY <1>t DEF ListsAgree
<1>4. \A a \in timer_ptrs_ : \E e \in timers_ : e[2] = a
  <2> TAKE a \in timer_ptrs_
  <2>1. <<heap[a].value, a>> \in timers_
    BY <1>t DEF ListsAgree
  <2> WITNESS <<heap[a].value, a>> \in timers_
  <2> QED
    OBVIOUS
<1>5. \A a \in timer_ptrs_ : (CHOOSE e \in timers_ : e[2] = a)[1] = heap[a].value
  <2> TAKE a \in timer_ptrs_
  <2> DEFINE e == CHOOSE e \in timers_ : e[2] = a
  <2>1. e \in timers_ /\ e[2] = a
    BY <1>4
  <2> HIDE DEF e
  <2>2. e = <<heap[a].value, a>>
    BY <1>3, <2>1
  <2>3. e[1] = heap[a].value
    BY <2>2
  <2> QED
    BY <2>3 DEF e
<1>6. ASSUME NEW a \in timer_ptrs_
      PROVE  /\ heap'[a] = [heap[a] EXCEPT !.value = Earlier(heap[a].value, diff)]
             /\ heap'[a] \in Timers
             /\ heap'[a].id = heap[a].id /\ heap'[a].interval = heap[a].interval
             /\ heap'[a].value = Earlier(heap[a].value, diff)
  <2>1. heap'[a] = [heap[a] EXCEPT !.value = Earlier(heap[a].value, diff)]
    BY <1>1, <1>4, <1>5 DEF Shift
  <2>2. Earlier(heap[a].value, diff) \in Nat
    BY <1>2, EarlierNat
  <2> QED
    BY <1>1, <2>1, <2>2 DEF Timers
<1>7. \A a \in Addrs : a \notin timer_ptrs_ => heap'[a] = heap[a]
  BY <1>3 DEF Shift
<1>8. heap' \in [Addrs -> Timers \cup {NoTimer}]
  <2>1. heap' = [a \in Addrs |-> heap'[a]]
    BY DEF Shift
  <2>2. \A a \in Addrs : heap'[a] \in Timers \cup {NoTimer}
    BY <1>t, <1>6, <1>7 DEF TypeOK
  <2> QED
    BY <2>1, <2>2
<1>9. timers_' = {<<Earlier(heap[a].value, diff), a>> : a \in timer_ptrs_}
  <2>1. timers_' = {<<Earlier(e[1], diff), e[2]>> : e \in timers_}
    BY DEF Shift
  <2>2. \A e \in timers_ : e[2] \in timer_ptrs_ /\ e[1] = heap[e[2]].value
    BY <1>3
  <2>3. \A a \in timer_ptrs_ : <<heap[a].value, a>> \in timers_
    BY <1>t DEF ListsAgree
  <2>4. ASSUME NEW e \in timers_
        PROVE  \E a \in timer_ptrs_ : <<Earlier(e[1], diff), e[2]>> = <<Earlier(heap[a].value, diff), a>>
    <3>1. e[2] \in timer_ptrs_
      BY <2>2
    <3> WITNESS e[2] \in timer_ptrs_
    <3> QED
      BY <2>2
  <2>5. ASSUME NEW a \in timer_ptrs_
        PROVE  \E e \in timers_ : <<Earlier(e[1], diff), e[2]>> = <<Earlier(heap[a].value, diff), a>>
    <3>1. <<heap[a].value, a>> \in timers_
      BY <2>3
    <3> WITNESS <<heap[a].value, a>> \in timers_
    <3> QED
      OBVIOUS
  <2> QED
    BY <2>1, <2>4, <2>5
<1>10. timers_' \subseteq Nat \X Addrs
  <2>1. \A a \in timer_ptrs_ : a \in Addrs /\ Earlier(heap[a].value, diff) \in Nat
    BY <1>1, <1>2, EarlierNat
  <2> QED
    BY <1>9, <2>1
<1>11. ListsAgree'
  <2>1. \A a \in timer_ptrs_ : heap'[a] # NoTimer
    BY <1>6, NoTimerNotTimer
  <2>2. \A a \in timer_ptrs_ : heap'[a].value = Earlier(heap[a].value, diff)
    BY <1>6
  <2>3. timers_' = {<<heap'[a].value, a>> : a \in timer_ptrs_}
    BY <1>9, <2>2
  <2> QED
    BY <2>1, <2>3 DEF ListsAgree
<1> QED
  BY <1>1, <1>6, <1>7, <1>8, <1>10, <1>11, NoTimerNotTimer

\* RunTimerProcs begins, after a clock that went back or not.
LEMMA RunTimerProcsIInv ==
  ASSUME IInv, RunTimerProcs
  PROVE  IInv'
<1>t. TypeOK /\ ListsAgree /\ QueuedApart /\ IdsApart
  BY DEF IInv
<1>1. /\ pc' = "procs" /\ ms_now' = now /\ last_time_out_' = now /\ wakeAt' = 0
      /\ UNCHANGED <<timer_ptrs_, funcs, now, addrOf, due, fired, erased, pass, nerases, nsteps>>
  BY DEF RunTimerProcs, history
<1>2. CASE now < last_time_out_
  <2>1. Shift(last_time_out_ - now) /\ last_time_out_ - now \in Nat
    BY <1>t, <1>2 DEF RunTimerProcs, TypeOK
  <2>2. /\ timers_' \subseteq Nat \X Addrs
        /\ heap' \in [Addrs -> Timers \cup {NoTimer}]
        /\ \A a \in Addrs : /\ heap'[a].id = heap[a].id /\ heap'[a].interval = heap[a].interval
                            /\ (heap'[a] = NoTimer) <=> (heap[a] = NoTimer)
        /\ ListsAgree'
    BY <1>1, <2>1, ShiftFacts
  <2>3. TypeOK'
    BY <1>t, <1>1, <2>2 DEF TypeOK
  <2>4. QueuedApart'
    <3>1. ASSUME NEW i \in 1..Len(funcs) PROVE funcs[i].addr \in Addrs
      <4>1. funcs[i] \in [op : {"insert", "erase"}, addr : Addrs]
        BY <1>t, ElementOfSeq DEF TypeOK
      <4> QED
        BY <4>1
    <3> QED
      BY <1>t, <1>1, <2>2, <3>1 DEF QueuedApart, Live
  <2>5. IdsApart'
    BY <1>t, <1>1, <2>2 DEF IdsApart, Live
  <2> QED
    BY <2>2, <2>3, <2>4, <2>5 DEF IInv
<1>3. CASE ~(now < last_time_out_)
  <2>1. UNCHANGED <<timers_, heap>>
    BY <1>3 DEF RunTimerProcs
  <2>2. TypeOK' /\ UNCHANGED <<listVars, funcs, history>>
    BY <1>t, <1>1, <2>1 DEF TypeOK, listVars, history
  <2> QED
    BY <2>2, QuietIInv
<1> QED
  BY <1>2, <1>3

\* The timer an entry of the list leads to: alive, in the list, not erased,
\* and not yet fired if it is one-shot.
LEMMA EntryFacts ==
  ASSUME IInv, NEW e \in timers_
  PROVE  /\ e[2] \in timer_ptrs_ /\ e[2] \in Addrs
         /\ e = <<heap[e[2]].value, e[2]>>
         /\ Live(e[2]) /\ heap[e[2]] \in Timers
         /\ heap[e[2]].id \in 1..Len(addrOf) /\ heap[e[2]].id \in Ids
         /\ heap[e[2]].id \notin erased
<1>1. e[2] \in timer_ptrs_ /\ e = <<heap[e[2]].value, e[2]>>
  BY DEF IInv, ListsAgree
<1>2. e[2] \in Addrs /\ Live(e[2])
  BY <1>1 DEF IInv, TypeOK, ListsAgree, Live
<1>3. heap[e[2]] \in Timers
  BY <1>2, LiveTimer DEF IInv
<1>4. heap[e[2]].id \in 1..Len(addrOf) /\ heap[e[2]].id \notin erased
  BY <1>2 DEF IInv, IdsApart
<1> QED
  BY <1>1, <1>2, <1>3, <1>4 DEF Timers

\* A timer fires; a periodic one is put back, a one-shot one deleted.
LEMMA FireIInv ==
  ASSUME IInv, NEW e \in timers_, Fire(e)
  PROVE  IInv'
<1> DEFINE a == e[2]
           t == heap[a]
<1>t. TypeOK /\ ListsAgree /\ QueuedApart /\ IdsApart
  BY DEF IInv
<1>1. /\ a \in timer_ptrs_ /\ a \in Addrs /\ e = <<t.value, a>>
      /\ Live(a) /\ t \in Timers /\ t.id \in 1..Len(addrOf) /\ t.id \in Ids /\ t.id \notin erased
  BY EntryFacts
<1>2. /\ pc' = "cb" /\ fired' = fired \cup {t.id} /\ pass' = Append(pass, t.id)
      /\ UNCHANGED <<last_time_out_, funcs, ms_now, wakeAt, now, addrOf, due,
                     erased, nerases, nsteps>>
  BY DEF Fire
<1>3. pass' \in Seq(Ids)
  BY <1>t, <1>1, <1>2, AppendProperties DEF TypeOK
<1>4. \A b \in Addrs : Live(b) /\ b # a => heap[b].id # t.id
  BY <1>t, <1>1 DEF IdsApart
<1>5. ASSUME NEW i \in 1..Len(funcs), funcs[i].op = "insert"
      PROVE  funcs[i].addr \in Addrs /\ funcs[i].addr # a
  <2>1. funcs[i] \in [op : {"insert", "erase"}, addr : Addrs]
    BY <1>t, ElementOfSeq DEF TypeOK
  <2> QED
    BY <1>t, <1>1, <1>5, <2>1 DEF QueuedApart
<1>6. CASE t.interval > 0
  <2> DEFINE v == ms_now + t.interval
             u == [t EXCEPT !.value = v]
  <2>1. /\ timers_' = (timers_ \ {e}) \cup {<<v, a>>}
        /\ heap' = [heap EXCEPT ![a].value = v]
        /\ timer_ptrs_' = timer_ptrs_
    BY <1>6 DEF Fire, NextValue
  <2>2. v \in Nat
    <3>1. t.interval \in {0} \cup Intervals
      BY <1>1 DEF Timers
    <3>0. \A x \in {0} \cup Intervals : x \in Nat
      BY TimesAssumption
    <3>2. t.interval \in Nat
      BY <3>0, <3>1, Zenon
    <3>3. ms_now \in Nat
      BY <1>t DEF TypeOK
    <3> QED
      BY <3>2, <3>3
  <2>3. u \in Timers /\ u.id = t.id /\ u.interval = t.interval /\ u.value = v
    BY <1>1, <2>2 DEF Timers
  <2>4. /\ heap' \in [Addrs -> Timers \cup {NoTimer}] /\ heap'[a] = u
        /\ \A b \in Addrs : b # a => heap'[b] = heap[b]
    BY <1>t, <1>1, <2>1, <2>3 DEF TypeOK
  <2>5. u # NoTimer
    BY <2>3, NoTimerNotTimer
  <2> HIDE DEF u, v
  <2>6. TypeOK'
    <3>0. timers_ \subseteq Nat \X Addrs
      BY <1>t DEF TypeOK
    <3>1. timers_' \subseteq Nat \X Addrs
      BY <1>1, <2>1, <2>2, <3>0
    <3>2. fired' \subseteq Ids
      BY <1>t, <1>1, <1>2 DEF TypeOK
    <3> QED
      BY <1>t, <1>2, <1>3, <2>1, <2>4, <3>1, <3>2 DEF TypeOK
  <2>7. ListsAgree'
    <3>1. \A b \in timer_ptrs_ : b # a => heap'[b] = heap[b]
      BY <1>t, <2>4 DEF TypeOK
    <3>2. \A b \in timer_ptrs_ : heap'[b] # NoTimer
      BY <1>t, <2>4, <2>5, <3>1 DEF ListsAgree
    <3>3. timers_ \ {e} = {<<heap[b].value, b>> : b \in timer_ptrs_ \ {a}}
      BY <1>t, <1>1 DEF ListsAgree
    <3>4. timers_' = {<<heap'[b].value, b>> : b \in timer_ptrs_}
      BY <1>1, <2>1, <2>3, <2>4, <3>1, <3>3
    <3> QED
      BY <2>1, <3>2, <3>4 DEF ListsAgree
  <2>8. QueuedApart'
    BY <1>t, <1>2, <1>5, <2>1, <2>4 DEF QueuedApart, Live
  <2>9. IdsApart'
    <3>1. \A b \in Addrs : /\ heap'[b].id = heap[b].id /\ heap'[b].interval = heap[b].interval
                           /\ (heap'[b] = NoTimer) <=> (heap[b] = NoTimer)
      BY <1>1, <2>3, <2>4, <2>5 DEF Live
    <3>2. t.interval # 0
      BY <1>1, <1>6, TimesAssumption DEF Timers
    <3>3. (fired \cup erased \subseteq 1..Len(addrOf))'
      BY <1>t, <1>1, <1>2 DEF IdsApart
    <3>4. ASSUME NEW b \in Addrs, Live(b)'
          PROVE  (/\ heap[b].id \in 1..Len(addrOf)
                  /\ heap[b].id \notin erased
                  /\ heap[b].interval = 0 => heap[b].id \notin fired)'
      BY <1>t, <1>2, <1>4, <3>1, <3>2, <3>4 DEF IdsApart, Live
    <3>5. ASSUME NEW b \in Addrs, NEW c \in Addrs, Live(b)', Live(c)', heap'[b].id = heap'[c].id
          PROVE  b = c
      BY <1>t, <3>1, <3>5 DEF IdsApart, Live
    <3> QED
      BY <3>3, <3>4, <3>5 DEF IdsApart
  <2> QED
    BY <2>6, <2>7, <2>8, <2>9 DEF IInv
<1>7. CASE ~(t.interval > 0)
  <2>1. /\ timers_' = timers_ \ {e}
        /\ heap' = [heap EXCEPT ![a] = NoTimer]
        /\ timer_ptrs_' = timer_ptrs_ \ {a}
    BY <1>7 DEF Fire
  <2>2. /\ heap' \in [Addrs -> Timers \cup {NoTimer}] /\ heap'[a] = NoTimer
        /\ \A b \in Addrs : b # a => heap'[b] = heap[b]
    BY <1>t, <1>1, <2>1 DEF TypeOK
  <2>3. TypeOK'
    <3>1. timers_' \subseteq Nat \X Addrs
      BY <1>t, <2>1 DEF TypeOK
    <3>2. fired' \subseteq Ids
      BY <1>t, <1>1, <1>2 DEF TypeOK
    <3> QED
      BY <1>t, <1>2, <1>3, <2>1, <2>2, <3>1, <3>2 DEF TypeOK
  <2>4. ListsAgree'
    <3>1. \A b \in timer_ptrs_' : heap'[b] = heap[b] /\ heap[b] # NoTimer
      BY <1>t, <2>1, <2>2 DEF TypeOK, ListsAgree
    <3>2. timers_' = {<<heap[b].value, b>> : b \in timer_ptrs_'}
      BY <1>t, <1>1, <2>1 DEF ListsAgree
    <3> QED
      BY <3>1, <3>2 DEF ListsAgree
  <2>5. QueuedApart'
    BY <1>t, <1>2, <1>5, <2>1, <2>2 DEF QueuedApart, Live
  <2>6. IdsApart'
    <3>1. \A b \in Addrs : Live(b)' => b # a /\ Live(b) /\ heap'[b] = heap[b]
      BY <2>2 DEF Live
    <3>2. (fired \cup erased \subseteq 1..Len(addrOf))'
      BY <1>t, <1>1, <1>2 DEF IdsApart
    <3>3. ASSUME NEW b \in Addrs, Live(b)'
          PROVE  (/\ heap[b].id \in 1..Len(addrOf)
                  /\ heap[b].id \notin erased
                  /\ heap[b].interval = 0 => heap[b].id \notin fired)'
      BY <1>t, <1>2, <1>4, <3>1, <3>3 DEF IdsApart
    <3>4. ASSUME NEW b \in Addrs, NEW c \in Addrs, Live(b)', Live(c)', heap'[b].id = heap'[c].id
          PROVE  b = c
      BY <1>t, <3>1, <3>4 DEF IdsApart
    <3> QED
      BY <3>2, <3>3, <3>4 DEF IdsApart
  <2> QED
    BY <2>3, <2>4, <2>5, <2>6 DEF IInv
<1> QED
  BY <1>6, <1>7

\* Every step preserves the inductive invariant.
LEMMA NextIInv == IInv /\ [Next]_vars => IInv'
<1> SUFFICES ASSUME IInv, [Next]_vars PROVE IInv'
  OBVIOUS
<1>1. CASE RunFunc
  BY <1>1, RunFuncIInv
<1>2. CASE EnterPoll
  BY <1>2, EnterPollIInv
<1>3. CASE PollNoTimers \/ EndTimerProcs \/ Tick \/ (\E d \in 1..MaxTime : ClockBack(d))
  BY <1>3, QuietStepsIInv
<1>4. CASE RunTimerProcs
  BY <1>4, RunTimerProcsIInv
<1>5. ASSUME NEW e \in timers_, Fire(e) PROVE IInv'
  BY <1>5, FireIInv
<1>6. ASSUME NEW a \in Addrs, Insert(a) PROVE IInv'
  <2>1. ASSUME NEW d \in Delays, LoopInsert(a, d, 0) \/ ThreadInsert(a, d, 0)
        PROVE  IInv'
    <3>1. d \in Nat
      BY TimesAssumption
    <3> QED
      BY <2>1, <3>1, LoopInsertIInv, ThreadInsertIInv
  <2>2. ASSUME NEW i \in Intervals, LoopInsert(a, i, i) \/ ThreadInsert(a, i, i)
        PROVE  IInv'
    <3>1. i \in Nat
      BY TimesAssumption
    <3> QED
      BY <2>2, <3>1, LoopInsertIInv, ThreadInsertIInv
  <2> QED
    BY <1>6, <2>1, <2>2 DEF Insert
<1>7. ASSUME NEW n \in 1..Len(addrOf), LoopErase(n) \/ ThreadErase(n) PROVE IInv'
  BY <1>7, LoopEraseIInv, ThreadEraseIInv
<1>8. CASE UNCHANGED vars
  <2>1. UNCHANGED <<listVars, funcs, history>> /\ TypeOK'
    BY <1>8 DEF IInv, TypeOK, vars, listVars, history
  <2> QED
    BY <2>1, QuietIInv
<1> QED
  BY <1>1, <1>2, <1>3, <1>4, <1>5, <1>6, <1>7, <1>8 DEF Next, LoopStep

\* The inductive invariant holds in every reachable state of the timer list.
THEOREM Invariance == Spec => []IInv
<1>1. Init => IInv
  BY InitIInv
<1>2. IInv /\ [Next]_vars => IInv'
  BY NextIInv
<1> QED
  BY <1>1, <1>2, PTL DEF Spec

\* timers_, timer_ptrs_ and the timers' own ms_value always agree, so that
\* neither EraseInLoop nor RunTimerProcs meets a deleted timer.
THEOREM ListsAlwaysAgree == Spec => []ListsAgree
<1>1. IInv => ListsAgree
  BY DEF IInv
<1> QED
  BY <1>1, Invariance, PTL

\* No one-shot timer that has fired is in the list.
THEOREM OneShotsFireOnce == Spec => []OneShotOnce
<1>1. IInv => OneShotOnce
  <2> SUFFICES ASSUME IInv, NEW a \in timer_ptrs_, heap[a].interval = 0
               PROVE  heap[a].id \notin fired
    BY DEF OneShotOnce
  <2>1. a \in Addrs /\ Live(a)
    BY DEF IInv, TypeOK, ListsAgree, Live
  <2> QED
    BY <2>1 DEF IInv, IdsApart
<1> QED
  BY <1>1, Invariance, PTL

\* What EraseInLoop took out of the list never fires again: the entry that
\* fires leads to a live timer, and the number of a live timer is not erased.
THEOREM ErasedStayErased == Spec => ErasedNeverFires
<1> DEFINE A == \A i \in Len(pass) + 1..Len(pass') : pass'[i] \notin erased
<1>1. IInv /\ [Next]_vars => [A]_vars
  <2> SUFFICES ASSUME IInv, Next PROVE A
    OBVIOUS
  <2>1. pass \in Seq(Ids) /\ Len(pass) \in Nat
    BY DEF IInv, TypeOK
  <2>2. ASSUME NEW e \in timers_, Fire(e) PROVE A
    <3>1. heap[e[2]].id \notin erased /\ heap[e[2]].id \in Ids
      BY EntryFacts
    <3>2. pass' = Append(pass, heap[e[2]].id)
      BY <2>2 DEF Fire
    <3>3. Len(pass') = Len(pass) + 1 /\ pass'[Len(pass) + 1] = heap[e[2]].id
      BY <2>1, <3>1, <3>2, AppendProperties
    <3> QED
      BY <2>1, <3>1, <3>3
  <2>3. CASE pass' = pass
    BY <2>1, <2>3
  <2>4. CASE EndTimerProcs
    <3>1. pass' = <<>>
      BY <2>4 DEF EndTimerProcs
    <3> QED
      BY <2>1, <3>1
  <2>5. (\E e \in timers_ : Fire(e)) \/ EndTimerProcs \/ pass' = pass
    BY DEF Next, LoopStep, RunFunc, EnterPoll, PollNoTimers, RunTimerProcs, Insert,
           LoopInsert, ThreadInsert, LoopErase, ThreadErase, Tick, ClockBack
  <2> QED
    BY <2>2, <2>3, <2>4, <2>5
<1> QED
  BY <1>1, Invariance, PTL DEF Spec, ErasedNeverFires

-----------------------------------------------------------------------------
(* When timers fire, and how long Poll() waits.                            *)

\* Unless the clock was set back: RunTimerProcs has read it before, no live timer is
\* to fire before it was asked to, and none has.
ClockInv ==
    nsteps = 0 =>
       /\ last_time_out_ <= now /\ ms_now <= now
       /\ \A a \in Addrs : Live(a) => due[heap[a].id] <= heap[a].value
       /\ \A n \in fired : due[n] <= now

\* A timer that has fired in this call of RunTimerProcs and is still there is to fire
\* after the time the call goes by.
PassInv ==
    /\ pc \in {"work", "poll"} => pass = << >>
    /\ \A i, j \in 1..Len(pass) : i # j => pass[i] # pass[j]
    /\ \A i \in 1..Len(pass) :
          /\ pass[i] \in fired
          /\ \A a \in Addrs : Live(a) /\ heap[a].id = pass[i] => heap[a].value > ms_now

TimeInv == IInv /\ ClockInv /\ PassInv /\ WakesInTime

\* Nothing has fired and nothing waits in the beginning.
LEMMA InitTimeInv == Init => TimeInv
<1> SUFFICES ASSUME Init PROVE TimeInv
  OBVIOUS
<1>1. ClockInv /\ PassInv /\ WakesInTime
  BY DEF Init, ClockInv, PassInv, WakesInTime, Live
<1> QED
  BY <1>1, InitIInv DEF TimeInv

\* What the types say of the times and of the numbers of live timers.
LEMMA Times ==
  ASSUME IInv
  PROVE  /\ now \in Nat /\ ms_now \in Nat /\ last_time_out_ \in Nat /\ wakeAt \in Nat /\ nsteps \in Nat
         /\ pass \in Seq(Ids) /\ Len(pass) \in Nat
         /\ due \in Seq(Nat) /\ Len(due) = Len(addrOf) /\ Len(due) \in Nat
         /\ \A n \in 1..Len(due) : due[n] \in Nat
         /\ \A n \in fired : n \in 1..Len(due)
         /\ \A a \in Addrs : Live(a) =>
               /\ heap[a] \in Timers /\ heap[a].value \in Nat /\ heap[a].interval \in Nat
               /\ heap[a].id \in 1..Len(due)
<1>1. TypeOK /\ IdsApart
  BY DEF IInv
<1>2. \A a \in Addrs : Live(a) => heap[a] \in Timers
  BY <1>1, LiveTimer
<1>3. \A x \in {0} \cup Intervals : x \in Nat
  BY TimesAssumption
<1>4. /\ due \in Seq(Nat) /\ Len(due) = Len(addrOf) /\ Len(due) \in Nat
      /\ pass \in Seq(Ids) /\ Len(pass) \in Nat
  BY <1>1, LenProperties DEF TypeOK
<1>5. \A n \in 1..Len(due) : due[n] \in Nat
  BY <1>4, ElementOfSeq
<1>6. \A n \in fired : n \in 1..Len(due)
  BY <1>1, <1>4 DEF IdsApart
<1>7. ASSUME NEW a \in Addrs, Live(a)
      PROVE  /\ heap[a] \in Timers /\ heap[a].value \in Nat /\ heap[a].interval \in Nat
             /\ heap[a].id \in 1..Len(due)
  <2>1. heap[a] \in Timers
    BY <1>2, <1>7
  <2>2. heap[a].value \in Nat /\ heap[a].interval \in {0} \cup Intervals
    BY <2>1 DEF Timers
  <2> QED
    BY <1>1, <1>3, <1>4, <1>7, <2>1, <2>2 DEF IdsApart
<1>8. now \in Nat /\ ms_now \in Nat /\ last_time_out_ \in Nat /\ wakeAt \in Nat /\ nsteps \in Nat
  BY <1>1 DEF TypeOK
<1> QED
  BY <1>4, <1>5, <1>6, <1>7, <1>8

\* A step that gives no timer a new time keeps the times.
LEMMA TimesKept ==
  ASSUME TimeInv, IInv', \A a \in Addrs : heap'[a] = heap[a] \/ heap'[a] = NoTimer,
         UNCHANGED <<due, fired>>, nsteps' = 0 => nsteps = 0 /\ now <= now',
         last_time_out_' = last_time_out_ \/ last_time_out_' = now',
         ms_now' \in {ms_now, 0, now'}
  PROVE  ClockInv'
<1>1. \A a \in Addrs : Live(a)' => Live(a) /\ heap'[a] = heap[a]
  BY DEF Live
<1>2. /\ now \in Nat /\ ms_now \in Nat /\ last_time_out_ \in Nat
      /\ \A n \in fired : n \in 1..Len(due) /\ due[n] \in Nat
  BY Times DEF TimeInv
<1>3. now' \in Nat
  BY DEF IInv, TypeOK
<1> SUFFICES ASSUME nsteps' = 0
             PROVE  /\ last_time_out_' <= now' /\ ms_now' <= now'
                    /\ \A a \in Addrs : Live(a)' => due'[heap'[a].id] <= heap'[a].value
                    /\ \A n \in fired' : due'[n] <= now'
  BY DEF ClockInv
<1>4. /\ last_time_out_ <= now /\ ms_now <= now /\ now <= now'
      /\ \A a \in Addrs : Live(a) => due[heap[a].id] <= heap[a].value
      /\ \A n \in fired : due[n] <= now
  BY DEF TimeInv, ClockInv
<1> QED
  BY <1>1, <1>2, <1>3, <1>4

\* A step that gives no timer a new time keeps what is known of a call of
\* RunTimerProcs, or ends it.
LEMMA PassKept ==
  ASSUME TimeInv, \A a \in Addrs : heap'[a] = heap[a] \/ heap'[a] = NoTimer,
         fired' = fired,
         pass' = << >> \/ (pass' = pass /\ ms_now' = ms_now /\ pc' = pc)
  PROVE  PassInv'
<1>1. CASE pass' = << >>
  BY <1>1 DEF PassInv
<1>2. CASE pass' = pass /\ ms_now' = ms_now /\ pc' = pc
  <2>1. \A a \in Addrs : Live(a)' => Live(a) /\ heap'[a] = heap[a]
    BY DEF Live
  <2> QED
    BY <1>2, <2>1 DEF TimeInv, PassInv
<1> QED
  BY <1>1, <1>2

\* A new timer is due when it was asked to fire, and has not fired.
LEMMA NewTimerTimes ==
  ASSUME TimeInv, IInv', NEW a \in Addrs, NEW value \in Nat, NEW interval \in {0} \cup Intervals,
         NewTimer(a, value, interval),
         UNCHANGED <<last_time_out_, pc, ms_now, now, fired, pass, nsteps>>
  PROVE  ClockInv' /\ PassInv'
<1> DEFINE n == Len(addrOf)
<1>1. /\ heap'[a].id = n + 1 /\ heap'[a].value = value
      /\ \A b \in Addrs : b # a => heap'[b] = heap[b]
  BY NewTimerFacts DEF TimeInv
<1>2. /\ due \in Seq(Nat) /\ Len(due) = n /\ n \in Nat
      /\ \A m \in fired : m \in 1..n
      /\ \A b \in Addrs : Live(b) => heap[b].id \in 1..n
  BY Times DEF TimeInv
<1>3. due'[n + 1] = value /\ \A m \in 1..n : due'[m] = due[m]
  <2>1. due' = Append(due, value)
    BY DEF NewTimer
  <2> QED
    BY <1>2, <2>1, AppendProperties
<1>4. \A b \in Addrs : b # a /\ Live(b)' => Live(b)
  BY <1>1 DEF Live
<1> HIDE DEF n
<1>5. ClockInv'
  <2> SUFFICES ASSUME nsteps = 0
               PROVE  /\ last_time_out_' <= now' /\ ms_now' <= now'
                      /\ \A b \in Addrs : Live(b)' => due'[heap'[b].id] <= heap'[b].value
                      /\ \A m \in fired' : due'[m] <= now'
    BY DEF ClockInv
  <2>1. /\ last_time_out_ <= now /\ ms_now <= now
        /\ \A b \in Addrs : Live(b) => due[heap[b].id] <= heap[b].value
        /\ \A m \in fired : due[m] <= now
    BY DEF TimeInv, ClockInv
  <2>2. ASSUME NEW b \in Addrs, Live(b)' PROVE due'[heap'[b].id] <= heap'[b].value
    <3>1. CASE b = a
      BY <1>1, <1>3, <3>1
    <3>2. CASE b # a
      BY <1>1, <1>2, <1>3, <1>4, <2>1, <2>2, <3>2
    <3> QED
      BY <3>1, <3>2
  <2> QED
    BY <1>2, <1>3, <2>1, <2>2
<1>6. PassInv'
  <2>1. \A i \in 1..Len(pass) : pass[i] # n + 1
    BY <1>2 DEF TimeInv, PassInv
  <2>2. ASSUME NEW i \in 1..Len(pass), NEW b \in Addrs, Live(b)', heap'[b].id = pass[i]
        PROVE  heap'[b].value > ms_now
    <3>1. b # a
      BY <1>1, <2>1, <2>2
    <3> QED
      BY <1>1, <1>4, <2>2, <3>1 DEF TimeInv, PassInv
  <2> QED
    BY <2>2 DEF TimeInv, PassInv
<1> QED
  BY <1>5, <1>6

\* The timer that fires was due, and has not fired in this call.
LEMMA FireTimes ==
  ASSUME TimeInv, IInv', NEW e \in timers_, Fire(e)
  PROVE  ClockInv' /\ PassInv'
<1> DEFINE a == e[2]
           t == heap[a]
<1>0. IInv
  BY DEF TimeInv
<1>1. a \in Addrs /\ Live(a) /\ t \in Timers /\ t.id \in Ids /\ e[1] = t.value
  BY <1>0, EntryFacts
<1>2. /\ e[1] <= ms_now /\ pc' = "cb" /\ fired' = fired \cup {t.id} /\ pass' = Append(pass, t.id)
      /\ UNCHANGED <<last_time_out_, ms_now, now, due, nsteps>>
  BY DEF Fire
<1>3. /\ now \in Nat /\ ms_now \in Nat /\ last_time_out_ \in Nat
      /\ pass \in Seq(Ids) /\ Len(pass) \in Nat
      /\ t.value \in Nat /\ t.interval \in Nat /\ due[t.id] \in Nat
  BY <1>0, <1>1, Times
<1>4. /\ \A b \in Addrs : b # a => heap'[b] = heap[b]
      /\ Live(a)' => heap'[a].id = t.id /\ heap'[a].value > ms_now
  <2>1. CASE t.interval > 0
    <3>1. heap' = [heap EXCEPT ![a].value = ms_now + t.interval]
      BY <2>1 DEF Fire, NextValue
    <3>2. heap'[a] = [t EXCEPT !.value = ms_now + t.interval]
      BY <1>0, <1>1, <3>1 DEF IInv, TypeOK
    <3>3. heap'[a].id = t.id /\ heap'[a].value = ms_now + t.interval
      BY <1>1, <3>2 DEF Timers
    <3>4. \A b \in Addrs : b # a => heap'[b] = heap[b]
      BY <1>0, <1>1, <3>1 DEF IInv, TypeOK
    <3>5. ms_now + t.interval > ms_now
      BY <1>3, <2>1
    <3> QED
      BY <3>3, <3>4, <3>5
  <2>2. CASE ~(t.interval > 0)
    <3>1. heap' = [heap EXCEPT ![a] = NoTimer]
      BY <2>2 DEF Fire
    <3> QED
      BY <1>0, <1>1, <3>1 DEF IInv, TypeOK, Live
  <2> QED
    BY <2>1, <2>2
<1>5. \A b \in Addrs : b # a => (Live(b)' <=> Live(b))
  BY <1>4 DEF Live
<1>6. /\ pass' \in Seq(Ids) /\ Len(pass') = Len(pass) + 1
      /\ \A i \in 1..Len(pass) : pass'[i] = pass[i]
      /\ pass'[Len(pass) + 1] = t.id
  BY <1>1, <1>2, <1>3, AppendProperties
<1>7. \A i \in 1..Len(pass) : pass[i] # t.id
  <2>1. ~(t.value > ms_now)
    BY <1>1, <1>2, <1>3
  <2> QED
    BY <1>1, <2>1 DEF TimeInv, PassInv
<1>8. \A b \in Addrs : b # a /\ Live(b) => heap[b].id # t.id
  BY <1>0, <1>1 DEF IInv, IdsApart
<1> HIDE DEF t, a
<1>9. ClockInv'
  <2> SUFFICES ASSUME nsteps = 0
               PROVE  /\ last_time_out_' <= now' /\ ms_now' <= now'
                      /\ \A b \in Addrs : Live(b)' => due'[heap'[b].id] <= heap'[b].value
                      /\ \A m \in fired' : due'[m] <= now'
    BY <1>2 DEF ClockInv
  <2>1. /\ last_time_out_ <= now /\ ms_now <= now
        /\ \A b \in Addrs : Live(b) => due[heap[b].id] <= heap[b].value
        /\ \A m \in fired : due[m] <= now
    BY DEF TimeInv, ClockInv
  <2>2. due[t.id] <= t.value
    BY <1>1, <2>1 DEF t
  <2>3. due[t.id] <= ms_now /\ due[t.id] <= now
    BY <1>1, <1>2, <1>3, <2>1, <2>2
  <2>4. ASSUME NEW b \in Addrs, Live(b)' PROVE due[heap'[b].id] <= heap'[b].value
    <3>1. CASE b = a
      <4> DEFINE v == heap'[b].value
      <4>1. heap'[b].id = t.id /\ v > ms_now /\ v \in Nat
        <5>1. v \in Nat
          <6>1. heap'[b] \in Timers
            BY <2>4 DEF IInv, TypeOK, Live
          <6> QED
            BY <6>1 DEF Timers
        <5> QED
          BY <1>4, <2>4, <3>1, <5>1
      <4> HIDE DEF v
      <4>2. due[t.id] <= v
        BY <1>3, <2>3, <4>1
      <4> QED
        BY <4>1, <4>2 DEF v
    <3>2. CASE b # a
      BY <1>4, <1>5, <2>1, <2>4, <3>2
    <3> QED
      BY <3>1, <3>2
  <2> QED
    BY <1>2, <2>1, <2>3, <2>4
<1>10. PassInv'
  <2>1. ASSUME NEW i \in 1..Len(pass') PROVE i \in 1..Len(pass) \/ i = Len(pass) + 1
    BY <1>3, <1>6
  <2>2. \A i, j \in 1..Len(pass') : i # j => pass'[i] # pass'[j]
    BY <1>6, <1>7, <2>1 DEF TimeInv, PassInv
  <2>3. ASSUME NEW i \in 1..Len(pass')
        PROVE  /\ pass'[i] \in fired'
               /\ \A b \in Addrs : Live(b)' /\ heap'[b].id = pass'[i] => heap'[b].value > ms_now
    <3>1. CASE i = Len(pass) + 1
      BY <1>2, <1>4, <1>5, <1>6, <1>8, <3>1
    <3>2. CASE i \in 1..Len(pass)
      <4>1. pass'[i] = pass[i] /\ pass[i] \in fired /\ pass[i] # t.id
        BY <1>6, <1>7, <3>2 DEF TimeInv, PassInv
      <4> QED
        BY <1>2, <1>4, <1>5, <3>2, <4>1 DEF TimeInv, PassInv
    <3> QED
      BY <2>1, <3>1, <3>2
  <2> QED
    BY <1>2, <2>2, <2>3 DEF PassInv
<1> QED
  BY <1>9, <1>10

\* Every step keeps the times.
LEMMA NextTimes ==
  ASSUME TimeInv, IInv', [Next]_vars
  PROVE  ClockInv' /\ PassInv'
<1>0. IInv /\ TypeOK
  BY DEF TimeInv, IInv
<1>1. CASE RunFunc
  <2>1. /\ UNCHANGED <<last_time_out_, pc, ms_now, now, due, fired, pass, nsteps>>
        /\ \A b \in Addrs : heap'[b] = heap[b] \/ heap'[b] = NoTimer
    BY <1>0, <1>1 DEF RunFunc, EraseInLoop, TypeOK, listVars
  <2> QED
    BY <1>0, <2>1, TimesKept, PassKept DEF TypeOK
<1>2. CASE EnterPoll
  <2>1. UNCHANGED <<heap, last_time_out_, ms_now, now, due, fired, pass, nsteps>> /\ pass = << >>
    BY <1>2 DEF EnterPoll, listVars, history, TimeInv, PassInv
  <2> QED
    BY <1>0, <2>1, TimesKept, PassKept DEF TypeOK
<1>3. CASE PollNoTimers
  <2>1. UNCHANGED <<heap, last_time_out_, ms_now, now, due, fired, pass, nsteps>> /\ pass = << >>
    BY <1>3 DEF PollNoTimers, listVars, history, TimeInv, PassInv
  <2> QED
    BY <1>0, <2>1, TimesKept, PassKept DEF TypeOK
<1>4. CASE EndTimerProcs
  <2>1. UNCHANGED <<heap, last_time_out_, now, due, fired, nsteps>> /\ pass' = << >> /\ ms_now' = 0
    BY <1>4 DEF EndTimerProcs, listVars, history
  <2> QED
    BY <1>0, <2>1, TimesKept, PassKept DEF TypeOK
<1>5. CASE RunTimerProcs
  <2>1. /\ UNCHANGED <<now, due, fired, pass, nsteps>> /\ pass = << >>
        /\ ms_now' = now /\ last_time_out_' = now
    BY <1>5 DEF RunTimerProcs, history, TimeInv, PassInv
  <2>2. PassInv'
    BY <2>1 DEF PassInv
  <2>3. CASE nsteps = 0
    <3>1. heap' = heap
      BY <1>0, <1>5, <2>3 DEF RunTimerProcs, TimeInv, ClockInv, TypeOK
    <3> QED
      BY <1>0, <2>1, <2>2, <3>1, TimesKept DEF TypeOK
  <2>4. CASE nsteps # 0
    BY <2>1, <2>2, <2>4 DEF ClockInv
  <2> QED
    BY <2>3, <2>4
<1>6. ASSUME NEW e \in timers_, Fire(e) PROVE ClockInv' /\ PassInv'
  BY <1>6, FireTimes
<1>7. ASSUME NEW a \in Addrs, Insert(a) PROVE ClockInv' /\ PassInv'
  <2>1. ASSUME NEW d \in Nat, NEW i \in {0} \cup Intervals, LoopInsert(a, d, i) \/ ThreadInsert(a, d, i)
        PROVE  ClockInv' /\ PassInv'
    <3>1. now + d \in Nat
      BY <1>0 DEF TypeOK
    <3> QED
      BY <2>1, <3>1, NewTimerTimes DEF LoopInsert, ThreadInsert
  <2>2. (\A d \in Delays : d \in Nat) /\ (\A i \in Intervals : i \in Nat)
    BY TimesAssumption
  <2> QED
    BY <1>7, <2>1, <2>2 DEF Insert
<1>8. ASSUME NEW n \in 1..Len(addrOf), LoopErase(n) \/ ThreadErase(n) PROVE ClockInv' /\ PassInv'
  <2>1. UNCHANGED <<last_time_out_, pc, ms_now, now, due, fired, pass, nsteps>>
    BY <1>8 DEF LoopErase, ThreadErase, history
  <2>2. \A b \in Addrs : heap'[b] = heap[b] \/ heap'[b] = NoTimer
    BY <1>0, <1>8 DEF LoopErase, ThreadErase, EraseInLoop, TypeOK, listVars
  <2> QED
    BY <1>0, <2>1, <2>2, TimesKept, PassKept DEF TypeOK
<1>9. CASE Tick
  <2>1. UNCHANGED <<heap, last_time_out_, pc, ms_now, due, fired, pass, nsteps>> /\ now <= now'
    BY <1>0, <1>9 DEF Tick, listVars, history, TypeOK
  <2> QED
    BY <1>0, <2>1, TimesKept, PassKept
<1>10. ASSUME NEW d \in 1..MaxTime, ClockBack(d) PROVE ClockInv' /\ PassInv'
  <2>1. UNCHANGED <<heap, last_time_out_, pc, ms_now, due, fired, pass>> /\ nsteps' # 0
    BY <1>0, <1>10 DEF ClockBack, listVars, history, TypeOK
  <2> QED
    BY <1>0, <2>1, TimesKept, PassKept
<1>11. CASE UNCHANGED vars
  <2>1. UNCHANGED <<heap, last_time_out_, pc, ms_now, now, due, fired, pass, nsteps>>
    BY <1>11 DEF vars, listVars, history
  <2> QED
    BY <1>0, <2>1, TimesKept, PassKept DEF TypeOK
<1> QED
  BY <1>1, <1>2, <1>3, <1>4, <1>5, <1>6, <1>7, <1>8, <1>9, <1>10, <1>11 DEF Next, LoopStep

\* The wait that Loop() asks for ends with the first timer, at the latest.
LEMMA EnterPollWakes ==
  ASSUME IInv, EnterPoll
  PROVE  WakesInTime'
<1> DEFINE first == CHOOSE e \in timers_ : IsFirst(e)
<1>0. /\ UNCHANGED <<timers_, now>> /\ now \in Nat /\ timers_ \subseteq Nat \X Addrs
      /\ PollTimeMs \in Nat
      /\ wakeAt' = now + IF TimeoutMs < PollTimeMs THEN TimeoutMs ELSE PollTimeMs
  BY TimesAssumption DEF EnterPoll, listVars, IInv, TypeOK
<1>1. ASSUME NEW e \in timers_ PROVE wakeAt' <= e[1] \/ wakeAt' <= now
  <2>1. first \in timers_ /\ IsFirst(first)
    BY <1>0, <1>1, HasFirst
  <2>2. TimeoutMs = IF now < last_time_out_ \/ first[1] <= now THEN 0 ELSE first[1] - now
    BY <1>1 DEF TimeoutMs
  <2> DEFINE x == first[1]
             y == e[1]
             m == TimeoutMs
             w == wakeAt'
  <2>3. x \in Nat /\ y \in Nat /\ x <= y
    BY <1>0, <1>1, <2>1 DEF IsFirst
  <2>4. m = 0 \/ (m = x - now /\ ~(x <= now))
    BY <2>2
  <2>5. w = now + IF m < PollTimeMs THEN m ELSE PollTimeMs
    BY <1>0
  <2> HIDE DEF x, y, m, w, first
  <2>6. w <= y \/ w <= now
    BY <1>0, <2>3, <2>4, <2>5
  <2> QED
    BY <2>6 DEF w, y
<1> QED
  BY <1>0, <1>1 DEF WakesInTime

\* In Poll() the list stays as it is; only the clock moves.
LEMMA NextWakes ==
  ASSUME TimeInv, [Next]_vars
  PROVE  WakesInTime'
<1>0. /\ IInv /\ WakesInTime /\ now \in Nat /\ wakeAt \in Nat /\ nsteps \in Nat
      /\ timers_ \subseteq Nat \X Addrs
  BY DEF TimeInv, IInv, TypeOK
<1>1. ASSUME pc' # "poll" PROVE WakesInTime'
  BY <1>1 DEF WakesInTime
<1>2. ASSUME UNCHANGED <<pc, timers_, wakeAt, nsteps>>, now' = now \/ now' = now + 1 PROVE WakesInTime'
  <2> SUFFICES ASSUME pc = "poll", NEW e \in timers_
               PROVE  wakeAt <= e[1] \/ wakeAt <= now' \/ nsteps > 0
    BY <1>2 DEF WakesInTime
  <2>1. wakeAt <= e[1] \/ wakeAt <= now \/ nsteps > 0
    BY <1>0 DEF WakesInTime
  <2> QED
    BY <1>0, <1>2, <2>1
<1>3. CASE EnterPoll
  BY <1>0, <1>3, EnterPollWakes
<1>4. CASE RunFunc \/ PollNoTimers \/ EndTimerProcs \/ RunTimerProcs
  BY <1>1, <1>4 DEF RunFunc, PollNoTimers, EndTimerProcs, RunTimerProcs
<1>5. ASSUME NEW e \in timers_, Fire(e) PROVE WakesInTime'
  BY <1>1, <1>5 DEF Fire
<1>6. ASSUME NEW a \in Addrs, NEW d, NEW i, LoopInsert(a, d, i) \/ ThreadInsert(a, d, i) PROVE WakesInTime'
  <2>1. CASE LoopInsert(a, d, i)
    BY <1>1, <2>1 DEF LoopInsert, InCallersCode
  <2>2. CASE ThreadInsert(a, d, i)
    BY <1>2, <2>2 DEF ThreadInsert
  <2> QED
    BY <1>6, <2>1, <2>2
<1>7. ASSUME NEW n \in 1..Len(addrOf), LoopErase(n) \/ ThreadErase(n) PROVE WakesInTime'
  <2>1. CASE LoopErase(n)
    BY <1>1, <2>1 DEF LoopErase, InCallersCode
  <2>2. CASE ThreadErase(n)
    BY <1>2, <2>2 DEF ThreadErase, listVars
  <2> QED
    BY <1>7, <2>1, <2>2
<1>8. CASE Tick
  BY <1>2, <1>8 DEF Tick, listVars
<1>9. ASSUME NEW d \in 1..MaxTime, ClockBack(d) PROVE WakesInTime'
  <2>1. nsteps' > 0
    BY <1>0, <1>9 DEF ClockBack
  <2> QED
    BY <2>1 DEF WakesInTime
<1>10. CASE UNCHANGED vars
  BY <1>2, <1>10 DEF vars, listVars
<1> QED
  BY <1>3, <1>4, <1>5, <1>6, <1>7, <1>8, <1>9, <1>10 DEF Next, LoopStep, Insert

\* The strengthened invariant holds in every reachable state.
THEOREM TimesInvariance == Spec => []TimeInv
<1>1. TimeInv /\ [Next]_vars => TimeInv'
  <2> SUFFICES ASSUME TimeInv, [Next]_vars PROVE TimeInv'
    OBVIOUS
  <2>1. IInv'
    BY NextIInv DEF TimeInv
  <2> QED
    BY <2>1, NextTimes, NextWakes DEF TimeInv
<1> QED
  BY <1>1, InitTimeInv, PTL DEF Spec

\* Unless the clock was set back no timer fires early, and in one call of RunTimerProcs
\* no timer fires twice, however many of its intervals have passed.
THEOREM FiresOnceAndNotEarly == Spec => []OnceAndNotEarly
<1>1. TimeInv => OnceAndNotEarly
  BY DEF TimeInv, ClockInv, PassInv, OnceAndNotEarly
<1> QED
  BY <1>1, TimesInvariance, PTL

\* Poll() does not wait past the first timer of the list.
THEOREM PollWakesInTime == Spec => []WakesInTime
<1>1. TimeInv => WakesInTime
  BY DEF TimeInv
<1> QED
  BY <1>1, TimesInvariance, PTL
=============================================================================

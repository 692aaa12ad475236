------------------------- MODULE GoroutinePoolProofs -------------------------
(***************************************************************************)
(* Theorems about the goroutine pool, for every pool size, queue size, set *)
(* of tasks and set of Shutdown callers.                                   *)
(*                                                                         *)
(* TypeOK is inductive by itself.  The other invariants need to know what  *)
(* the phases of the workers and of the Shutdown calls say about the       *)
(* channel and the Once; PoolInv gathers that.                             *)
(***************************************************************************)
EXTENDS GoroutinePool, FiniteSetTheorems, TLAPS

\* A worker has a task in hand exactly from the receive to the end of the round.
HandsInv ==
  \A w \in Workers : holds[w] # NoTask <=> worker[w] \in {"got", "run", "ran", "uncounted"}

\* A worker leaves only a closed and empty channel.
ExitInv ==
  \A w \in Workers : worker[w] = "exited" => chanClosed /\ taskQueue = <<>>

\* The body of the Once is run by one call at a time; the channel is closed when
\* it waits for the workers, and they are gone when it is over.
OnceInv ==
  /\ \A c \in Closers : shut[c] \in {"mark", "close", "wait"} => once = "busy"
  /\ \A c, d \in Closers :
       shut[c] \in {"mark", "close", "wait"} /\ shut[d] \in {"mark", "close", "wait"} => c = d
  /\ \A c \in Closers : shut[c] = "wait" => chanClosed
  /\ \A c \in Closers : shut[c] = "returned" => once = "done"
  /\ once = "done" => chanClosed /\ \A w \in Workers : worker[w] = "exited"
  /\ \A c \in TimedClosers : timed[c] = "true" => shut[c] = "returned"

PoolInv == TypeOK /\ HandsInv /\ ExitInv /\ OnceInv /\ TaskPlacement
-----------------------------------------------------------------------------
\* NewPool's repair of its arguments leaves at least one worker and one slot.
LEMMA SizesPositive ==
  /\ PoolSize \in Nat /\ PoolSize >= 1
  /\ QueueCap \in Nat /\ QueueCap >= 1
BY PoolAssumption DEF PoolSize, QueueCap

\* Types are preserved by every step.
LEMMA TypeStep ==
  ASSUME TypeOK, [Next]_vars
  PROVE  TypeOK'
<1> USE DEF TypeOK, CallPc, WorkerPc, ShutPc, Refusing, Refused, Verdict, Counters
<1>1. ASSUME NEW t \in Tasks, Submitter(t)
      PROVE  TypeOK'
  <2>1. CASE LoadClosed(t)
    BY <2>1 DEF LoadClosed, workVars, shutVars
  <2>2. CASE CountSubmitted(t)
    BY <2>2 DEF CountSubmitted, Bump, workVars, shutVars
  <2>3. CASE Enqueue(t)
    <3>1. taskQueue' \in Seq(Tasks) /\ Len(taskQueue') <= QueueCap
      BY <2>3, SizesPositive DEF Enqueue
    <3>2. QED BY <2>3, <3>1 DEF Enqueue, workVars, shutVars
  <2>4. CASE SendPanics(t)
    BY <2>4 DEF SendPanics, workVars, shutVars
  <2>5. CASE QueueFull(t)
    BY <2>5 DEF QueueFull, workVars, shutVars
  <2>6. CASE CtxDone(t)
    BY <2>6 DEF CtxDone, workVars, shutVars
  <2>7. CASE CountRejected(t)
    <3>1. Verdict[call[t]] \in Refused
      BY <2>7 DEF CountRejected
    <3>2. QED BY <2>7, <3>1 DEF CountRejected, Bump, workVars, shutVars
  <2>8. QED BY <1>1, <2>1, <2>2, <2>3, <2>4, <2>5, <2>6, <2>7 DEF Submitter
<1>2. ASSUME NEW w \in Workers, WorkerStep(w)
      PROVE  TypeOK'
  <2>1. CASE Receive(w)
    <3>1. /\ Head(taskQueue) \in Tasks
          /\ Tail(taskQueue) \in Seq(Tasks) /\ Len(Tail(taskQueue)) <= QueueCap
      BY <2>1, SizesPositive DEF Receive
    <3>2. QED BY <2>1, <3>1 DEF Receive, At, shutVars
  <2>2. CASE ExitLoop(w)
    BY <2>2 DEF ExitLoop, At, callVars, shutVars
  <2>3. CASE BeginProcessing(w)
    BY <2>3 DEF BeginProcessing, At, Bump, callVars, shutVars
  <2>4. CASE SafeRun(w)
    <3>1. PICK o \in {"returned", "recovered"} : outcome' = [outcome EXCEPT ![holds[w]] = o]
      BY <2>4 DEF SafeRun
    <3>2. outcome' \in [Tasks -> {"none", "returned", "recovered"}]
      BY <3>1
    <3>3. worker' \in [Workers -> WorkerPc]
      BY <2>4 DEF SafeRun, At
    <3>4. QED BY <2>4, <3>2, <3>3 DEF SafeRun, callVars, shutVars
  <2>5. CASE EndProcessing(w)
    BY <2>5 DEF EndProcessing, At, Bump, callVars, shutVars
  <2>6. CASE CountCompleted(w)
    BY <2>6 DEF CountCompleted, At, Bump, callVars, shutVars
  <2>7. QED BY <1>2, <2>1, <2>2, <2>3, <2>4, <2>5, <2>6 DEF WorkerStep
<1>3. ASSUME NEW c \in Closers, Closer(c)
      PROVE  TypeOK'
  <2>1. CASE CallShutdown(c)
    BY <2>1 DEF CallShutdown, Step, callVars, workVars
  <2>2. CASE EnterOnce(c)
    BY <2>2 DEF EnterOnce, Step, callVars, workVars
  <2>3. CASE SkipOnce(c)
    BY <2>3 DEF SkipOnce, Step, callVars, workVars
  <2>4. CASE MarkClosed(c)
    BY <2>4 DEF MarkClosed, Step, callVars, workVars
  <2>5. CASE CloseQueue(c)
    BY <2>5 DEF CloseQueue, Step, callVars, workVars
  <2>6. CASE WaitWorkers(c)
    BY <2>6 DEF WaitWorkers, Step, callVars, workVars
  <2>7. QED BY <1>3, <2>1, <2>2, <2>3, <2>4, <2>5, <2>6 DEF Closer
<1>4. ASSUME NEW c \in TimedClosers, TimedReturn(c)
      PROVE  TypeOK'
  BY <1>4 DEF TimedReturn, callVars, workVars
<1>5. CASE UNCHANGED vars
  BY <1>5 DEF vars, callVars, workVars, shutVars
<1>6. QED BY <1>1, <1>2, <1>3, <1>4, <1>5 DEF Next, Quiescent

\* The initial values have their types.
LEMMA TypeInit ==
  ASSUME Init
  PROVE  TypeOK
<1>1. taskQueue \in Seq(Tasks) /\ Len(taskQueue) <= QueueCap
  BY SizesPositive DEF Init
<1>2. metrics \in [Counters -> Int]
  BY DEF Init
<1>3. QED BY <1>1, <1>2 DEF Init, TypeOK, CallPc, WorkerPc, ShutPc

\* Every variable of the pool keeps its type, the channel its capacity.
THEOREM PoolTypes == Spec => []TypeOK
<1>1. QED BY TypeInit, TypeStep, PTL DEF Spec
-----------------------------------------------------------------------------
\* Only the steps of a worker touch what it does and what it holds.
LEMMA OthersLeaveWorkers ==
  ASSUME TypeOK, [Next]_vars, ~ \E w \in Workers : WorkerStep(w)
  PROVE  UNCHANGED workVars
BY DEF Next, Submitter, LoadClosed, CountSubmitted, Enqueue, SendPanics, QueueFull, CtxDone,
       CountRejected, Closer, CallShutdown, EnterOnce, SkipOnce, MarkClosed, CloseQueue,
       WaitWorkers, TimedReturn, Quiescent, vars, workVars

\* HandsInv: the only worker that changes does so by one step of its loop.
LEMMA HandsStep ==
  ASSUME TypeOK, HandsInv, [Next]_vars
  PROVE  HandsInv'
<1>1. ASSUME NEW v \in Workers, WorkerStep(v)
      PROVE  HandsInv'
  <2>1. CASE Receive(v)
    <3>1. Head(taskQueue) # NoTask
      BY <2>1, PoolAssumption DEF Receive, TypeOK
    <3>2. QED BY <2>1, <3>1 DEF Receive, At, HandsInv, TypeOK
  <2>2. CASE ExitLoop(v)
    BY <2>2 DEF ExitLoop, At, HandsInv, TypeOK
  <2>3. CASE BeginProcessing(v)
    BY <2>3 DEF BeginProcessing, At, HandsInv, TypeOK
  <2>4. CASE SafeRun(v)
    BY <2>4 DEF SafeRun, At, HandsInv, TypeOK
  <2>5. CASE EndProcessing(v)
    BY <2>5 DEF EndProcessing, At, HandsInv, TypeOK
  <2>6. CASE CountCompleted(v)
    BY <2>6 DEF CountCompleted, At, HandsInv, TypeOK
  <2>7. QED BY <1>1, <2>1, <2>2, <2>3, <2>4, <2>5, <2>6 DEF WorkerStep
<1>2. CASE UNCHANGED workVars
  BY <1>2 DEF HandsInv, workVars
<1>3. QED BY <1>1, <1>2, OthersLeaveWorkers

\* The channel stays closed; what a closed channel holds only shrinks; a worker
\* that has left does not come back.
LEMMA ClosedForGood ==
  ASSUME TypeOK, [Next]_vars
  PROVE  /\ chanClosed => chanClosed'
         /\ chanClosed /\ taskQueue = <<>> => taskQueue' = <<>>
         /\ \A w \in Workers : worker[w] = "exited" => worker'[w] = "exited"
<1>1. ASSUME NEW t \in Tasks, Submitter(t)
      PROVE  /\ UNCHANGED chanClosed /\ UNCHANGED worker
             /\ chanClosed => UNCHANGED taskQueue
  BY <1>1 DEF Submitter, LoadClosed, CountSubmitted, Enqueue, SendPanics, QueueFull, CtxDone,
              CountRejected, workVars, shutVars
<1>2. ASSUME NEW v \in Workers, WorkerStep(v)
      PROVE  /\ UNCHANGED chanClosed
             /\ taskQueue = <<>> => UNCHANGED taskQueue
             /\ \A w \in Workers : worker[w] = "exited" => worker'[w] = "exited"
  BY <1>2 DEF WorkerStep, Receive, ExitLoop, BeginProcessing, SafeRun, EndProcessing,
              CountCompleted, At, callVars, shutVars, TypeOK
<1>3. ASSUME NEW c \in Closers, Closer(c)
      PROVE  /\ UNCHANGED taskQueue /\ UNCHANGED worker
             /\ chanClosed => chanClosed'
  BY <1>3 DEF Closer, CallShutdown, EnterOnce, SkipOnce, MarkClosed, CloseQueue, WaitWorkers,
              callVars, workVars
<1>4. ASSUME NEW c \in TimedClosers, TimedReturn(c)
      PROVE  UNCHANGED <<taskQueue, worker, chanClosed>>
  BY <1>4 DEF TimedReturn, callVars, workVars
<1>5. QED BY <1>1, <1>2, <1>3, <1>4
       DEF Next, Quiescent, vars, callVars, workVars, shutVars

\* ExitInv: ExitLoop finds the channel closed and empty, and so it stays.
LEMMA ExitStep ==
  ASSUME TypeOK, ExitInv, [Next]_vars
  PROVE  ExitInv'
<1>1. ASSUME NEW w \in Workers, worker'[w] = "exited", worker[w] # "exited"
      PROVE  chanClosed /\ taskQueue = <<>>
  <2>1. PICK v \in Workers : WorkerStep(v)
    BY <1>1, OthersLeaveWorkers DEF workVars
  <2>2. ExitLoop(v)
    BY <1>1, <2>1 DEF WorkerStep, Receive, BeginProcessing, SafeRun, EndProcessing,
                      CountCompleted, At, TypeOK
  <2>3. QED BY <2>2 DEF ExitLoop
<1>2. QED BY <1>1, ClosedForGood DEF ExitInv

\* OnceInv: one step of one Shutdown call at a time.
LEMMA OnceStep ==
  ASSUME TypeOK, OnceInv, [Next]_vars
  PROVE  OnceInv'
<1>1. ASSUME NEW c \in Closers, Closer(c)
      PROVE  OnceInv'
  <2>1. CASE CallShutdown(c)
    BY <2>1 DEF CallShutdown, Step, OnceInv, TypeOK, workVars
  <2>2. CASE EnterOnce(c)
    BY <2>2 DEF EnterOnce, Step, OnceInv, TypeOK, workVars
  <2>3. CASE SkipOnce(c)
    BY <2>3 DEF SkipOnce, Step, OnceInv, TypeOK, workVars
  <2>4. CASE MarkClosed(c)
    BY <2>4 DEF MarkClosed, Step, OnceInv, TypeOK, workVars
  <2>5. CASE CloseQueue(c)
    BY <2>5 DEF CloseQueue, Step, OnceInv, TypeOK, workVars
  <2>6. CASE WaitWorkers(c)
    BY <2>6 DEF WaitWorkers, Step, OnceInv, TypeOK, workVars
  <2>7. QED BY <1>1, <2>1, <2>2, <2>3, <2>4, <2>5, <2>6 DEF Closer
<1>2. ASSUME NEW c \in TimedClosers, TimedReturn(c)
      PROVE  OnceInv'
  BY <1>2 DEF TimedReturn, OnceInv, TypeOK, workVars
<1>3. CASE UNCHANGED shutVars
  <2>1. once = "done" => \A w \in Workers : worker'[w] = "exited"
    BY ClosedForGood DEF OnceInv
  <2>2. QED BY <1>3, <2>1 DEF OnceInv, shutVars
<1>4. ASSUME NEW t \in Tasks, Submitter(t)
      PROVE  UNCHANGED shutVars
  BY <1>4 DEF Submitter, LoadClosed, CountSubmitted, Enqueue, SendPanics, QueueFull, CtxDone,
              CountRejected
<1>5. ASSUME NEW w \in Workers, WorkerStep(w)
      PROVE  UNCHANGED shutVars
  BY <1>5 DEF WorkerStep, Receive, ExitLoop, BeginProcessing, SafeRun, EndProcessing,
              CountCompleted
<1>6. QED BY <1>1, <1>2, <1>3, <1>4, <1>5 DEF Next, Quiescent, vars, shutVars
-----------------------------------------------------------------------------
\* What a send adds to the content of a channel.
LEMMA AppendContent ==
  ASSUME NEW S, NEW q \in Seq(S), NEW t \in S
  PROVE  /\ \A x : (\E i \in 1..Len(Append(q, t)) : Append(q, t)[i] = x)
                  <=> (\E i \in 1..Len(q) : q[i] = x) \/ x = t
         /\ (\A i, j \in 1..Len(q) : q[i] = q[j] => i = j)
              /\ (\A i \in 1..Len(q) : q[i] # t)
              => \A i, j \in 1..Len(Append(q, t)) :
                   Append(q, t)[i] = Append(q, t)[j] => i = j
<1>1. /\ Len(Append(q, t)) = Len(q) + 1
      /\ Append(q, t)[Len(q) + 1] = t
      /\ \A i \in 1..Len(q) : Append(q, t)[i] = q[i]
      /\ Len(q) \in Nat
  OBVIOUS
<1>2. 1..Len(Append(q, t)) = 1..Len(q) \cup {Len(q) + 1}
  BY <1>1
<1>3. QED BY <1>1, <1>2

\* What a receive takes out of it, when no value is there twice.
LEMMA TailContent ==
  ASSUME NEW S, NEW q \in Seq(S), q # <<>>,
         \A i, j \in 1..Len(q) : q[i] = q[j] => i = j
  PROVE  /\ \A x : (\E i \in 1..Len(Tail(q)) : Tail(q)[i] = x)
                  <=> (\E i \in 1..Len(q) : q[i] = x) /\ x # Head(q)
         /\ \E i \in 1..Len(q) : q[i] = Head(q)
         /\ \A i, j \in 1..Len(Tail(q)) : Tail(q)[i] = Tail(q)[j] => i = j
<1>1. /\ Len(q) \in Nat /\ Len(q) >= 1
      /\ Len(Tail(q)) = Len(q) - 1
      /\ Head(q) = q[1]
      /\ \A i \in 1..Len(Tail(q)) : Tail(q)[i] = q[i + 1]
  OBVIOUS
<1>2. ASSUME NEW x, NEW i \in 1..Len(q), q[i] = x, x # Head(q)
      PROVE  \E k \in 1..Len(Tail(q)) : Tail(q)[k] = x
  <2>1. i - 1 \in 1..Len(Tail(q))
    BY <1>1, <1>2
  <2>2. Tail(q)[i - 1] = x
    BY <1>1, <1>2, <2>1
  <2>3. QED BY <2>1, <2>2
<1>3. ASSUME NEW k \in 1..Len(Tail(q))
      PROVE  k + 1 \in 1..Len(q) /\ Tail(q)[k] = q[k + 1] /\ Tail(q)[k] # Head(q)
  BY <1>1
<1>4. ASSUME NEW i \in 1..Len(Tail(q)), NEW j \in 1..Len(Tail(q)), Tail(q)[i] = Tail(q)[j]
      PROVE  i = j
  <2>1. i + 1 = j + 1
    BY <1>3, <1>4
  <2>2. QED BY <2>1
<1>5. QED BY <1>1, <1>2, <1>3, <1>4

\* The three steps that move a task, and where everything is after them: from its
\* call into the channel,
LEMMA EnqueueMoves ==
  ASSUME TypeOK, TaskPlacement, NEW t \in Tasks, Enqueue(t)
  PROVE  /\ ~Queued(t) /\ ~Held(t) /\ ~Ended(t)
         /\ \A x \in Tasks : Queued(x)' <=> Queued(x) \/ x = t
         /\ \A x \in Tasks : Held(x)' <=> Held(x)
         /\ \A x \in Tasks : Ended(x)' <=> Ended(x)
         /\ \A x \in Tasks : call'[x] = IF x = t THEN "accepted" ELSE call[x]
<1>1. \A x \in Tasks :
        /\ Held(x)' <=> Held(x)
        /\ Ended(x)' <=> Ended(x)
        /\ call'[x] = IF x = t THEN "accepted" ELSE call[x]
  BY DEF Enqueue, workVars, Held, HeldBy, Ended, TypeOK
<1>2. ~Queued(t) /\ ~Held(t) /\ ~Ended(t)
  BY DEF Enqueue, TaskPlacement, Queued, Held, Ended
<1>3. \A x \in Tasks : Queued(x)' <=> Queued(x) \/ x = t
  <2>1. taskQueue \in Seq(Tasks) /\ taskQueue' = Append(taskQueue, t)
    BY DEF Enqueue, TypeOK
  <2>2. QED BY <2>1, AppendContent DEF Queued
<1>4. QED BY <1>1, <1>2, <1>3

\* from the channel into the hands of a worker,
LEMMA ReceiveMoves ==
  ASSUME TypeOK, TaskPlacement, NEW w \in Workers, Receive(w)
  PROVE  /\ Head(taskQueue) \in Tasks /\ Queued(Head(taskQueue))
         /\ \A x \in Tasks : Queued(x)' <=> Queued(x) /\ x # Head(taskQueue)
         /\ \A v \in Workers, x \in Tasks :
              HeldBy(v, x)' <=> HeldBy(v, x) \/ (v = w /\ x = Head(taskQueue))
         /\ \A x \in Tasks : Held(x)' <=> Held(x) \/ x = Head(taskQueue)
         /\ \A x \in Tasks : Ended(x)' <=> Ended(x)
         /\ UNCHANGED call
<1>1. /\ taskQueue \in Seq(Tasks) /\ taskQueue # <<>> /\ taskQueue' = Tail(taskQueue)
      /\ \A i, j \in 1..Len(taskQueue) : taskQueue[i] = taskQueue[j] => i = j
      /\ UNCHANGED <<call, outcome>>
  BY DEF Receive, TypeOK, TaskPlacement
<1>2. /\ Head(taskQueue) \in Tasks /\ Queued(Head(taskQueue))
      /\ \A x \in Tasks : Queued(x)' <=> Queued(x) /\ x # Head(taskQueue)
  <2>1. Head(taskQueue) \in Tasks /\ Queued(Head(taskQueue))
    BY <1>1, TailContent DEF Queued
  <2>2. \A x \in Tasks : Queued(x)' <=> Queued(x) /\ x # Head(taskQueue)
    BY <1>1, TailContent DEF Queued
  <2>3. QED BY <2>1, <2>2
<1>3. \A v \in Workers, x \in Tasks :
        HeldBy(v, x)' <=> HeldBy(v, x) \/ (v = w /\ x = Head(taskQueue))
  BY DEF Receive, At, HeldBy, TypeOK
<1>4. \A x \in Tasks : Held(x)' <=> Held(x) \/ x = Head(taskQueue)
  BY <1>3 DEF Held
<1>5. \A x \in Tasks : Ended(x)' <=> Ended(x)
  BY <1>1 DEF Ended
<1>6. UNCHANGED call
  BY <1>1
<1>7. QED BY <1>2, <1>3, <1>4, <1>5, <1>6

\* and from there to its end.
LEMMA SafeRunMoves ==
  ASSUME TypeOK, TaskPlacement, HandsInv, NEW w \in Workers, SafeRun(w)
  PROVE  /\ holds[w] \in Tasks /\ Held(holds[w]) /\ ~Queued(holds[w]) /\ ~Ended(holds[w])
         /\ \A x \in Tasks : Queued(x)' <=> Queued(x)
         /\ \A v \in Workers, x \in Tasks : HeldBy(v, x)' <=> HeldBy(v, x) /\ v # w
         /\ \A x \in Tasks : Held(x)' <=> Held(x) /\ x # holds[w]
         /\ \A x \in Tasks : Ended(x)' <=> Ended(x) \/ x = holds[w]
         /\ UNCHANGED <<taskQueue, call>>
<1>1. /\ UNCHANGED <<taskQueue, call, holds>>
      /\ worker[w] = "run" /\ worker'[w] = "ran"
      /\ \A v \in Workers \ {w} : worker'[v] = worker[v]
  BY DEF SafeRun, At, callVars, TypeOK
<1>2. \A x \in Tasks : Ended(x)' <=> Ended(x) \/ x = holds[w]
  BY DEF SafeRun, Ended, TypeOK
<1>3. \A v \in Workers, x \in Tasks : HeldBy(v, x)' <=> HeldBy(v, x) /\ v # w
  BY <1>1 DEF HeldBy
<1>4. holds[w] \in Tasks /\ HeldBy(w, holds[w])
  BY <1>1 DEF HeldBy, HandsInv, TypeOK
<1>5. \A x \in Tasks : Held(x)' <=> Held(x) /\ x # holds[w]
  <2>1. \A x \in Tasks : HeldBy(w, x) <=> x = holds[w]
    BY <1>1 DEF HeldBy
  <2>2. QED BY <1>3, <1>4, <2>1 DEF Held, TaskPlacement
<1>6. Held(holds[w]) /\ ~Queued(holds[w]) /\ ~Ended(holds[w])
  BY <1>4 DEF Held, TaskPlacement
<1>7. \A x \in Tasks : Queued(x)' <=> Queued(x)
  BY <1>1 DEF Queued
<1>8. UNCHANGED <<taskQueue, call>>
  BY <1>1
<1>9. QED BY <1>2, <1>3, <1>4, <1>5, <1>6, <1>7, <1>8

\* Every other step leaves each task where it is, and accepts nothing.
LEMMA OthersMoveNothing ==
  ASSUME TypeOK, [Next]_vars,
         \A t \in Tasks : ~Enqueue(t), \A w \in Workers : ~Receive(w) /\ ~SafeRun(w)
  PROVE  /\ UNCHANGED <<taskQueue, outcome>>
         /\ \A t \in Tasks : call'[t] = "accepted" <=> call[t] = "accepted"
         /\ \A w \in Workers, t \in Tasks : HeldBy(w, t)' <=> HeldBy(w, t)
         /\ \A t \in Tasks : Queued(t)' <=> Queued(t)
         /\ \A t \in Tasks : Held(t)' <=> Held(t)
         /\ \A t \in Tasks : Ended(t)' <=> Ended(t)
<1>1. ASSUME NEW t \in Tasks, Submitter(t)
      PROVE  /\ UNCHANGED <<taskQueue, workVars>>
             /\ \A x \in Tasks : call'[x] = "accepted" <=> call[x] = "accepted"
  BY <1>1 DEF Submitter, LoadClosed, CountSubmitted, SendPanics, QueueFull, CtxDone,
              CountRejected, TypeOK, Refusing, Verdict
<1>2. ASSUME NEW w \in Workers, WorkerStep(w)
      PROVE  /\ UNCHANGED <<taskQueue, outcome, call>>
             /\ \A v \in Workers, x \in Tasks : HeldBy(v, x)' <=> HeldBy(v, x)
  BY <1>2 DEF WorkerStep, ExitLoop, BeginProcessing, EndProcessing, CountCompleted, At, HeldBy,
              callVars, TypeOK
<1>3. ASSUME NEW c \in Closers, Closer(c)
      PROVE  UNCHANGED <<callVars, workVars>>
  BY <1>3 DEF Closer, CallShutdown, EnterOnce, SkipOnce, MarkClosed, CloseQueue, WaitWorkers
<1>4. ASSUME NEW c \in TimedClosers, TimedReturn(c)
      PROVE  UNCHANGED <<callVars, workVars>>
  BY <1>4 DEF TimedReturn
<1>5. /\ UNCHANGED <<taskQueue, outcome>>
      /\ \A t \in Tasks : call'[t] = "accepted" <=> call[t] = "accepted"
      /\ \A w \in Workers, t \in Tasks : HeldBy(w, t)' <=> HeldBy(w, t)
  BY <1>1, <1>2, <1>3, <1>4 DEF Next, Quiescent, vars, callVars, workVars, HeldBy
<1>6. QED BY <1>5 DEF Queued, Held, Ended

\* TaskPlacement follows the moves.
LEMMA PlacementStep ==
  ASSUME TypeOK, HandsInv, TaskPlacement, [Next]_vars
  PROVE  TaskPlacement'
<1>1. ASSUME NEW t \in Tasks, Enqueue(t)
      PROVE  TaskPlacement'
  <2>1. \A i, j \in 1..Len(taskQueue') : taskQueue'[i] = taskQueue'[j] => i = j
    <3>1. taskQueue \in Seq(Tasks) /\ taskQueue' = Append(taskQueue, t)
      BY <1>1 DEF Enqueue, TypeOK
    <3>2. /\ \A i, j \in 1..Len(taskQueue) : taskQueue[i] = taskQueue[j] => i = j
          /\ \A i \in 1..Len(taskQueue) : taskQueue[i] # t
      BY <1>1, EnqueueMoves DEF Queued, TaskPlacement
    <3>3. QED BY <3>1, <3>2, AppendContent
  <2>2. \A v \in Workers, x \in Tasks : HeldBy(v, x)' <=> HeldBy(v, x)
    BY <1>1 DEF Enqueue, workVars, HeldBy
  <2>3. QED BY <1>1, <2>1, <2>2, EnqueueMoves DEF TaskPlacement
<1>2. ASSUME NEW w \in Workers, Receive(w)
      PROVE  TaskPlacement'
  <2>1. \A i, j \in 1..Len(taskQueue') : taskQueue'[i] = taskQueue'[j] => i = j
    <3>1. /\ taskQueue \in Seq(Tasks) /\ taskQueue # <<>> /\ taskQueue' = Tail(taskQueue)
          /\ \A i, j \in 1..Len(taskQueue) : taskQueue[i] = taskQueue[j] => i = j
      BY <1>2 DEF Receive, TypeOK, TaskPlacement
    <3>2. QED BY <3>1, TailContent
  <2>2. ~Held(Head(taskQueue)) /\ ~Ended(Head(taskQueue))
    BY <1>2, ReceiveMoves DEF TaskPlacement
  <2>3. \A x \in Tasks : \A u, v \in Workers : HeldBy(u, x)' /\ HeldBy(v, x)' => u = v
    <3>1. \A v \in Workers : ~HeldBy(v, Head(taskQueue))
      BY <2>2 DEF Held
    <3>2. QED BY <1>2, <3>1, ReceiveMoves DEF TaskPlacement
  <2>4. QED BY <1>2, <2>1, <2>2, <2>3, ReceiveMoves DEF TaskPlacement
<1>3. ASSUME NEW w \in Workers, SafeRun(w)
      PROVE  TaskPlacement'
  BY <1>3, SafeRunMoves DEF TaskPlacement
<1>4. CASE /\ \A t \in Tasks : ~Enqueue(t)
           /\ \A w \in Workers : ~Receive(w) /\ ~SafeRun(w)
  BY <1>4, OthersMoveNothing DEF TaskPlacement
<1>5. QED BY <1>1, <1>2, <1>3, <1>4
-----------------------------------------------------------------------------
\* The inductive invariant.
LEMMA PoolInvariant == Spec => []PoolInv
<1>1. ASSUME Init PROVE PoolInv
  <2>1. HandsInv /\ ExitInv /\ OnceInv
    BY <1>1 DEF Init, HandsInv, ExitInv, OnceInv
  <2>2. TaskPlacement
    BY <1>1 DEF Init, TaskPlacement, Queued, Held, HeldBy, Ended
  <2>3. TypeOK
    BY <1>1, TypeInit
  <2>4. QED BY <2>1, <2>2, <2>3 DEF PoolInv
<1>2. PoolInv /\ [Next]_vars => PoolInv'
  BY TypeStep, HandsStep, ExitStep, OnceStep, PlacementStep DEF PoolInv
<1>3. QED BY <1>1, <1>2, PTL DEF Spec

\* No accepted task is lost, queued twice, run by two workers or run again, for
\* any number of submitters, workers and Shutdown calls.
THEOREM TasksPlaced == Spec => []TaskPlacement
<1>1. PoolInv => TaskPlacement
  BY DEF PoolInv
<1>2. QED BY <1>1, PoolInvariant, PTL

\* When a Shutdown call has returned, or ShutdownWithTimeout has answered true,
\* the workers are gone and every accepted task has ended: a returned call finds
\* the Once done, so all workers have left - there is at least one - and the
\* channel is empty; a task that was accepted can then only have ended.
THEOREM ShutdownDrains == Spec => []DrainedOnReturn
<1>1. ASSUME PoolInv PROVE DrainedOnReturn
  <2>1. ASSUME \/ \E c \in Closers : shut[c] = "returned"
               \/ \E c \in TimedClosers : timed[c] = "true"
        PROVE  /\ \A w \in Workers : worker[w] = "exited"
               /\ \A t \in Tasks : call[t] = "accepted" => Ended(t)
    <3>1. once = "done"
      BY <1>1, <2>1, PoolAssumption DEF PoolInv, OnceInv
    <3>2. \A w \in Workers : worker[w] = "exited"
      BY <1>1, <3>1 DEF PoolInv, OnceInv
    <3>3. taskQueue = <<>>
      <4>1. 1 \in Workers
        BY SizesPositive DEF Workers
      <4>2. QED BY <1>1, <3>2, <4>1 DEF PoolInv, ExitInv
    <3>4. \A t \in Tasks : ~Queued(t) /\ ~Held(t)
      BY <3>2, <3>3 DEF Queued, Held, HeldBy
    <3>5. QED BY <1>1, <3>2, <3>4 DEF PoolInv, TaskPlacement
  <2>2. QED BY <2>1 DEF DrainedOnReturn
<1>2. QED BY <1>1, PoolInvariant, PTL
-----------------------------------------------------------------------------
\* The stages of the other tasks do not change: the abstract pool moves one task.
LEMMA OneStageMoves ==
  ASSUME NEW t \in Tasks, NEW from, NEW to, StageOf(t) = from, StageOf(t)' = to,
         \A x \in Tasks : x # t => StageOf(x)' = StageOf(x)
  PROVE  Lifecycle!Move(t, from, to)
<1> DEFINE stage == [x \in Tasks |-> StageOf(x)]
<1>1. stage[t] = from
  OBVIOUS
<1>2. stage' = [x \in Tasks |-> StageOf(x)']
  OBVIOUS
<1>3. stage' = [stage EXCEPT ![t] = to]
  BY <1>2
<1>4. QED BY <1>1, <1>3 DEF Lifecycle!Move

\* Calls that have been turned down.
Refusal == Refusing \cup Refused \cup {"panicked"}

\* A step of the pool that moves no task refuses one, or changes no stage.
LEMMA RefusedOrStill ==
  ASSUME PoolInv, [Next]_vars,
         \A t \in Tasks : ~Enqueue(t), \A w \in Workers : ~Receive(w) /\ ~SafeRun(w)
  PROVE  \/ \E t \in Tasks : Lifecycle!Refuse(t)
         \/ \A x \in Tasks : StageOf(x)' = StageOf(x)
<1>1. CASE \A x \in Tasks : call'[x] \in Refusal <=> call[x] \in Refusal
  BY <1>1, OthersMoveNothing DEF StageOf, Refusal, PoolInv
<1>2. ASSUME NEW x \in Tasks, ~(call'[x] \in Refusal <=> call[x] \in Refusal)
      PROVE  Lifecycle!Refuse(x)
  <2>1. call' # call
    BY <1>2
  <2>2. PICK t \in Tasks : Submitter(t)
    <3>1. ASSUME NEW w \in Workers, WorkerStep(w) PROVE call' = call
      BY <3>1 DEF WorkerStep, Receive, ExitLoop, BeginProcessing, SafeRun, EndProcessing,
                  CountCompleted, callVars
    <3>2. ASSUME NEW c \in Closers, Closer(c) PROVE call' = call
      BY <3>2 DEF Closer, CallShutdown, EnterOnce, SkipOnce, MarkClosed, CloseQueue,
                  WaitWorkers, callVars
    <3>3. ASSUME NEW c \in TimedClosers, TimedReturn(c) PROVE call' = call
      BY <3>3 DEF TimedReturn, callVars
    <3>4. QED BY <2>1, <3>1, <3>2, <3>3 DEF Next, Quiescent, vars, callVars
  <2>3. /\ call[t] \in {"new", "select"} /\ call'[t] \in Refusal /\ t = x
        /\ \A y \in Tasks : y # t => call'[y] = call[y]
        /\ UNCHANGED once
    BY <1>2, <2>2 DEF Submitter, LoadClosed, CountSubmitted, SendPanics, QueueFull, CtxDone,
                      CountRejected, PoolInv, TypeOK, Refusal, Refusing, Refused, Verdict, shutVars
  <2>4. ~Queued(x) /\ ~Held(x) /\ ~Ended(x)
    BY <2>3 DEF PoolInv, TaskPlacement, Queued, Held, HeldBy, Ended
  <2>5. StageOf(x) = "new" /\ StageOf(x)' = "refused"
    BY <2>3, <2>4, OthersMoveNothing DEF StageOf, PoolInv, Refusal, Refusing, Refused
  <2>6. \A y \in Tasks : y # x => StageOf(y)' = StageOf(y)
    BY <2>3, OthersMoveNothing DEF StageOf, PoolInv
  <2>7. QED BY <2>3, <2>5, <2>6, OneStageMoves DEF Lifecycle!Refuse
<1>3. QED BY <1>1, <1>2

\* Every step of the pool is a step of TaskLifecycle or leaves it where it is.
LEMMA LifecycleStep ==
  ASSUME PoolInv, [Next]_vars
  PROVE  [Lifecycle!Next]_(Lifecycle!vars)
<1>1. ASSUME NEW t \in Tasks, Enqueue(t)
      PROVE  Lifecycle!Take(t)
  <2>1. once # "done" /\ once' = once
    BY <1>1 DEF Enqueue, PoolInv, OnceInv, shutVars
  <2>2. StageOf(t) = "new" /\ StageOf(t)' = "queued"
    BY <1>1, EnqueueMoves DEF StageOf, PoolInv, Enqueue, Refusing, Refused
  <2>3. \A x \in Tasks : x # t => StageOf(x)' = StageOf(x)
    BY <1>1, EnqueueMoves DEF StageOf, PoolInv
  <2>4. QED BY <2>1, <2>2, <2>3, OneStageMoves DEF Lifecycle!Take
<1>2. ASSUME NEW w \in Workers, Receive(w)
      PROVE  Lifecycle!Start(Head(taskQueue))
  <2>1. StageOf(Head(taskQueue)) = "queued"
    BY <1>2, ReceiveMoves DEF StageOf, PoolInv, TaskPlacement
  <2>2. PICK t \in Tasks : t = Head(taskQueue)
    BY <1>2, ReceiveMoves DEF PoolInv
  <2>3. StageOf(t)' = "running"
    BY <1>2, <2>1, <2>2, ReceiveMoves DEF StageOf, PoolInv
  <2>4. \A x \in Tasks : x # t => StageOf(x)' = StageOf(x)
    BY <1>2, <2>2, ReceiveMoves DEF StageOf, PoolInv
  <2>5. Lifecycle!Start(t)
    BY <1>2, <2>1, <2>2, <2>3, <2>4, OneStageMoves DEF Lifecycle!Start, Receive, shutVars
  <2>6. QED BY <2>2, <2>5
<1>3. ASSUME NEW w \in Workers, SafeRun(w)
      PROVE  Lifecycle!Finish(holds[w])
  <2>1. PICK t \in Tasks : t = holds[w]
    BY <1>3, SafeRunMoves DEF PoolInv
  <2>2. StageOf(t) = "running" /\ StageOf(t)' = "done"
    BY <1>3, <2>1, SafeRunMoves DEF StageOf, PoolInv
  <2>3. \A x \in Tasks : x # t => StageOf(x)' = StageOf(x)
    BY <1>3, <2>1, SafeRunMoves DEF StageOf, PoolInv
  <2>4. Lifecycle!Finish(t)
    BY <1>3, <2>2, <2>3, OneStageMoves DEF Lifecycle!Finish, SafeRun, shutVars
  <2>5. QED BY <2>1, <2>4
<1>4. ASSUME \A t \in Tasks : ~Enqueue(t),
             \A w \in Workers : ~Receive(w) /\ ~SafeRun(w),
             ~ \E t \in Tasks : Lifecycle!Refuse(t)
      PROVE  Lifecycle!Stop \/ UNCHANGED Lifecycle!vars
  <2>1. \A x \in Tasks : StageOf(x)' = StageOf(x)
    BY <1>4, RefusedOrStill
  <2>2. UNCHANGED [x \in Tasks |-> StageOf(x)]
    BY <2>1
  <2>3. ASSUME NEW c \in Closers, WaitWorkers(c)
        PROVE  Lifecycle!Stop
    <3>1. 1 \in Workers /\ \A w \in Workers : worker[w] = "exited"
      BY <2>3, SizesPositive DEF WaitWorkers, Workers
    <3>2. taskQueue = <<>>
      BY <3>1 DEF PoolInv, ExitInv
    <3>3. \A x \in Tasks : ~Queued(x) /\ ~Held(x)
      BY <3>1, <3>2 DEF Queued, Held, HeldBy
    <3>4. \A x \in Tasks : StageOf(x) \notin {"queued", "running"}
      BY <3>3 DEF StageOf
    <3>5. once' = "done"
      BY <2>3 DEF WaitWorkers
    <3>6. QED BY <2>2, <3>4, <3>5 DEF Lifecycle!Stop
  <2>4. CASE \A c \in Closers : ~WaitWorkers(c)
    <3>1. once' = "done" <=> once = "done"
      BY <2>4 DEF Next, Submitter, LoadClosed, CountSubmitted, Enqueue, SendPanics, QueueFull,
                  CtxDone, CountRejected, WorkerStep, Receive, ExitLoop, BeginProcessing, SafeRun,
                  EndProcessing, CountCompleted, Closer, CallShutdown, EnterOnce, SkipOnce,
                  MarkClosed, CloseQueue, TimedReturn, Quiescent, vars, shutVars
    <3>2. QED BY <2>2, <3>1 DEF Lifecycle!vars
  <2>5. QED BY <2>3, <2>4
<1>5. QED BY <1>1, <1>2, <1>3, <1>4, ReceiveMoves, SafeRunMoves DEF Lifecycle!Next, PoolInv

\* The pool is a correct task pool: seen through StageOf, what its goroutines do is
\* what TaskLifecycle allows - a call is answered by taking or refusing its task
\* once, a taken task is started once and finished once, and after Shutdown has
\* returned nothing is in the pool and nothing is taken.
THEOREM PoolImplementsLifecycle == Spec => Lifecycle!Spec
<1>1. ASSUME Init PROVE Lifecycle!Init
  BY <1>1 DEF Init, Lifecycle!Init, StageOf, Queued, Held, HeldBy, Ended, Refusing, Refused
<1>2. PoolInv /\ [Next]_vars => [Lifecycle!Next]_(Lifecycle!vars)
  BY LifecycleStep
<1>3. QED BY <1>1, <1>2, PoolInvariant, PTL DEF Spec, Lifecycle!Spec
-----------------------------------------------------------------------------
(* The counters                                                              *)

\* How many of S have a value of f in P.
Among(S, f, P) == Cardinality({x \in S : f[x] \in P})

LEMMA AmongType ==
  ASSUME NEW S, IsFiniteSet(S), NEW f, NEW P
  PROVE  IsFiniteSet({x \in S : f[x] \in P}) /\ Among(S, f, P) \in Nat
<1>1. IsFiniteSet({x \in S : f[x] \in P})
  BY FS_Subset
<1>2. QED BY <1>1, FS_CardinalityType DEF Among

\* When the value of one element changes, the number changes by that element.
LEMMA AmongMoves ==
  ASSUME NEW S, IsFiniteSet(S), NEW f, NEW g, NEW P, NEW x \in S,
         \A y \in S \ {x} : g[y] = f[y]
  PROVE  /\ Among(S, f, P) \in Nat /\ Among(S, g, P) \in Nat
         /\ f[x] \in P /\ g[x] \notin P => Among(S, f, P) = Among(S, g, P) + 1
         /\ f[x] \notin P /\ g[x] \in P => Among(S, g, P) = Among(S, f, P) + 1
         /\ (f[x] \in P <=> g[x] \in P) => Among(S, g, P) = Among(S, f, P)
<1> DEFINE F == {y \in S : f[y] \in P}
           G == {y \in S : g[y] \in P}
<1>a. IsFiniteSet(F) /\ IsFiniteSet(G)
  BY FS_Subset
<1>b. Among(S, f, P) \in Nat
  BY AmongType
<1>c. Among(S, g, P) \in Nat
  BY AmongType
<1>1. IsFiniteSet(F) /\ IsFiniteSet(G) /\ Among(S, f, P) \in Nat /\ Among(S, g, P) \in Nat
  BY <1>a, <1>b, <1>c
<1>2. CASE f[x] \in P /\ g[x] \notin P
  <2>1. F = G \cup {x} /\ x \notin G
    BY <1>2
  <2> HIDE DEF F, G
  <2>2. Cardinality(F) = Cardinality(G) + 1
    BY <1>1, <2>1, FS_AddElement
  <2>3. QED BY <1>1, <1>2, <2>2 DEF Among, F, G
<1>3. CASE f[x] \notin P /\ g[x] \in P
  <2>1. G = F \cup {x} /\ x \notin F
    BY <1>3
  <2> HIDE DEF F, G
  <2>2. Cardinality(G) = Cardinality(F) + 1
    BY <1>1, <2>1, FS_AddElement
  <2>3. QED BY <1>1, <1>3, <2>2 DEF Among, F, G
<1>4. CASE f[x] \in P <=> g[x] \in P
  <2>1. F = G
    BY <1>4
  <2> HIDE DEF F, G
  <2>2. QED BY <1>1, <1>4, <2>1 DEF Among, F, G
<1>5. QED BY <1>2, <1>3, <1>4

\* Calls that were counted as submitted and are in no queue, and phases of a worker.
Underway == {"select", "refuseFull", "refuseCtx", "panicked"}
Running  == {"run", "ran"}

\* What came in, and where it went.
Incoming == metrics["submitted"] + Among(Tasks, call, {"ErrPoolClosed"})
Outgoing == metrics["completed"] + Among(Workers, holds, Tasks) + Len(taskQueue)
            + metrics["rejected"] + Among(Tasks, call, Underway)

Balanced ==
  /\ Incoming = Outgoing
  /\ metrics["processing"] = Among(Workers, worker, Running)

\* The numbers the balance is made of.
LEMMA BalanceTypes ==
  ASSUME TypeOK
  PROVE  /\ IsFiniteSet(Tasks) /\ IsFiniteSet(Workers) /\ Len(taskQueue) \in Nat
         /\ \A P : Among(Tasks, call, P) \in Nat
         /\ \A P : Among(Workers, holds, P) \in Nat /\ Among(Workers, worker, P) \in Nat
         /\ \A m \in Counters : metrics[m] \in Int
<1>1. IsFiniteSet(Tasks) /\ IsFiniteSet(Workers)
  BY PoolAssumption, SizesPositive, FS_Interval DEF Workers
<1>2. ASSUME NEW P PROVE Among(Tasks, call, P) \in Nat
  BY <1>1, AmongType
<1>3. ASSUME NEW P PROVE Among(Workers, holds, P) \in Nat
  BY <1>1, AmongType
<1>4. ASSUME NEW P PROVE Among(Workers, worker, P) \in Nat
  BY <1>1, AmongType
<1>5. Len(taskQueue) \in Nat /\ \A m \in Counters : metrics[m] \in Int
  BY DEF TypeOK
<1>6. QED BY <1>1, <1>2, <1>3, <1>4, <1>5

LEMMA BalanceInit == Init => Balanced
<1> SUFFICES ASSUME Init PROVE Balanced
  OBVIOUS
<1>1. /\ {t \in Tasks : call[t] \in {"ErrPoolClosed"}} = {}
      /\ {t \in Tasks : call[t] \in Underway} = {}
      /\ {w \in Workers : holds[w] \in Tasks} = {}
      /\ {w \in Workers : worker[w] \in Running} = {}
  BY PoolAssumption DEF Init, Underway, Running
<1>2. /\ Among(Tasks, call, {"ErrPoolClosed"}) = 0 /\ Among(Tasks, call, Underway) = 0
      /\ Among(Workers, holds, Tasks) = 0 /\ Among(Workers, worker, Running) = 0
  BY <1>1, FS_EmptySet DEF Among
<1>3. Len(taskQueue) = 0 /\ \A m \in Counters : metrics[m] = 0
  BY DEF Init
<1>4. QED BY <1>2, <1>3 DEF Balanced, Incoming, Outgoing, Counters

LEMMA BumpCounts ==
  ASSUME TypeOK, NEW m \in Counters, NEW d \in Int, Bump(m, d)
  PROVE  /\ metrics'[m] = metrics[m] + d
         /\ \A k \in Counters \ {m} : metrics'[k] = metrics[k]
BY DEF TypeOK, Bump

\* One more, one less, or the same number has a value in P after one element has moved.
Shifts(S, f, g, x, P, n, m) ==
  /\ Among(S, g, P) = m
  /\ f[x] \in P /\ g[x] \notin P => n = m + 1
  /\ f[x] \notin P /\ g[x] \in P => m = n + 1
  /\ (f[x] \in P <=> g[x] \in P) => m = n

LEMMA AmongShifts ==
  ASSUME NEW S, IsFiniteSet(S), NEW f, NEW g, NEW P, NEW x \in S,
         \A y \in S \ {x} : g[y] = f[y]
  PROVE  \E m \in Nat : Shifts(S, f, g, x, P, Among(S, f, P), m)
<1>1. Among(S, g, P) \in Nat
  BY AmongType
<1>2. Shifts(S, f, g, x, P, Among(S, f, P), Among(S, g, P))
  <2>1. f[x] \in P /\ g[x] \notin P => Among(S, f, P) = Among(S, g, P) + 1
    BY AmongMoves
  <2>2. f[x] \notin P /\ g[x] \in P => Among(S, g, P) = Among(S, f, P) + 1
    BY AmongMoves
  <2>3. ASSUME f[x] \in P <=> g[x] \in P PROVE Among(S, g, P) = Among(S, f, P)
    <3>1. {y \in S : g[y] \in P} = {y \in S : f[y] \in P}
      BY <2>3
    <3>2. QED BY <3>1 DEF Among
  <2>4. QED BY <2>1, <2>2, <2>3 DEF Shifts
<1>3. QED BY <1>1, <1>2

\* The balance is kept: what a step takes out of one term it puts into another.
LEMMA BalanceStep ==
  ASSUME TypeOK, HandsInv, Balanced, [Next]_vars
  PROVE  Balanced'
<1>0. PICK nc \in Nat, nu \in Nat, nb \in Nat, nr \in Nat, nq \in Nat,
           sub \in Int, com \in Int, rej \in Int, pro \in Int :
        /\ Among(Tasks, call, {"ErrPoolClosed"}) = nc /\ Among(Tasks, call, Underway) = nu
        /\ Among(Workers, holds, Tasks) = nb /\ Among(Workers, worker, Running) = nr
        /\ Len(taskQueue) = nq
        /\ metrics["submitted"] = sub /\ metrics["completed"] = com
        /\ metrics["rejected"] = rej /\ metrics["processing"] = pro
  BY BalanceTypes DEF Counters
<1>a. sub + nc = com + nb + nq + rej + nu /\ pro = nr
  BY <1>0 DEF Balanced, Incoming, Outgoing
<1>b. ASSUME UNCHANGED <<call, taskQueue, holds, worker, metrics>> PROVE Balanced'
  BY <1>b DEF Balanced, Incoming, Outgoing
<1>c. IsFiniteSet(Tasks) /\ IsFiniteSet(Workers)
  BY BalanceTypes
<1>1. ASSUME NEW t \in Tasks, Submitter(t) PROVE Balanced'
  <2>1. /\ UNCHANGED <<holds, worker>> /\ call \in [Tasks -> CallPc]
    BY <1>1 DEF Submitter, LoadClosed, CountSubmitted, Enqueue, SendPanics, QueueFull, CtxDone,
                CountRejected, TypeOK, workVars
  <2>2. \A x \in Tasks \ {t} : call'[x] = call[x]
    BY <1>1 DEF Submitter, LoadClosed, CountSubmitted, Enqueue, SendPanics, QueueFull, CtxDone,
                CountRejected, TypeOK, workVars
  <2>3. PICK nc2 \in Nat : Shifts(Tasks, call, call', t, {"ErrPoolClosed"}, nc, nc2)
    BY <1>0, <1>c, <2>2, AmongShifts
  <2>4. PICK nu2 \in Nat : Shifts(Tasks, call, call', t, Underway, nu, nu2)
    BY <1>0, <1>c, <2>2, AmongShifts
  <2>a. /\ Among(Tasks, call, {"ErrPoolClosed"})' = nc2 /\ Among(Tasks, call, Underway)' = nu2
        /\ Among(Workers, holds, Tasks)' = nb /\ Among(Workers, worker, Running)' = nr
    BY <1>0, <2>1, <2>3, <2>4 DEF Shifts, Underway
  <2>b. ASSUME NEW sub2 \in Int, NEW rej2 \in Int, NEW nq2 \in Nat,
               metrics'["submitted"] = sub2, metrics'["rejected"] = rej2,
               metrics'["completed"] = com, metrics'["processing"] = pro, Len(taskQueue') = nq2,
               sub2 + nc2 = com + nb + nq2 + rej2 + nu2
        PROVE  Balanced'
    BY <1>a, <2>a, <2>b DEF Balanced, Incoming, Outgoing
  <2>5. CASE LoadClosed(t)
    <3>1. call[t] = "new" /\ call'[t] \in {"refuseClosed", "count"} /\ UNCHANGED <<taskQueue, metrics>>
      BY <2>1, <2>5 DEF LoadClosed
    <3>2. nc2 = nc /\ nu2 = nu
      BY <2>3, <2>4, <3>1 DEF Underway, Shifts
    <3>3. QED BY <1>0, <1>a, <2>b, <3>1, <3>2
  <2>6. CASE CountSubmitted(t)
    <3>1. call[t] = "count" /\ call'[t] = "select" /\ UNCHANGED taskQueue
      BY <2>1, <2>6 DEF CountSubmitted
    <3>2. nc2 = nc /\ nu2 = nu + 1
      BY <2>3, <2>4, <3>1 DEF Underway, Shifts
    <3>3. /\ metrics'["submitted"] = sub + 1 /\ metrics'["completed"] = com
          /\ metrics'["rejected"] = rej /\ metrics'["processing"] = pro
      <4>1. Bump("submitted", 1) /\ "submitted" \in Counters /\ 1 \in Int
        BY <2>6 DEF CountSubmitted, Counters
      <4>2. metrics'["submitted"] = metrics["submitted"] + 1
        BY <4>1, BumpCounts
      <4>3. \A k \in Counters \ {"submitted"} : metrics'[k] = metrics[k]
        BY <4>1, BumpCounts
      <4>4. QED BY <1>0, <4>2, <4>3 DEF Counters
    <3>4. (sub + 1) + nc2 = com + nb + nq + rej + nu2
      BY <1>a, <3>2
    <3>5. sub + 1 \in Int /\ Len(taskQueue') = nq
      BY <1>0, <3>1
    <3>6. QED BY <2>b, <3>3, <3>4, <3>5
  <2>7. CASE Enqueue(t)
    <3>1. call[t] = "select" /\ call'[t] = "accepted" /\ UNCHANGED metrics
      BY <2>1, <2>7 DEF Enqueue
    <3>2. nc2 = nc /\ nu = nu2 + 1
      BY <2>3, <2>4, <3>1 DEF Underway, Shifts
    <3>3. Len(taskQueue') = nq + 1
      BY <1>0, <2>7 DEF Enqueue, TypeOK
    <3>4. sub + nc2 = com + nb + (nq + 1) + rej + nu2
      BY <1>a, <3>2
    <3>5. /\ metrics'["submitted"] = sub /\ metrics'["completed"] = com
          /\ metrics'["rejected"] = rej /\ metrics'["processing"] = pro
          /\ nq + 1 \in Nat
      BY <1>0, <3>1
    <3>6. QED BY <2>b, <3>3, <3>4, <3>5
  <2>8. CASE SendPanics(t) \/ QueueFull(t) \/ CtxDone(t)
    <3>1. call[t] = "select" /\ call'[t] \in {"panicked", "refuseFull", "refuseCtx"} /\ UNCHANGED <<taskQueue, metrics>>
      BY <2>1, <2>8 DEF SendPanics, QueueFull, CtxDone
    <3>2. nc2 = nc /\ nu2 = nu
      BY <2>3, <2>4, <3>1 DEF Underway, Shifts
    <3>3. QED BY <1>0, <1>a, <2>b, <3>1, <3>2
  <2>9. CASE CountRejected(t)
    <3>1. UNCHANGED taskQueue
      BY <2>9 DEF CountRejected
    <3>2. \/ call[t] = "refuseClosed" /\ call'[t] = "ErrPoolClosed"
          \/ call[t] = "refuseFull" /\ call'[t] = "ErrPoolFull"
          \/ call[t] = "refuseCtx" /\ call'[t] = "ctxErr"
      BY <2>1, <2>9 DEF CountRejected, Refusing, Verdict
    <3>3. (nc2 = nc + 1 /\ nu2 = nu) \/ (nc2 = nc /\ nu = nu2 + 1)
      BY <2>3, <2>4, <3>2 DEF Underway, Shifts
    <3>4. /\ metrics'["rejected"] = rej + 1 /\ metrics'["completed"] = com
          /\ metrics'["submitted"] = sub /\ metrics'["processing"] = pro
      <4>1. Bump("rejected", 1) /\ "rejected" \in Counters /\ 1 \in Int
        BY <2>9 DEF CountRejected, Counters
      <4>2. metrics'["rejected"] = metrics["rejected"] + 1
        BY <4>1, BumpCounts
      <4>3. \A k \in Counters \ {"rejected"} : metrics'[k] = metrics[k]
        BY <4>1, BumpCounts
      <4>4. QED BY <1>0, <4>2, <4>3 DEF Counters
    <3>5. sub + nc2 = com + nb + nq + (rej + 1) + nu2
      BY <1>a, <3>3
    <3>6. QED BY <1>0, <2>b, <3>1, <3>4, <3>5
  <2>10. QED BY <1>1, <2>5, <2>6, <2>7, <2>8, <2>9 DEF Submitter
<1>2. ASSUME NEW w \in Workers, WorkerStep(w) PROVE Balanced'
  <2>1. UNCHANGED call /\ (holds[w] \in Tasks <=> holds[w] # NoTask)
    BY <1>2, PoolAssumption DEF WorkerStep, Receive, ExitLoop, BeginProcessing, SafeRun, EndProcessing,
                CountCompleted, At, TypeOK, callVars
  <2>2. \A v \in Workers \ {w} : holds'[v] = holds[v] /\ worker'[v] = worker[v]
    BY <1>2 DEF WorkerStep, Receive, ExitLoop, BeginProcessing, SafeRun, EndProcessing,
                CountCompleted, At, TypeOK, callVars
  <2>3. PICK nb2 \in Nat : Shifts(Workers, holds, holds', w, Tasks, nb, nb2)
    BY <1>0, <1>c, <2>2, AmongShifts
  <2>4. PICK nr2 \in Nat : Shifts(Workers, worker, worker', w, Running, nr, nr2)
    BY <1>0, <1>c, <2>2, AmongShifts
  <2>a. /\ Among(Tasks, call, {"ErrPoolClosed"})' = nc /\ Among(Tasks, call, Underway)' = nu
        /\ Among(Workers, holds, Tasks)' = nb2 /\ Among(Workers, worker, Running)' = nr2
    BY <1>0, <2>1, <2>3, <2>4 DEF Shifts, Running
  <2>b. ASSUME NEW com2 \in Int, NEW nq2 \in Nat,
               metrics'["submitted"] = sub, metrics'["rejected"] = rej,
               metrics'["completed"] = com2, metrics'["processing"] = nr2, Len(taskQueue') = nq2,
               sub + nc = com2 + nb2 + nq2 + rej + nu
        PROVE  Balanced'
    BY <2>a, <2>b DEF Balanced, Incoming, Outgoing
  <2>5. worker \in [Workers -> WorkerPc] /\ holds \in [Workers -> Tasks \cup {NoTask}]
    BY DEF TypeOK
  <2>6. CASE Receive(w)
    <3>1. /\ worker[w] = "recv" /\ worker'[w] = "got" /\ holds'[w] = Head(taskQueue) /\ UNCHANGED metrics
          /\ taskQueue # <<>> /\ taskQueue' = Tail(taskQueue) /\ taskQueue \in Seq(Tasks)
      BY <2>5, <2>6 DEF Receive, At, TypeOK
    <3>2. holds'[w] \in Tasks /\ Len(taskQueue') = nq - 1 /\ nq - 1 \in Nat
      BY <1>0, <3>1
    <3>3. holds[w] \notin Tasks
      BY <2>1, <3>1 DEF HandsInv
    <3>4. nb2 = nb + 1 /\ nr2 = nr
      BY <2>3, <2>4, <3>1, <3>2, <3>3 DEF Running, Shifts
    <3>5. sub + nc = com + nb2 + (nq - 1) + rej + nu
      BY <1>a, <3>4
    <3>6. QED BY <1>0, <1>a, <2>b, <3>1, <3>2, <3>4, <3>5
  <2>7. CASE ExitLoop(w) \/ SafeRun(w)
    <3>1. /\ UNCHANGED <<holds, metrics, taskQueue>>
          /\ worker[w] \in Running <=> worker'[w] \in Running
      BY <2>5, <2>7 DEF ExitLoop, SafeRun, At, callVars, Running
    <3>2. nb2 = nb /\ nr2 = nr
      BY <2>3, <2>4, <3>1 DEF Shifts
    <3>3. QED BY <1>0, <1>a, <2>b, <3>1, <3>2
  <2>8. CASE BeginProcessing(w)
    <3>1. UNCHANGED <<holds, taskQueue>> /\ worker[w] = "got" /\ worker'[w] = "run"
      BY <2>5, <2>8 DEF BeginProcessing, At, callVars
    <3>2. nb2 = nb /\ nr2 = nr + 1
      BY <2>3, <2>4, <3>1 DEF Running, Shifts
    <3>3. /\ metrics'["processing"] = pro + 1 /\ metrics'["completed"] = com
          /\ metrics'["rejected"] = rej /\ metrics'["submitted"] = sub
      BY <1>0, <2>8, BumpCounts DEF BeginProcessing, Counters
    <3>4. QED BY <1>0, <1>a, <2>b, <3>1, <3>2, <3>3
  <2>9. CASE EndProcessing(w)
    <3>1. UNCHANGED <<holds, taskQueue>> /\ worker[w] = "ran" /\ worker'[w] = "uncounted"
      BY <2>5, <2>9 DEF EndProcessing, At, callVars
    <3>2. nb2 = nb /\ nr = nr2 + 1
      BY <2>3, <2>4, <3>1 DEF Running, Shifts
    <3>3. /\ metrics'["processing"] = pro + (-1) /\ metrics'["completed"] = com
          /\ metrics'["rejected"] = rej /\ metrics'["submitted"] = sub
      BY <1>0, <2>9, BumpCounts DEF EndProcessing, Counters
    <3>4. metrics'["processing"] = nr2
      BY <1>a, <3>2, <3>3
    <3>5. QED BY <1>0, <1>a, <2>b, <3>1, <3>2, <3>3, <3>4
  <2>10. CASE CountCompleted(w)
    <3>1. /\ UNCHANGED taskQueue /\ worker[w] = "uncounted" /\ worker'[w] = "recv" /\ holds'[w] = NoTask
      BY <2>5, <2>10 DEF CountCompleted, At, callVars
    <3>2. holds[w] \in Tasks /\ NoTask \notin Tasks
      BY <2>1, <3>1, PoolAssumption DEF HandsInv
    <3>3. nb = nb2 + 1 /\ nr2 = nr
      BY <2>3, <2>4, <3>1, <3>2 DEF Running, Shifts
    <3>4. /\ metrics'["completed"] = com + 1 /\ metrics'["processing"] = pro
          /\ metrics'["rejected"] = rej /\ metrics'["submitted"] = sub
      BY <1>0, <2>10, BumpCounts DEF CountCompleted, Counters
    <3>5. sub + nc = (com + 1) + nb2 + nq + rej + nu
      BY <1>a, <3>3
    <3>6. QED BY <1>0, <1>a, <2>b, <3>1, <3>3, <3>4, <3>5
  <2>11. QED BY <1>2, <2>6, <2>7, <2>8, <2>9, <2>10 DEF WorkerStep
<1>3. ASSUME NEW c \in Closers, Closer(c) PROVE Balanced'
  BY <1>b, <1>3 DEF Closer, CallShutdown, EnterOnce, SkipOnce, MarkClosed, CloseQueue, WaitWorkers,
                    callVars, workVars
<1>4. ASSUME NEW c \in TimedClosers, TimedReturn(c) PROVE Balanced'
  BY <1>b, <1>4 DEF TimedReturn, callVars, workVars
<1>5. CASE UNCHANGED vars
  BY <1>b, <1>5 DEF vars, callVars, workVars
<1>6. QED BY <1>1, <1>2, <1>3, <1>4, <1>5 DEF Next, Quiescent

\* In every state the four counters account for every call and every worker: no
\* panic, refusal or shutdown makes a counter drift.
THEOREM CountersBalance == Spec => []CounterBalance
<1>1. PoolInv => TypeOK /\ HandsInv
  BY DEF PoolInv
<1>2. TypeOK /\ HandsInv /\ Balanced /\ [Next]_vars => Balanced'
  BY BalanceStep
<1>3. Spec => []Balanced
  BY <1>1, <1>2, BalanceInit, PoolInvariant, PTL DEF Spec
<1>4. TypeOK /\ Balanced => CounterBalance
  <2> SUFFICES ASSUME TypeOK, Balanced PROVE CounterBalance
    OBVIOUS
  <2>1. {w \in Workers : holds[w] # NoTask} = {w \in Workers : holds[w] \in Tasks}
    BY PoolAssumption DEF TypeOK
  <2>2. Cardinality({w \in Workers : holds[w] # NoTask}) = Among(Workers, holds, Tasks)
    BY <2>1 DEF Among
  <2>3. QED BY <2>2 DEF CounterBalance, Balanced, Incoming, Outgoing, Among, Underway, Running
<1>5. QED BY <1>1, <1>3, <1>4, PoolInvariant, PTL
=============================================================================

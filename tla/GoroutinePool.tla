---------------------------- MODULE GoroutinePool ----------------------------
(***************************************************************************)
(* The fixed-size goroutine pool of internal/service/pool: submitters,     *)
(* workers and Shutdown callers interleave at the granularity of one       *)
(* atomic operation or one channel operation of the Go code.  A task is    *)
(* submitted by one call, so the call and its task share a name; the calls *)
(* of CtxTasks go through SubmitWithContext, the others through Submit.    *)
(* A send on the closed channel panics; the panic is the outcome of the    *)
(* call ("panicked"), and whether it ends the process is the caller's      *)
(* affair.  The counters are int64 in the code and never wrap here.        *)
(***************************************************************************)
EXTENDS Integers, Sequences, FiniteSets

CONSTANTS
  Size, QueueSize,   \* the two arguments of NewPool
  Tasks,             \* every task ever submitted
  CtxTasks,          \* those submitted with SubmitWithContext
  Closers,           \* goroutines that call Shutdown
  TimedClosers,      \* those that do it through ShutdownWithTimeout
  NoTask             \* "no task in hand"

ASSUME PoolAssumption ==
  /\ Size \in Int
  /\ QueueSize \in Int
  /\ IsFiniteSet(Tasks)
  /\ CtxTasks \subseteq Tasks
  /\ TimedClosers \subseteq Closers
  /\ NoTask \notin Tasks

\* NewPool repairs non-positive arguments.
PoolSize == IF Size <= 0 THEN 1 ELSE Size
QueueCap == IF QueueSize <= 0 THEN PoolSize * 10 ELSE QueueSize
Workers  == 1..PoolSize

VARIABLES
  closed,      \* the atomic flag
  chanClosed,  \* close(taskQueue) has happened
  taskQueue,   \* the buffered channel
  call,        \* where each Submit call stands, or how it ended
  worker,      \* where each worker stands in its loop
  holds,       \* the task a worker has taken from the channel
  outcome,     \* how a task ended: it returned, or its panic was recovered
  shut,        \* where each Shutdown call stands
  once,        \* the sync.Once
  timed,       \* what ShutdownWithTimeout's caller sees
  metrics      \* the four atomic counters

callVars == <<taskQueue, call>>
workVars == <<worker, holds, outcome>>
shutVars == <<closed, chanClosed, shut, once, timed>>
vars     == <<callVars, workVars, shutVars, metrics>>

\* Pending refusals: the call has decided, the rejected counter has not moved yet.
Refusing == {"refuseClosed", "refuseFull", "refuseCtx"}
Refused  == {"ErrPoolClosed", "ErrPoolFull", "ctxErr"}
CallPc   == {"new", "count", "select", "accepted", "panicked"} \cup Refusing \cup Refused
Verdict  == [refuseClosed |-> "ErrPoolClosed", refuseFull |-> "ErrPoolFull",
             refuseCtx |-> "ctxErr"]
WorkerPc == {"recv", "got", "run", "ran", "uncounted", "exited"}
ShutPc   == {"idle", "once", "mark", "close", "wait", "returned"}
Counters == {"submitted", "processing", "completed", "rejected"}

Init ==
  /\ closed = FALSE
  /\ chanClosed = FALSE
  /\ taskQueue = <<>>
  /\ call = [t \in Tasks |-> "new"]
  /\ worker = [w \in Workers |-> "recv"]
  /\ holds = [w \in Workers |-> NoTask]
  /\ outcome = [t \in Tasks |-> "none"]
  /\ shut = [c \in Closers |-> "idle"]
  /\ once = "free"
  /\ timed = [c \in TimedClosers |-> "idle"]
  /\ metrics = [m \in Counters |-> 0]

Bump(m, d) == metrics' = [metrics EXCEPT ![m] = @ + d]
-----------------------------------------------------------------------------
(* Submit and SubmitWithContext                                              *)

\* The closed flag is read once, before anything else.
LoadClosed(t) ==
  /\ call[t] = "new"
  /\ call' = [call EXCEPT ![t] = IF closed THEN "refuseClosed" ELSE "count"]
  /\ UNCHANGED <<taskQueue, workVars, shutVars, metrics>>

CountSubmitted(t) ==
  /\ call[t] = "count"
  /\ call' = [call EXCEPT ![t] = "select"]
  /\ Bump("submitted", 1)
  /\ UNCHANGED <<taskQueue, workVars, shutVars>>

\* Mutant: the bound of the buffer is not respected.
EnqueueUnbounded(t) ==
  /\ call[t] = "select"
  /\ ~chanClosed
  /\ taskQueue' = Append(taskQueue, t)
  /\ call' = [call EXCEPT ![t] = "accepted"]
  /\ UNCHANGED <<workVars, shutVars, metrics>>

\* The select's send case: there is room in the buffer.
Enqueue(t) ==
  /\ call[t] = "select"
  /\ ~chanClosed
  /\ Len(taskQueue) < QueueCap
  /\ taskQueue' = Append(taskQueue, t)
  /\ call' = [call EXCEPT ![t] = "accepted"]
  /\ UNCHANGED <<workVars, shutVars, metrics>>

\* The channel was closed after the flag had been read: the send panics.
SendPanics(t) ==
  /\ call[t] = "select"
  /\ chanClosed
  /\ call' = [call EXCEPT ![t] = "panicked"]
  /\ UNCHANGED <<taskQueue, workVars, shutVars, metrics>>

\* Submit's default branch: the buffer is full.
QueueFull(t) ==
  /\ t \notin CtxTasks
  /\ call[t] = "select"
  /\ ~chanClosed
  /\ Len(taskQueue) >= QueueCap
  /\ call' = [call EXCEPT ![t] = "refuseFull"]
  /\ UNCHANGED <<taskQueue, workVars, shutVars, metrics>>

\* Mutant: the context is looked at only after the task has been sent.
CtxDoneAfterSend(t) ==
  /\ t \in CtxTasks
  /\ call[t] = "select"
  /\ ~chanClosed /\ Len(taskQueue) < QueueCap
  /\ taskQueue' = Append(taskQueue, t)
  /\ call' = [call EXCEPT ![t] = "refuseCtx"]
  /\ UNCHANGED <<workVars, shutVars, metrics>>

\* SubmitWithContext's other branch: the caller's context may end at any time.
CtxDone(t) ==
  /\ t \in CtxTasks
  /\ call[t] = "select"
  /\ call' = [call EXCEPT ![t] = "refuseCtx"]
  /\ UNCHANGED <<taskQueue, workVars, shutVars, metrics>>

CountRejected(t) ==
  /\ call[t] \in Refusing
  /\ call' = [call EXCEPT ![t] = Verdict[@]]
  /\ Bump("rejected", 1)
  /\ UNCHANGED <<taskQueue, workVars, shutVars>>

Submitter(t) ==
  \/ LoadClosed(t) \/ CountSubmitted(t) \/ Enqueue(t) \/ SendPanics(t)
  \/ QueueFull(t) \/ CtxDone(t) \/ CountRejected(t)
-----------------------------------------------------------------------------
(* The worker loop: for task := range taskQueue { ... }                      *)

At(w, from, to) == worker[w] = from /\ worker' = [worker EXCEPT ![w] = to]

Receive(w) ==
  /\ At(w, "recv", "got")
  /\ taskQueue # <<>>
  /\ holds' = [holds EXCEPT ![w] = Head(taskQueue)]
  /\ taskQueue' = Tail(taskQueue)
  /\ UNCHANGED <<call, outcome, shutVars, metrics>>

\* Mutant: a worker leaves as soon as the channel is closed.
ExitLoopUndrained(w) ==
  /\ At(w, "recv", "exited")
  /\ chanClosed
  /\ UNCHANGED <<callVars, holds, outcome, shutVars, metrics>>

\* range ends only when the channel is closed and drained.
ExitLoop(w) ==
  /\ At(w, "recv", "exited")
  /\ taskQueue = <<>>
  /\ chanClosed
  /\ UNCHANGED <<callVars, holds, outcome, shutVars, metrics>>

BeginProcessing(w) ==
  /\ At(w, "got", "run")
  /\ Bump("processing", 1)
  /\ UNCHANGED <<callVars, holds, outcome, shutVars>>

\* Mutant: the recovery jumps over the counters of the worker loop.
SafeRunSkipsCounters(w) ==
  /\ worker[w] = "run"
  /\ \/ /\ worker' = [worker EXCEPT ![w] = "ran"]
        /\ outcome' = [outcome EXCEPT ![holds[w]] = "returned"]
        /\ UNCHANGED holds
     \/ /\ worker' = [worker EXCEPT ![w] = "recv"]
        /\ outcome' = [outcome EXCEPT ![holds[w]] = "recovered"]
        /\ holds' = [holds EXCEPT ![w] = NoTask]
  /\ UNCHANGED <<callVars, shutVars, metrics>>

\* safeRun: the task returns, or panics and the panic is recovered; either way
\* the worker goes on.
SafeRun(w) ==
  /\ At(w, "run", "ran")
  /\ \E o \in {"returned", "recovered"} : outcome' = [outcome EXCEPT ![holds[w]] = o]
  /\ UNCHANGED <<callVars, holds, shutVars, metrics>>

EndProcessing(w) ==
  /\ At(w, "ran", "uncounted")
  /\ Bump("processing", -1)
  /\ UNCHANGED <<callVars, holds, outcome, shutVars>>

CountCompleted(w) ==
  /\ At(w, "uncounted", "recv")
  /\ holds' = [holds EXCEPT ![w] = NoTask]
  /\ Bump("completed", 1)
  /\ UNCHANGED <<callVars, outcome, shutVars>>

WorkerStep(w) ==
  \/ Receive(w) \/ ExitLoop(w) \/ BeginProcessing(w)
  \/ SafeRun(w) \/ EndProcessing(w) \/ CountCompleted(w)
-----------------------------------------------------------------------------
(* Shutdown and ShutdownWithTimeout                                          *)

Step(c, from, to) == shut[c] = from /\ shut' = [shut EXCEPT ![c] = to]

\* ShutdownWithTimeout starts a goroutine that calls Shutdown, and waits for it.
CallShutdown(c) ==
  /\ Step(c, "idle", "once")
  /\ timed' = [d \in TimedClosers |-> IF d = c THEN "waiting" ELSE timed[d]]
  /\ UNCHANGED <<callVars, workVars, closed, chanClosed, once, metrics>>

\* sync.Once: the first caller runs the body, the others wait for its end.
EnterOnce(c) ==
  /\ Step(c, "once", "mark")
  /\ once = "free"
  /\ once' = "busy"
  /\ UNCHANGED <<callVars, workVars, closed, chanClosed, timed, metrics>>

\* Mutant: a compare-and-swap instead of the Once - a second caller does not wait.
SkipOnceNoWait(c) ==
  /\ Step(c, "once", "returned")
  /\ once # "free"
  /\ UNCHANGED <<callVars, workVars, closed, chanClosed, once, timed, metrics>>

\* A later caller leaves Do when the body has ended.
SkipOnce(c) ==
  /\ Step(c, "once", "returned")
  /\ once = "done"
  /\ UNCHANGED <<callVars, workVars, closed, chanClosed, once, timed, metrics>>

MarkClosed(c) ==
  /\ Step(c, "mark", "close")
  /\ closed' = TRUE
  /\ UNCHANGED <<callVars, workVars, chanClosed, once, timed, metrics>>

\* Mutant: only the flag is set, the channel stays open.
CloseQueueForgotten(c) ==
  /\ Step(c, "close", "wait")
  /\ UNCHANGED <<callVars, workVars, closed, chanClosed, once, timed, metrics>>

\* close(taskQueue): receivers drain it, senders panic.
CloseQueue(c) ==
  /\ Step(c, "close", "wait")
  /\ chanClosed' = TRUE
  /\ UNCHANGED <<callVars, workVars, closed, once, timed, metrics>>

\* wg.Wait returns when every worker has left its loop.
WaitWorkers(c) ==
  /\ Step(c, "wait", "returned")
  /\ \A w \in Workers : worker[w] = "exited"
  /\ once' = "done"
  /\ UNCHANGED <<callVars, workVars, closed, chanClosed, timed, metrics>>

\* The select of ShutdownWithTimeout: done was closed, or the timer fired.
TimedReturn(c) ==
  /\ timed[c] = "waiting"
  /\ \/ shut[c] = "returned" /\ timed' = [timed EXCEPT ![c] = "true"]
     \/ timed' = [timed EXCEPT ![c] = "false"]
  /\ UNCHANGED <<callVars, workVars, closed, chanClosed, shut, once, metrics>>

Closer(c) ==
  \/ CallShutdown(c) \/ EnterOnce(c) \/ SkipOnce(c)
  \/ MarkClosed(c) \/ CloseQueue(c) \/ WaitWorkers(c)
-----------------------------------------------------------------------------
\* Nothing is left to do: every call is over and the pool idles or has exited.
Quiescent ==
  /\ \A t \in Tasks : call[t] \in {"accepted", "panicked"} \cup Refused
  /\ \A t \in Tasks : call[t] = "accepted" => outcome[t] # "none"
  /\ \A w \in Workers : worker[w] \in {"recv", "exited"}
  /\ \A c \in Closers : shut[c] = "returned"
  /\ \A c \in TimedClosers : timed[c] # "waiting"
  /\ UNCHANGED vars

Next ==
  \/ \E t \in Tasks : Submitter(t)
  \/ \E w \in Workers : WorkerStep(w)
  \/ \E c \in Closers : Closer(c)
  \/ \E c \in TimedClosers : TimedReturn(c)
  \/ Quiescent

Spec == Init /\ [][Next]_vars

\* Runnable goroutines are scheduled (workers, submitters that can move, a
\* Shutdown body under way) and tasks end; nobody has to call Shutdown and a
\* context need not end.
Fairness ==
  /\ \A w \in Workers : WF_vars(WorkerStep(w))
  /\ \A t \in Tasks : WF_vars(Submitter(t) /\ call[t] # "new" /\ call'[t] # "refuseCtx")
  /\ \A c \in Closers : WF_vars(Closer(c) /\ shut[c] # "idle")
  /\ \A c \in TimedClosers : WF_vars(TimedReturn(c))

FairSpec == Spec /\ Fairness
-----------------------------------------------------------------------------
(* Properties                                                                *)

TypeOK ==
  /\ closed \in BOOLEAN /\ chanClosed \in BOOLEAN
  /\ taskQueue \in Seq(Tasks) /\ Len(taskQueue) <= QueueCap
  /\ call \in [Tasks -> CallPc]
  /\ worker \in [Workers -> WorkerPc]
  /\ holds \in [Workers -> Tasks \cup {NoTask}]
  /\ outcome \in [Tasks -> {"none", "returned", "recovered"}]
  /\ shut \in [Closers -> ShutPc]
  /\ once \in {"free", "busy", "done"}
  /\ timed \in [TimedClosers -> {"idle", "waiting", "true", "false"}]
  /\ metrics \in [Counters -> Int]

Queued(t)   == \E i \in 1..Len(taskQueue) : taskQueue[i] = t
HeldBy(w,t) == worker[w] \in {"got", "run"} /\ holds[w] = t
Held(t)     == \E w \in Workers : HeldBy(w, t)
Ended(t)    == outcome[t] # "none"

\* Exactly once: an accepted task is in one place only - one slot of the
\* channel, the hands of one worker, or finished - and a task that was not
\* accepted is nowhere, so no task is lost, run twice, or run after an error
\* was returned for it.
TaskPlacement ==
  /\ \A t \in Tasks : call[t] = "accepted" <=> (Queued(t) \/ Held(t) \/ Ended(t))
  /\ \A t \in Tasks : ~(Queued(t) /\ Held(t)) /\ ~(Ended(t) /\ (Queued(t) \/ Held(t)))
  /\ \A i, j \in 1..Len(taskQueue) : taskQueue[i] = taskQueue[j] => i = j
  /\ \A t \in Tasks : \A v, w \in Workers : HeldBy(v, t) /\ HeldBy(w, t) => v = w

\* "waits for all tasks in flight": when a call of Shutdown has returned - the
\* first one or one that found the Once done - every accepted task has ended
\* and every worker is gone; "true" from ShutdownWithTimeout says the same.
DrainedOnReturn ==
  (\/ \E c \in Closers : shut[c] = "returned"
   \/ \E c \in TimedClosers : timed[c] = "true")
     => /\ \A t \in Tasks : call[t] = "accepted" => Ended(t)
        /\ \A w \in Workers : worker[w] = "exited"

\* The four counters balance in every state: each call that was counted as
\* submitted, or refused before that, is accounted for by a completed task, a
\* task still in the pool, a rejection, or a call that is still under way.
CounterBalance ==
  LET calls(S) == Cardinality({t \in Tasks : call[t] \in S})
      busy     == Cardinality({w \in Workers : holds[w] # NoTask})
  IN  /\ metrics["submitted"] + calls({"ErrPoolClosed"})
           = metrics["completed"] + busy + Len(taskQueue) + metrics["rejected"]
             + calls({"select", "refuseFull", "refuseCtx", "panicked"})
      /\ metrics["processing"] = Cardinality({w \in Workers : worker[w] \in {"run", "ran"}})

\* Every Shutdown call returns, also one that loses the race for the Once.
ShutdownReturns == \A c \in Closers : shut[c] = "once" ~> shut[c] = "returned"

\* The pool implements TaskLifecycle: a panicked call counts as refused.
StageOf(t) ==
  IF Ended(t) THEN "done"
  ELSE IF Held(t) THEN "running"
  ELSE IF Queued(t) THEN "queued"
  ELSE IF call[t] \in Refusing \cup Refused \cup {"panicked"} THEN "refused"
  ELSE "new"

Lifecycle == INSTANCE TaskLifecycle
  WITH stage <- [t \in Tasks |-> StageOf(t)], stopped <- (once = "done")

\* Every fair behaviour of the pool is a behaviour of the abstract pool.
LifecycleSpec == Lifecycle!FairSpec

\* What the comment of Submit says (goroutine_pool.go:139): when the pool is
\* closed the call returns an error at once.
SubmitReportsClosedPool == \A t \in Tasks \ CtxTasks : call[t] # "panicked"
=============================================================================

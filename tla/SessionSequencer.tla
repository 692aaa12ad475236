-------------------------- MODULE SessionSequencer --------------------------
(***************************************************************************)
(* The per-session numbers of internal/service/sequence.  Goroutines call  *)
(* Next (Start for every message, the AI handler for questions and         *)
(* replies) while gcLoop deletes counters nobody has touched for an hour.  *)
(* A counter is an object on the heap: a caller that has looked it up goes *)
(* on using it after gcLoop has taken it out of the map.  lastAccess is    *)
(* written without the lock; the one word Before compares is old or new,   *)
(* which is what the steps below give.  Time is counted in hours.          *)
(***************************************************************************)
EXTENDS Integers, Sequences

CONSTANTS
  Callers,        \* goroutines that call Next
  SessionIDs,     \* the arguments they pass ...
  Empty, Global,  \* ... among them "" and the name it stands for
  MaxCalls,       \* bound: calls of Next
  MaxHours        \* bound: hours the clock advances

ASSUME SequencerAssumption ==
  /\ Global \in SessionIDs \ {Empty}
  /\ MaxCalls \in Nat /\ MaxHours \in Nat

VARIABLES
  counters,   \* the map: a session's counter, 0 if there is none
  heap,       \* every counter ever created: its session, value, lastAccess
  now,        \* the clock
  call,       \* each caller: where it stands, its session, the counter it holds
  calls,      \* number of calls begun
  issued,     \* history: the numbers given in a session, in the order of AddInt64
  collected   \* history: the counters gcLoop has deleted

vars == <<counters, heap, now, call, calls, issued, collected>>

Sessions == SessionIDs \ {Empty}
Name(s)  == IF s = Empty THEN Global ELSE s
Idle     == [pc |-> "idle", session |-> Global, ctr |-> 0]

Init ==
  /\ counters = [s \in Sessions |-> 0]
  /\ heap = <<>>
  /\ now = 0
  /\ call = [p \in Callers |-> Idle]
  /\ calls = 0
  /\ issued = [s \in Sessions |-> <<>>]
  /\ collected = {}
-----------------------------------------------------------------------------
\* The read-locked lookup.
Lookup(p, id) ==
  LET s == Name(id)
  IN  /\ call[p].pc = "idle"
      /\ calls < MaxCalls
      /\ calls' = calls + 1
      /\ call' = [call EXCEPT ![p] =
                    [pc |-> IF counters[s] = 0 THEN "create" ELSE "touch",
                     session |-> s, ctr |-> counters[s]]]
      /\ UNCHANGED <<counters, heap, now, issued, collected>>

\* Mutant: the map is not looked at again under the write lock.
CreateUnchecked(p) ==
  LET s == call[p].session
  IN  /\ call[p].pc = "create"
      /\ heap' = Append(heap, [session |-> s, value |-> 0, lastAccess |-> now])
      /\ counters' = [counters EXCEPT ![s] = Len(heap) + 1]
      /\ call' = [call EXCEPT ![p].pc = "touch", ![p].ctr = Len(heap) + 1]
      /\ UNCHANGED <<now, calls, issued, collected>>

\* Mutant: the check under the lock declares a counter of its own (:=), the outer
\* one stays nil.
CreateShadowed(p) ==
  LET s == call[p].session
  IN  /\ call[p].pc = "create"
      /\ IF counters[s] = 0
           THEN /\ heap' = Append(heap, [session |-> s, value |-> 0, lastAccess |-> now])
                /\ counters' = [counters EXCEPT ![s] = Len(heap) + 1]
           ELSE UNCHANGED <<heap, counters>>
      /\ call' = [call EXCEPT ![p].pc = "touch"]
      /\ UNCHANGED <<now, calls, issued, collected>>

\* The write-locked section: another caller may have created the counter.
Create(p) ==
  LET s == call[p].session
  IN  /\ call[p].pc = "create"
      /\ IF counters[s] = 0
           THEN /\ heap' = Append(heap, [session |-> s, value |-> 0, lastAccess |-> now])
                /\ counters' = [counters EXCEPT ![s] = Len(heap) + 1]
           ELSE UNCHANGED <<heap, counters>>
      /\ call' = [call EXCEPT ![p].pc = "touch", ![p].ctr = counters'[s]]
      /\ UNCHANGED <<now, calls, issued, collected>>

\* counter.lastAccess = time.Now()
Touch(p) ==
  /\ call[p].pc = "touch"
  /\ heap' = [heap EXCEPT ![call[p].ctr].lastAccess = now]
  /\ call' = [call EXCEPT ![p].pc = "add"]
  /\ UNCHANGED <<counters, now, calls, issued, collected>>

\* atomic.AddInt64, and the return.
AddInt64(p) ==
  LET c == call[p].ctr
      n == heap[c].value + 1
  IN  /\ call[p].pc = "add"
      /\ heap' = [heap EXCEPT ![c].value = n]
      /\ issued' = [issued EXCEPT ![call[p].session] =
                     Append(@, n)]
      /\ call' = [call EXCEPT ![p] = Idle]
      /\ UNCHANGED <<counters, now, calls, collected>>

Stale(s) == counters[s] # 0 /\ heap[counters[s]].lastAccess < now - 1

\* One sweep of gcLoop, under the write lock.
GcLoop ==
  LET old == {s \in Sessions : Stale(s)}
  IN  /\ old # {}
      /\ collected' = collected \cup {counters[s] : s \in old}
      /\ counters' = [s \in Sessions |-> IF s \in old THEN 0 ELSE counters[s]]
      /\ UNCHANGED <<heap, now, call, calls, issued>>

Tick ==
  /\ now < MaxHours
  /\ now' = now + 1
  /\ UNCHANGED <<counters, heap, call, calls, issued, collected>>

Next ==
  \/ \E p \in Callers, id \in SessionIDs : Lookup(p, id)
  \/ \E p \in Callers : Create(p) \/ Touch(p) \/ AddInt64(p)
  \/ GcLoop
  \/ Tick

Spec == Init /\ [][Next]_vars
-----------------------------------------------------------------------------
(* Properties                                                                *)

Counter == [session : Sessions, value : Nat, lastAccess : Nat]

CallPc == {"idle", "create", "touch", "add"}
Call   == [pc : CallPc, session : Sessions, ctr : Nat]

\* A call that touches or counts has a counter, and it is on the heap.
TypeOK ==
  /\ heap \in Seq(Counter)
  /\ counters \in [Sessions -> 0..Len(heap)]
  /\ now \in Nat /\ calls \in Nat
  /\ call \in [Callers -> Call]
  /\ \A p \in Callers : call[p].pc \in {"touch", "add"} => call[p].ctr \in 1..Len(heap)
  /\ issued \in [Sessions -> Seq(Nat)]
  /\ collected \subseteq 1..Len(heap)

\* In a session whose counter gcLoop has not deleted, the numbers are 1, 2, 3, ...
\* in the order they are given: nothing is skipped, nothing is given twice, also
\* when several goroutines find no counter and race to create it.
DenseUntilCollected ==
  \A s \in Sessions :
    (\A c \in collected : heap[c].session # s)
      => \A i \in 1..Len(issued[s]) : issued[s][i] = i
=============================================================================

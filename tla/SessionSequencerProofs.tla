----------------------- MODULE SessionSequencerProofs -----------------------
(***************************************************************************)
(* For any number of callers, sessions and calls, a session whose counter  *)
(* has not been deleted numbers its messages 1, 2, 3, ...                  *)
(***************************************************************************)
EXTENDS SessionSequencer, TLAPS

\* A counter that was not deleted is the one its session's callers find.
OneLiveCounter ==
  \A c \in 1..Len(heap) : c \notin collected => counters[heap[c].session] = c

\* The map and the callers point at counters of their session.
Ownership ==
  /\ \A s \in Sessions : counters[s] # 0 => heap[counters[s]].session = s
  /\ \A p \in Callers : call[p].ctr # 0 =>
       call[p].ctr \in 1..Len(heap) /\ heap[call[p].ctr].session = call[p].session

Uncollected(s) == \A c \in collected : heap[c].session # s

\* While nothing of a session was deleted, its live counter has counted what was given.
Ledger ==
  \A s \in Sessions : Uncollected(s) =>
    Len(issued[s]) = IF counters[s] = 0 THEN 0 ELSE heap[counters[s]].value

SequencerInv == TypeOK /\ OneLiveCounter /\ Ownership /\ Ledger /\ DenseUntilCollected
-----------------------------------------------------------------------------
\* Types are preserved.
LEMMA SequencerTypeStep ==
  ASSUME TypeOK, [Next]_vars
  PROVE  TypeOK'
<1>1. /\ heap \in Seq(Counter) /\ Len(heap) \in Nat
      /\ counters \in [Sessions -> 0..Len(heap)]
      /\ now \in Nat /\ calls \in Nat
      /\ call \in [Callers -> Call]
      /\ issued \in [Sessions -> Seq(Nat)]
      /\ collected \subseteq 1..Len(heap)
  BY DEF TypeOK
<1>2. \A p \in Callers : call[p].pc \in {"touch", "add"} => call[p].ctr \in 1..Len(heap)
  BY DEF TypeOK
<1>3. ASSUME NEW p \in Callers, NEW id \in SessionIDs, Lookup(p, id)
      PROVE  TypeOK'
  <2> DEFINE s == Name(id)
  <2>1. s \in Sessions
    BY SequencerAssumption DEF Name, Sessions
  <2>2. counters[s] \in 0..Len(heap) /\ counters[s] \in Nat /\ Len(issued[s]) \in Nat
    BY <1>1, <2>1
  <2> DEFINE r == [pc |-> IF counters[s] = 0 THEN "create" ELSE "touch",
                   session |-> s, ctr |-> counters[s]]
  <2>3. r \in Call
    BY <2>1, <2>2 DEF Call, CallPc
  <2>4. r.pc \in {"touch", "add"} => r.ctr \in 1..Len(heap)
    BY <1>1, <2>2
  <2>5. call' = [call EXCEPT ![p] = r]
    BY <1>3 DEF Lookup
  <2>6. call' \in [Callers -> Call]
    BY <1>1, <2>3, <2>5
  <2>7. \A q \in Callers : call'[q].pc \in {"touch", "add"} => call'[q].ctr \in 1..Len(heap)
    BY <1>1, <1>2, <2>4, <2>5
  <2>8. QED BY <1>1, <1>3, <2>6, <2>7 DEF Lookup, TypeOK
<1>4. ASSUME NEW p \in Callers, Create(p)
      PROVE  TypeOK'
  <2> DEFINE s == call[p].session
  <2>1. s \in Sessions
    BY <1>1 DEF Call
  <2>2. /\ heap' \in Seq(Counter) /\ Len(heap') \in Nat /\ Len(heap') >= Len(heap)
        /\ counters' \in [Sessions -> 0..Len(heap')] /\ counters'[s] # 0
    <3>1. CASE counters[s] = 0
      <4> DEFINE new == [session |-> s, value |-> 0, lastAccess |-> now]
      <4>1. new \in Counter
        BY <1>1, <2>1 DEF Counter
      <4>2. heap' = Append(heap, new) /\ counters' = [counters EXCEPT ![s] = Len(heap) + 1]
        BY <1>4, <3>1 DEF Create
      <4>3. heap' \in Seq(Counter) /\ Len(heap') = Len(heap) + 1
        BY <1>1, <4>1, <4>2
      <4>4. QED BY <1>1, <2>1, <4>2, <4>3
    <3>2. CASE counters[s] # 0
      BY <1>1, <1>4, <3>2 DEF Create
    <3>3. QED BY <3>1, <3>2
  <2>3. counters'[s] \in 1..Len(heap')
    BY <2>1, <2>2
  <2> DEFINE r == [call[p] EXCEPT !.pc = "touch", !.ctr = counters'[s]]
  <2>4. call' = [call EXCEPT ![p] = r]
    BY <1>4, <1>1 DEF Create, Call
  <2>5. r \in Call /\ r.ctr \in 1..Len(heap')
    <3>1. call[p] \in Call /\ counters'[s] \in Nat
      BY <1>1, <2>2, <2>3
    <3>2. QED BY <2>3, <3>1 DEF Call, CallPc
  <2>6. call' \in [Callers -> Call]
    BY <1>1, <2>4, <2>5
  <2>7. \A q \in Callers : call'[q].pc \in {"touch", "add"} => call'[q].ctr \in 1..Len(heap')
    BY <1>1, <1>2, <2>2, <2>4, <2>5
  <2>8. collected' \subseteq 1..Len(heap')
    BY <1>1, <1>4, <2>2 DEF Create
  <2>9. QED BY <1>1, <1>4, <2>2, <2>6, <2>7, <2>8 DEF Create, TypeOK
<1>5. ASSUME NEW p \in Callers, Touch(p)
      PROVE  TypeOK'
  <2> DEFINE c == call[p].ctr
  <2>1. c \in 1..Len(heap)
    BY <1>2, <1>5 DEF Touch
  <2>2. [heap[c] EXCEPT !.lastAccess = now] \in Counter
    <3>1. heap[c] \in Counter /\ now \in Nat
      BY <1>1, <2>1
    <3>2. QED BY <3>1 DEF Counter
  <2>3. heap' \in Seq(Counter) /\ Len(heap') = Len(heap)
    BY <1>1, <1>5, <2>1, <2>2 DEF Touch
  <2>4. call' = [call EXCEPT ![p] = [call[p] EXCEPT !.pc = "add"]]
    BY <1>5 DEF Touch
  <2>5. [call[p] EXCEPT !.pc = "add"] \in Call /\ [call[p] EXCEPT !.pc = "add"].ctr = c
    BY <1>1 DEF Call, CallPc
  <2>6. call' \in [Callers -> Call]
    BY <1>1, <2>4, <2>5
  <2>7. \A q \in Callers : call'[q].pc \in {"touch", "add"} => call'[q].ctr \in 1..Len(heap)
    BY <1>1, <1>2, <2>1, <2>4, <2>5
  <2>8. QED BY <1>1, <1>5, <2>3, <2>6, <2>7 DEF Touch, TypeOK
<1>6. ASSUME NEW p \in Callers, AddInt64(p)
      PROVE  TypeOK'
  <2> DEFINE c == call[p].ctr
             n == heap[c].value + 1
             e == n
             s == call[p].session
  <2>1. c \in 1..Len(heap)
    BY <1>2, <1>6 DEF AddInt64
  <2>2. heap[c] \in Counter
    BY <1>1, <2>1
  <2>3. n \in Nat /\ [heap[c] EXCEPT !.value = n] \in Counter
    BY <2>2 DEF Counter
  <2>4. heap' \in Seq(Counter) /\ Len(heap') = Len(heap)
    BY <1>1, <1>6, <2>1, <2>3 DEF AddInt64
  <2>5. e \in Nat /\ s \in Sessions
    BY <1>1, <2>3 DEF Call
  <2>6. issued' = [issued EXCEPT ![s] = Append(issued[s], e)]
    BY <1>6 DEF AddInt64
  <2>7. Append(issued[s], e) \in Seq(Nat)
    BY <1>1, <2>5
  <2>8. issued' \in [Sessions -> Seq(Nat)]
    BY <1>1, <2>5, <2>6, <2>7
  <2>9. Idle \in Call
    BY SequencerAssumption DEF Idle, Call, CallPc, Sessions
  <2>10. call' = [call EXCEPT ![p] = Idle]
    BY <1>6 DEF AddInt64
  <2>11. call' \in [Callers -> Call]
    BY <1>1, <2>9, <2>10
  <2>12. \A q \in Callers : call'[q].pc \in {"touch", "add"} => call'[q].ctr \in 1..Len(heap)
    BY <1>1, <1>2, <2>10 DEF Idle
  <2>13. QED BY <1>1, <1>6, <2>4, <2>8, <2>11, <2>12 DEF AddInt64, TypeOK
<1>7. CASE GcLoop
  <2>1. collected' \subseteq 1..Len(heap)
    <3>1. \A s \in Sessions : Stale(s) => counters[s] \in 1..Len(heap)
      BY <1>1 DEF Stale
    <3>2. QED BY <1>1, <1>7, <3>1 DEF GcLoop
  <2>2. counters' \in [Sessions -> 0..Len(heap)]
    BY <1>1, <1>7 DEF GcLoop
  <2>3. QED BY <1>1, <1>2, <1>7, <2>1, <2>2 DEF GcLoop, TypeOK
<1>8. CASE Tick
  BY <1>1, <1>2, <1>8 DEF Tick, TypeOK
<1>9. CASE UNCHANGED vars
  BY <1>1, <1>2, <1>9 DEF vars, TypeOK
<1>10. QED BY <1>3, <1>4, <1>5, <1>6, <1>7, <1>8, <1>9 DEF Next
-----------------------------------------------------------------------------
\* Create adds the counter a session lacks, AddInt64 advances the live counter and
\* the record of its session together, GcLoop gives up on the sessions it touches.
LEMMA SequencerStep ==
  ASSUME SequencerInv, [Next]_vars
  PROVE  SequencerInv'
<1>1. TypeOK /\ TypeOK'
  BY SequencerTypeStep DEF SequencerInv
<1>2. /\ heap \in Seq(Counter) /\ Len(heap) \in Nat
      /\ counters \in [Sessions -> 0..Len(heap)]
      /\ call \in [Callers -> Call]
      /\ issued \in [Sessions -> Seq(Nat)]
      /\ collected \subseteq 1..Len(heap)
      /\ \A p \in Callers : call[p].pc \in {"touch", "add"} => call[p].ctr \in 1..Len(heap)
  BY <1>1 DEF TypeOK
<1>3. /\ \A c \in 1..Len(heap) : heap[c].session \in Sessions /\ heap[c].value \in Nat
      /\ \A p \in Callers : call[p].session \in Sessions /\ call[p].ctr \in Nat
      /\ \A s \in Sessions : Len(issued[s]) \in Nat /\ counters[s] \in 0..Len(heap)
  <2>1. ASSUME NEW c \in 1..Len(heap)
        PROVE  heap[c].session \in Sessions /\ heap[c].value \in Nat
    <3>1. heap[c] \in Counter
      BY <1>2
    <3>2. QED BY <3>1 DEF Counter
  <2>2. \A p \in Callers : call[p].session \in Sessions /\ call[p].ctr \in Nat
    BY <1>2 DEF Call
  <2>3. \A s \in Sessions : Len(issued[s]) \in Nat /\ counters[s] \in 0..Len(heap)
    BY <1>2
  <2>4. QED BY <2>1, <2>2, <2>3
<1>4. ASSUME NEW p \in Callers, NEW id \in SessionIDs, Lookup(p, id)
      PROVE  OneLiveCounter' /\ Ownership' /\ Ledger' /\ DenseUntilCollected'
  <2>1. Name(id) \in Sessions
    BY SequencerAssumption DEF Name, Sessions
  <2>2. Ownership'
    BY <1>2, <1>4, <2>1 DEF Lookup, Ownership, SequencerInv
  <2>3. QED BY <1>4, <2>2 DEF Lookup, SequencerInv, OneLiveCounter, Ledger, Uncollected,
                              DenseUntilCollected
<1>5. ASSUME NEW p \in Callers, Create(p)
      PROVE  OneLiveCounter' /\ Ownership' /\ Ledger' /\ DenseUntilCollected'
  <2> DEFINE s == call[p].session
             new == [session |-> s, value |-> 0, lastAccess |-> now]
             k == Len(heap) + 1
  <2>1. CASE counters[s] = 0
    <3>1. /\ heap' = Append(heap, new) /\ counters' = [counters EXCEPT ![s] = k]
          /\ UNCHANGED <<issued, collected>>
      BY <1>5, <2>1 DEF Create
    <3>2. /\ Len(heap') = k /\ heap'[k] = new
          /\ \A c \in 1..Len(heap) : heap'[c] = heap[c]
          /\ 1..Len(heap') = 1..Len(heap) \cup {k}
      BY <1>2, <3>1
    <3>3. s \in Sessions /\ counters'[s] = k
          /\ \A t \in Sessions : t # s => counters'[t] = counters[t]
      BY <1>2, <1>3, <3>1
    <3>4. \A c \in 1..Len(heap) : heap[c].session = s => c \in collected
      BY <1>3, <2>1 DEF SequencerInv, OneLiveCounter
    <3>5. OneLiveCounter'
      <4>1. ASSUME NEW c \in 1..Len(heap'), c \notin collected'
            PROVE  counters'[heap'[c].session] = c
        <5>1. CASE c = k
          BY <3>2, <3>3, <5>1
        <5>2. CASE c \in 1..Len(heap)
          <6>1. heap[c].session # s
            BY <3>1, <3>4, <4>1, <5>2
          <6>2. counters[heap[c].session] = c
            BY <3>1, <4>1, <5>2 DEF SequencerInv, OneLiveCounter
          <6>3. QED BY <1>3, <3>2, <3>3, <5>2, <6>1, <6>2
        <5>3. QED BY <3>2, <5>1, <5>2
      <4>2. QED BY <4>1 DEF OneLiveCounter
    <3>6. Ownership'
      <4>1. \A t \in Sessions : counters'[t] # 0 => heap'[counters'[t]].session = t
        <5>1. heap'[k].session = s
          BY <3>2
        <5>2. \A t \in Sessions : counters[t] # 0 =>
                /\ counters[t] \in 1..Len(heap) /\ heap[counters[t]].session = t
          BY <1>3 DEF SequencerInv, Ownership
        <5>3. QED BY <3>2, <3>3, <5>1, <5>2
      <4>2. \A q \in Callers : /\ call'[q].session = call[q].session
                               /\ call'[q].ctr = IF q = p THEN k ELSE call[q].ctr
        BY <1>2, <1>5, <3>3 DEF Create, Call
      <4>3. \A q \in Callers : call'[q].ctr # 0 => call'[q].ctr \in 1..Len(heap')
        BY <3>2, <4>2 DEF SequencerInv, Ownership
      <4>4. QED BY <1>3, <3>2, <4>1, <4>2, <4>3 DEF SequencerInv, Ownership
    <3>7. Ledger'
      BY <3>1, <3>2, <3>3, <2>1, <1>2, <1>3 DEF SequencerInv, Ledger, Uncollected, Ownership
    <3>8. DenseUntilCollected'
      BY <1>2, <3>1, <3>2 DEF SequencerInv, DenseUntilCollected
    <3>9. QED BY <3>5, <3>6, <3>7, <3>8
  <2>2. CASE counters[s] # 0
    <3>1. UNCHANGED <<heap, counters, issued, collected>>
      BY <1>5, <2>2 DEF Create
    <3>2. Ownership'
      BY <1>2, <1>3, <1>5, <2>2, <3>1 DEF Create, Ownership, SequencerInv, Call
    <3>3. QED BY <3>1, <3>2 DEF SequencerInv, OneLiveCounter, Ledger, Uncollected,
                                DenseUntilCollected
  <2>3. QED BY <2>1, <2>2
<1>6. ASSUME NEW p \in Callers, Touch(p)
      PROVE  OneLiveCounter' /\ Ownership' /\ Ledger' /\ DenseUntilCollected'
  <2>1. call[p].ctr \in 1..Len(heap)
    BY <1>2, <1>6 DEF Touch
  <2>2. /\ Len(heap') = Len(heap)
        /\ \A c \in 1..Len(heap) : heap'[c].session = heap[c].session
                                   /\ heap'[c].value = heap[c].value
        /\ UNCHANGED <<counters, issued, collected>>
    <3> DEFINE k == call[p].ctr
    <3>1. heap' = [heap EXCEPT ![k] = [heap[k] EXCEPT !.lastAccess = now]]
      BY <1>6 DEF Touch
    <3>2. heap[k] \in Counter
      BY <1>2, <2>1
    <3>3. /\ [heap[k] EXCEPT !.lastAccess = now].session = heap[k].session
          /\ [heap[k] EXCEPT !.lastAccess = now].value = heap[k].value
      BY <3>2 DEF Counter
    <3>4. UNCHANGED <<counters, issued, collected>>
      BY <1>6 DEF Touch
    <3>5. QED BY <1>2, <2>1, <3>1, <3>3, <3>4
  <2>3. \A q \in Callers : call'[q].session = call[q].session /\ call'[q].ctr = call[q].ctr
    BY <1>2, <1>6 DEF Touch, Call
  <2>4. OneLiveCounter' /\ Ownership'
    BY <1>3, <2>2, <2>3 DEF SequencerInv, OneLiveCounter, Ownership
  <2>5. \A s \in Sessions : Uncollected(s)' <=> Uncollected(s)
    BY <1>2, <2>2 DEF Uncollected
  <2>6. Ledger'
    BY <1>3, <2>2, <2>5 DEF SequencerInv, Ledger
  <2>7. DenseUntilCollected'
    BY <2>2, <2>5 DEF SequencerInv, DenseUntilCollected, Uncollected
  <2>8. QED BY <2>4, <2>6, <2>7
<1>7. ASSUME NEW p \in Callers, AddInt64(p)
      PROVE  OneLiveCounter' /\ Ownership' /\ Ledger' /\ DenseUntilCollected'
  <2> DEFINE s == call[p].session
             k == call[p].ctr
             e == heap[k].value + 1
  <2>1. k \in 1..Len(heap) /\ heap[k].session = s /\ s \in Sessions
    BY <1>2, <1>3, <1>7 DEF AddInt64, SequencerInv, Ownership
  <2>2. /\ Len(heap') = Len(heap)
        /\ \A c \in 1..Len(heap) : heap'[c].session = heap[c].session
        /\ \A c \in 1..Len(heap) : c # k => heap'[c].value = heap[c].value
        /\ heap'[k].value = heap[k].value + 1
    <3>1. heap' = [heap EXCEPT ![k] = [heap[k] EXCEPT !.value = heap[k].value + 1]]
      BY <1>7 DEF AddInt64
    <3>2. heap[k] \in Counter
      BY <1>2, <2>1
    <3>3. /\ [heap[k] EXCEPT !.value = heap[k].value + 1].session = heap[k].session
          /\ [heap[k] EXCEPT !.value = heap[k].value + 1].value = heap[k].value + 1
      BY <3>2 DEF Counter
    <3>4. QED BY <1>2, <2>1, <3>1, <3>3
  <2>3. /\ issued'[s] = Append(issued[s], e)
        /\ \A t \in Sessions : t # s => issued'[t] = issued[t]
        /\ UNCHANGED <<counters, collected>>
    BY <1>2, <1>7, <2>1 DEF AddInt64
  <2>4. \A t \in Sessions : Uncollected(t)' <=> Uncollected(t)
    BY <1>2, <2>2, <2>3 DEF Uncollected
  <2>5. OneLiveCounter'
    BY <1>3, <2>2, <2>3 DEF SequencerInv, OneLiveCounter
  <2>6. Ownership'
    <3>1. \A q \in Callers : q # p => call'[q] = call[q]
      BY <1>2, <1>7 DEF AddInt64
    <3>2. call'[p].ctr = 0
      BY <1>2, <1>7 DEF AddInt64, Idle
    <3>3. \A t \in Sessions : counters'[t] # 0 => heap'[counters'[t]].session = t
      BY <1>3, <2>2, <2>3 DEF SequencerInv, Ownership
    <3>4. \A q \in Callers : call'[q].ctr # 0 =>
            call'[q].ctr \in 1..Len(heap') /\ heap'[call'[q].ctr].session = call'[q].session
      BY <2>2, <3>1, <3>2 DEF SequencerInv, Ownership
    <3>5. QED BY <3>3, <3>4 DEF Ownership
  <2>7. Uncollected(s) => counters[s] = k /\ Len(issued[s]) = heap[k].value
    <3>1. Uncollected(s) => k \notin collected
      BY <2>1 DEF Uncollected
    <3>2. Uncollected(s) => counters[s] = k /\ k # 0
      BY <1>2, <2>1, <3>1 DEF SequencerInv, OneLiveCounter
    <3>3. QED BY <2>1, <3>2 DEF SequencerInv, Ledger
  <2>8. /\ Len(issued'[s]) = Len(issued[s]) + 1
        /\ \A i \in 1..Len(issued[s]) : issued'[s][i] = issued[s][i]
        /\ issued'[s][Len(issued[s]) + 1] = e
        /\ 1..Len(issued'[s]) = 1..Len(issued[s]) \cup {Len(issued[s]) + 1}
    BY <1>2, <1>3, <2>1, <2>3, SMTT(30)
  <2>9. Ledger'
    <3>1. ASSUME NEW t \in Sessions, Uncollected(t)
          PROVE  Len(issued'[t]) = IF counters[t] = 0 THEN 0 ELSE heap'[counters[t]].value
      <4>1. CASE t = s
        <5>1. counters[s] = k /\ k # 0 /\ Len(issued[s]) = heap[k].value
          BY <1>2, <2>1, <2>7, <3>1, <4>1
        <5>2. QED BY <2>2, <2>8, <4>1, <5>1
      <4>2. CASE t # s
        <5>1. counters[t] # 0 => counters[t] \in 1..Len(heap) /\ counters[t] # k
          BY <1>3, <2>1, <4>2 DEF SequencerInv, Ownership
        <5>2. QED BY <2>2, <2>3, <3>1, <4>2, <5>1 DEF SequencerInv, Ledger
      <4>3. QED BY <4>1, <4>2
    <3>2. QED BY <2>3, <2>4, <3>1 DEF Ledger
  <2>10. DenseUntilCollected'
    <3>1. ASSUME NEW t \in Sessions, Uncollected(t), NEW i \in 1..Len(issued'[t])
          PROVE  issued'[t][i] = i
      <4>1. \A j \in 1..Len(issued[t]) : issued[t][j] = j
        BY <3>1 DEF SequencerInv, DenseUntilCollected, Uncollected
      <4>2. CASE t = s
        <5>1. e = Len(issued[s]) + 1
          BY <2>7, <3>1, <4>2
        <5>2. i \in 1..Len(issued[s]) \/ i = Len(issued[s]) + 1
          BY <2>8, <3>1, <4>2
        <5>3. QED BY <2>8, <4>1, <4>2, <5>1, <5>2
      <4>3. CASE t # s
        BY <2>3, <3>1, <4>1, <4>3
      <4>4. QED BY <4>2, <4>3
    <3>2. QED BY <2>4, <3>1 DEF DenseUntilCollected, Uncollected
  <2>11. QED BY <2>5, <2>6, <2>9, <2>10
<1>8. ASSUME GcLoop
      PROVE  OneLiveCounter' /\ Ownership' /\ Ledger' /\ DenseUntilCollected'
  <2>1. /\ UNCHANGED <<heap, call, issued>>
        /\ \A s \in Sessions : counters'[s] = IF Stale(s) THEN 0 ELSE counters[s]
        /\ collected' = collected \cup {counters[s] : s \in {t \in Sessions : Stale(t)}}
    BY <1>8 DEF GcLoop
  <2>2. \A s \in Sessions : Uncollected(s)' => Uncollected(s) /\ ~Stale(s)
    BY <2>1 DEF Uncollected, SequencerInv, Ownership, Stale
  <2>3. OneLiveCounter'
    BY <1>3, <2>1 DEF SequencerInv, OneLiveCounter
  <2>4. Ownership'
    BY <2>1 DEF SequencerInv, Ownership
  <2>5. Ledger'
    BY <2>1, <2>2 DEF SequencerInv, Ledger
  <2>6. DenseUntilCollected'
    BY <2>1, <2>2 DEF SequencerInv, DenseUntilCollected, Uncollected
  <2>7. QED BY <2>3, <2>4, <2>5, <2>6
<1>9. ASSUME Tick \/ UNCHANGED vars
      PROVE  OneLiveCounter' /\ Ownership' /\ Ledger' /\ DenseUntilCollected'
  <2>1. UNCHANGED <<counters, heap, call, issued, collected>>
    BY <1>9 DEF Tick, vars
  <2>2. OneLiveCounter' /\ Ownership'
    BY <2>1 DEF SequencerInv, OneLiveCounter, Ownership
  <2>3. Ledger' /\ DenseUntilCollected'
    BY <2>1 DEF SequencerInv, Ledger, Uncollected, DenseUntilCollected
  <2>4. QED BY <2>2, <2>3
<1>10. OneLiveCounter' /\ Ownership' /\ Ledger' /\ DenseUntilCollected'
  BY <1>4, <1>5, <1>6, <1>7, <1>8, <1>9 DEF Next
<1>11. QED BY <1>1, <1>10 DEF SequencerInv

LEMMA SequencerInvariant == Spec => []SequencerInv
<1>1. ASSUME Init PROVE SequencerInv
  <2>1. Idle \in Call
    BY SequencerAssumption DEF Idle, Call, CallPc, Sessions
  <2>2. TypeOK
    BY <1>1, <2>1 DEF Init, TypeOK, Idle
  <2>3. QED BY <1>1, <2>2 DEF Init, SequencerInv, OneLiveCounter, Ownership, Ledger,
                              DenseUntilCollected, Idle
<1>2. SequencerInv /\ [Next]_vars => SequencerInv'
  BY SequencerStep
<1>3. QED BY <1>1, <1>2, PTL DEF Spec

\* The variables of the sequencer keep their types; no caller counts on a nil counter.
THEOREM SequencerTypes == Spec => []TypeOK
<1>1. SequencerInv => TypeOK
  BY DEF SequencerInv
<1>2. QED BY <1>1, SequencerInvariant, PTL

\* Next numbers the messages of a session 1, 2, 3, ... for any number of concurrent
\* callers, as long as gcLoop has not deleted the session's counter.
THEOREM SequenceIsDense == Spec => []DenseUntilCollected
<1>1. SequencerInv => DenseUntilCollected
  BY DEF SequencerInv
<1>2. QED BY <1>1, SequencerInvariant, PTL
=============================================================================
